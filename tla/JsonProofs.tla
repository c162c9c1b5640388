----------------------------- MODULE JsonProofs -----------------------------
(***************************************************************************)
(* The scanner of a line (JsonScanner) finds an id exactly when the        *)
(* grammar (JsonGrammar) does, and finds the same one, for every line.     *)
(*                                                                         *)
(* The scanner goes from a place to the places behind it; the grammar      *)
(* keeps a stack and reads a byte at a time.  What relates them is the     *)
(* ids a reading ends with: Judged is the function that gives them at      *)
(* each place of the line, told from the end of the line back, and one     *)
(* token, one value, one member at a time it is shown to be what the       *)
(* scanner finds from there (TokenAhead, ScannedRead, TopReads).  Where    *)
(* the scanner fails the grammar reads on, but with a stack that no later  *)
(* token mends (Doomed).  The start of the line is then the theorem.       *)
(***************************************************************************)
EXTENDS JsonGrammar, Utf8, OperatorProofs

(* The least of some numbers.                                               *)
LEMMA MinIs ==
  ASSUME NEW T, T \subseteq Nat, NEW m \in T, \A x \in T : m <= x
  PROVE  Min(T) = m
<1>1. \A y \in T : (\A x \in T : y <= x) => y = m
  <2> SUFFICES ASSUME NEW y \in T, \A x \in T : y <= x PROVE y = m
    OBVIOUS
  <2>1. y <= m /\ m <= y /\ y \in Nat /\ m \in Nat
    OBVIOUS
  <2> QED
    BY <2>1
<1> QED
  BY <1>1 DEF Min

(* Texts are joined in either order of brackets.                            *)
LEMMA TextAssociative ==
  ASSUME NEW s \in Seq(Byte), NEW t \in Seq(Byte), NEW u \in Seq(Byte)
  PROVE  (s \o t) \o u = s \o (t \o u)
BY ConcatAssociative

-----------------------------------------------------------------------------
(* What the scanner finds.                                                   *)

(* The end of a run of spaces.                                               *)
LEMMA SpaceEnds ==
  ASSUME NEW text \in Seq(Byte), NEW p \in 0 .. Len(text)
  PROVE  /\ SkipSpace(text, p) \in p .. Len(text)
         /\ SkipSpace(text, p) < Len(text) => text[SkipSpace(text, p) + 1] \notin Space
         /\ p < Len(text) /\ text[p + 1] \in Space => SkipSpace(text, p) = SkipSpace(text, p + 1)
         /\ p < Len(text) /\ text[p + 1] \notin Space => SkipSpace(text, p) = p
         /\ p = Len(text) => SkipSpace(text, p) = p
<1> DEFINE n == Len(text)
           Stops(q) == q < n => text[q + 1] \notin Space
           T(from) == {q \in from .. n : Stops(q)}
<1>1. n \in Nat /\ p \in 0 .. n
  OBVIOUS
<1>2. \A from : SkipSpace(text, from) = Min(T(from))
  BY DEF SkipSpace
<1> HIDE DEF n
<1>3. Stops(n)
  BY <1>1
<1> HIDE DEF Stops
<1>4. ASSUME NEW from \in 0 .. n
      PROVE  /\ SkipSpace(text, from) \in from .. n /\ Stops(SkipSpace(text, from))
             /\ \A q \in from .. n : Stops(q) => SkipSpace(text, from) <= q
  <2>1. T(from) \subseteq Nat /\ n \in T(from)
    BY <1>1, <1>3, <1>4
  <2>2. PICK m \in T(from) : \A q \in T(from) : m <= q
    <3> HIDE DEF T
    <3> QED
      BY <2>1, LeastNatural
  <2>3. Min(T(from)) = m
    <3> HIDE DEF T
    <3> QED
      BY <2>1, <2>2, MinIs
  <2>4. SkipSpace(text, from) = m
    BY <1>2, <2>3
  <2> QED
    BY <2>2, <2>4
<1> DEFINE q == SkipSpace(text, p)
<1>5. q \in p .. n /\ Stops(q) /\ \A j \in p .. n : Stops(j) => q <= j
  BY <1>1, <1>4
<1>6. CASE p < n /\ text[p + 1] \in Space
  <2> DEFINE r == SkipSpace(text, p + 1)
  <2>1. p + 1 \in 0 .. n
    BY <1>1, <1>6
  <2>2. r \in p + 1 .. n /\ Stops(r) /\ \A j \in p + 1 .. n : Stops(j) => r <= j
    BY <1>4, <2>1
  <2>3. ~ Stops(p)
    BY <1>6 DEF Stops
  <2>4. q # p
    BY <1>5, <2>3
  <2> HIDE DEF q, r
  <2>5. q \in p + 1 .. n /\ r \in p .. n
    BY <1>1, <1>5, <2>2, <2>4
  <2>6. r <= q /\ q <= r
    BY <1>5, <2>2, <2>5
  <2>7. q = r
    BY <1>1, <2>5, <2>6
  <2> QED
    BY <1>5, <1>6, <2>7 DEF q, r, Stops, n
<1>7. CASE ~ (p < n /\ text[p + 1] \in Space)
  <2>1. Stops(p)
    BY <1>7 DEF Stops
  <2>2. p \in p .. n
    BY <1>1
  <2> HIDE DEF q
  <2>3. q <= p
    BY <1>5, <2>1, <2>2
  <2>4. q = p
    BY <1>1, <1>5, <2>3
  <2> QED
    BY <1>5, <1>7, <2>4 DEF q, Stops, n
<1> QED
  BY <1>6, <1>7

(* What an escape stands for is a byte.                                      *)
LEMMA EscapeBytes == \A c \in DOMAIN Escapes : Escapes[c] \in Byte
BY DEF Escapes, Byte, Quote, Backslash

(* What ParseString is behind the opening quote.                             *)
Prefixed(strings, bytes) == {[r EXCEPT !.value = bytes \o @] : r \in strings}
StringStep(text, rest, p) ==
  LET Then(width, adds) == {[r EXCEPT !.value = adds \o @] : r \in rest[p + width]}
  IN IF p = Len(text) THEN {}
     ELSE IF text[p + 1] = Quote THEN {[end |-> p + 1, value |-> <<>>]}
     ELSE IF text[p + 1] < 32 THEN {}
     ELSE IF text[p + 1] # Backslash THEN Then(1, <<text[p + 1]>>)
     ELSE IF p + 1 < Len(text) /\ text[p + 2] \in DOMAIN Escapes
     THEN Then(2, <<Escapes[text[p + 2]]>>)
     ELSE IF At(text, p + 1, LetterU) /\ p + 6 <= Len(text)
     THEN Then(6, SubSeq(text, p + 1, p + 6))
     ELSE {}
StringRest(text) ==
  CHOOSE rest : rest = [p \in 0 .. Len(text) |-> StringStep(text, rest, p)]

(* The same without the local operator.                                      *)
LEMMA StringStepIs ==
  ASSUME NEW text, NEW rest, NEW p
  PROVE  StringStep(text, rest, p) =
           IF p = Len(text) THEN {}
           ELSE IF text[p + 1] = Quote THEN {[end |-> p + 1, value |-> <<>>]}
           ELSE IF text[p + 1] < 32 THEN {}
           ELSE IF text[p + 1] # Backslash THEN Prefixed(rest[p + 1], <<text[p + 1]>>)
           ELSE IF p + 1 < Len(text) /\ text[p + 2] \in DOMAIN Escapes
           THEN Prefixed(rest[p + 2], <<Escapes[text[p + 2]]>>)
           ELSE IF At(text, p + 1, LetterU) /\ p + 6 <= Len(text)
           THEN Prefixed(rest[p + 6], SubSeq(text, p + 1, p + 6))
           ELSE {}
BY DEF StringStep, Prefixed

(* Strings that end between two places.                                      *)
StringsWithin(from, to) == [end : from .. to, value : Seq(Byte)]

(* Bytes before a string leave it within its places.                         *)
LEMMA PrefixedType ==
  ASSUME NEW from \in Nat, NEW to \in Nat, NEW strings, strings \subseteq StringsWithin(from, to),
         NEW bytes \in Seq(Byte), NEW before \in Nat, before <= from
  PROVE  Prefixed(strings, bytes) \subseteq StringsWithin(before, to)
<1> DEFINE Text == Seq(Byte)
<1> SUFFICES ASSUME NEW r \in strings
             PROVE  [r EXCEPT !.value = bytes \o @] \in StringsWithin(before, to)
  BY DEF Prefixed
<1>1. r \in [end : from .. to, value : Text]
  BY DEF StringsWithin
<1>2. bytes \o r.value \in Text
  BY <1>1, ConcatProperties
<1>3. r.end \in before .. to
  BY <1>1
<1> HIDE DEF Text
<1>4. [r EXCEPT !.value = bytes \o @] \in [end : before .. to, value : Text]
  BY <1>1, <1>2, <1>3
<1> QED
  BY <1>4 DEF StringsWithin, Text

(* One step of a string stays within the line.                               *)
LEMMA StringStepType ==
  ASSUME NEW text \in Seq(Byte), NEW p \in 0 .. Len(text), NEW low \in 0 .. p + 1, NEW f,
         \A j \in p + 1 .. Len(text) : f[j] \subseteq StringsWithin(low, Len(text))
  PROVE  StringStep(text, f, p) \subseteq StringsWithin(low, Len(text))
<1> DEFINE n == Len(text)
           W == StringsWithin(low, n)
<1>1. n \in Nat /\ low \in Nat
  OBVIOUS
<1>2. CASE p = n
  BY <1>2, StringStepIs
<1>3. CASE p # n
  <2> DEFINE a == Prefixed(f[p + 1], <<text[p + 1]>>)
             b == Prefixed(f[p + 2], <<Escapes[text[p + 2]]>>)
             c == Prefixed(f[p + 6], SubSeq(text, p + 1, p + 6))
             d == {[end |-> p + 1, value |-> <<>>]}
  <2>1. p + 1 \in 1 .. n /\ p + 1 \in p + 1 .. n /\ p + 1 \in low .. n
    BY <1>1, <1>3
  <2>2. text[p + 1] \in Byte
    BY <2>1
  <2>3. \A byte \in Byte : <<byte>> \in Seq(Byte)
    OBVIOUS
  <2>4. p + 6 <= n => SubSeq(text, p + 1, p + 6) \in Seq(Byte) /\ p + 6 \in p + 1 .. n
    BY <1>1, <2>1, SubSeqProperties
  <2>5. ASSUME NEW j \in p + 1 .. n, NEW bytes \in Seq(Byte)
        PROVE  Prefixed(f[j], bytes) \subseteq W
    <3>1. f[j] \subseteq StringsWithin(low, n)
      OBVIOUS
    <3> HIDE DEF n
    <3> QED
      BY <1>1, <3>1, PrefixedType
  <2>6. a \subseteq W
    BY <2>1, <2>2, <2>3, <2>5
  <2>7. p + 1 < n /\ text[p + 2] \in DOMAIN Escapes => b \subseteq W
    <3>1. p + 1 < n => p + 2 \in p + 1 .. n
      BY <1>1
    <3> QED
      BY <2>3, <2>5, <3>1, EscapeBytes
  <2>8. p + 6 <= n => c \subseteq W
    BY <2>4, <2>5
  <2>9. d \subseteq W
    <3>1. <<>> \in Seq(Byte)
      OBVIOUS
    <3> QED
      BY <2>1, <3>1 DEF StringsWithin
  <2>10. StringStep(text, f, p) =
           IF text[p + 1] = Quote THEN d
           ELSE IF text[p + 1] < 32 THEN {}
           ELSE IF text[p + 1] # Backslash THEN a
           ELSE IF p + 1 < n /\ text[p + 2] \in DOMAIN Escapes THEN b
           ELSE IF At(text, p + 1, LetterU) /\ p + 6 <= n THEN c ELSE {}
    BY <1>3, StringStepIs
  <2> HIDE DEF W, a, b, c, d, n
  <2>11. StringStep(text, f, p) \subseteq W
    BY <2>6, <2>7, <2>8, <2>9, <2>10
  <2> QED
    BY <2>11 DEF W, n
<1> QED
  BY <1>2, <1>3

(* It is a function over the places, from the end back.                      *)
LEMMA StringRuns ==
  ASSUME NEW text \in Seq(Byte)
  PROVE  /\ \A from : ParseString(text, from) =
                        IF At(text, from, Quote) THEN StringRest(text)[from + 1] ELSE {}
         /\ \A p \in 0 .. Len(text) :
              /\ StringRest(text)[p] = StringStep(text, StringRest(text), p)
              /\ StringRest(text)[p] \subseteq StringsWithin(p + 1, Len(text))
<1> DEFINE n == Len(text)
           V == [p \in 0 .. n |-> SUBSET StringsWithin(p + 1, n)]
           F == Fitting(n, V)
           step == [p \in 0 .. n |-> [f \in F |-> StringStep(text, f, p)]]
           Solves(f) == f = [p \in 0 .. n |-> StringStep(text, f, p)]
<1>1. n \in Nat /\ \A i \in 0 .. n : V[i] = SUBSET StringsWithin(i + 1, n) /\ V[i] # {}
  OBVIOUS
<1>2. ASSUME NEW p \in 0 .. n, NEW f,
             \A j \in p + 1 .. n : f[j] \subseteq StringsWithin(j + 1, n)
      PROVE  StringStep(text, f, p) \subseteq StringsWithin(p + 1, n)
  <2>1. \A j \in p + 1 .. n : StringsWithin(j + 1, n) \subseteq StringsWithin(p + 1, n)
    BY <1>1 DEF StringsWithin
  <2>2. \A j \in p + 1 .. n : f[j] \subseteq StringsWithin(p + 1, n)
    BY <1>2, <2>1
  <2> QED
    BY <2>2, StringStepType
<1>3. ASSUME NEW p \in 0 .. n, NEW f, NEW g, \A j \in p + 1 .. n : f[j] = g[j]
      PROVE  StringStep(text, f, p) = StringStep(text, g, p)
  <2>1. CASE p = n
    BY <2>1, StringStepIs
  <2>2. CASE p # n
    <3>1. p + 1 \in p + 1 .. n /\ (p + 1 < n => p + 2 \in p + 1 .. n)
      BY <1>1, <2>2
    <3>2. p + 6 <= n => p + 6 \in p + 1 .. n
      BY <1>1
    <3>3. f[p + 1] = g[p + 1] /\ (p + 1 < n => f[p + 2] = g[p + 2]) /\ (p + 6 <= n => f[p + 6] = g[p + 6])
      BY <1>3, <3>1, <3>2
    <3> QED
      BY <2>2, <3>3, StringStepIs
  <2> QED
    BY <2>1, <2>2
<1>4. \A i \in 0 .. n : \A f \in F : step[i][f] = StringStep(text, f, i)
  <2> HIDE DEF F
  <2> QED
    OBVIOUS
<1>5. \A i \in 0 .. n : \A f \in F : step[i][f] \in V[i]
  <2> SUFFICES ASSUME NEW i \in 0 .. n, NEW f \in F
               PROVE  StringStep(text, f, i) \in V[i]
    BY <1>4
  <2>1. \A j \in i + 1 .. n : f[j] \subseteq StringsWithin(j + 1, n)
    BY <1>1 DEF Fitting
  <2> QED
    BY <1>1, <1>2, <2>1
<1>6. PICK f \in F : f = [i \in 0 .. n |-> step[i][f]]
  <2>1. \A i \in 0 .. n : \A g, h \in Fitting(n, V) :
          (\A j \in i + 1 .. n : g[j] = h[j]) => step[i][g] = step[i][h]
    <3> SUFFICES ASSUME NEW i \in 0 .. n, NEW g \in F, NEW h \in F,
                        \A j \in i + 1 .. n : g[j] = h[j]
                 PROVE  step[i][g] = step[i][h]
      OBVIOUS
    <3>1. StringStep(text, g, i) = StringStep(text, h, i)
      BY <1>3
    <3> HIDE DEF F, step
    <3> QED
      BY <1>4, <3>1
  <2>2. \A i \in 0 .. n : \A g \in Fitting(n, V) : step[i][g] \in V[i]
    BY <1>5
  <2>3. n \in Nat /\ \A i \in 0 .. n : V[i] # {}
    BY <1>1
  <2> HIDE DEF n, V, step
  <2>4. ComputableBack(n, V, step)
    BY <2>1, <2>2, <2>3, CourseRecursion
  <2> QED
    BY <2>4, Zenon DEF ComputableBack
<1>7. Solves(f)
  <2> HIDE DEF step, F
  <2>1. \A i \in 0 .. n : step[i][f] = StringStep(text, f, i)
    BY <1>4
  <2>2. [i \in 0 .. n |-> step[i][f]] = [i \in 0 .. n |-> StringStep(text, f, i)]
    BY <2>1
  <2> QED
    BY <1>6, <2>2, Zenon
<1>8. Solves(StringRest(text))
  <2>1. StringRest(text) = CHOOSE g : Solves(g)
    BY DEF StringRest
  <2> HIDE DEF Solves
  <2> QED
    BY <1>7, <2>1
<1> DEFINE rest == StringRest(text)
           S == {p \in 0 .. n : rest[p] \subseteq StringsWithin(p + 1, n)}
<1>9. \A p \in 0 .. n : rest[p] = StringStep(text, rest, p)
  <2>1. ASSUME NEW g, Solves(g) PROVE \A p \in 0 .. n : g[p] = StringStep(text, g, p)
    BY <2>1
  <2> HIDE DEF Solves
  <2> QED
    BY <1>8, <2>1
<1>10. \A p \in 0 .. n : p \in S
  <2>1. ASSUME NEW p \in 0 .. n, \A j \in p + 1 .. n : j \in S
        PROVE  p \in S
    <3>1. \A j \in p + 1 .. n : rest[j] \subseteq StringsWithin(j + 1, n)
      BY <2>1
    <3> HIDE DEF rest, n
    <3>2. StringStep(text, rest, p) \subseteq StringsWithin(p + 1, n)
      BY <1>2, <3>1
    <3> QED
      BY <1>9, <3>2
  <2> HIDE DEF S, n
  <2>2. \A p \in 0 .. n : (\A j \in p + 1 .. n : j \in S) => p \in S
    BY <2>1
  <2> QED
    BY <1>1, <2>2, FromTheEnd
<1>11. \A from : ParseString(text, from) =
                   IF At(text, from, Quote) THEN StringRest(text)[from + 1] ELSE {}
  BY DEF ParseString, StringRest, StringStep
<1> QED
  BY <1>9, <1>10, <1>11

(* There is one string at most.                                              *)
AtMostOne(set) == \A a, b \in set : a = b

(* At most one string begins at a place.                                     *)
LEMMA OneString ==
  ASSUME NEW text \in Seq(Byte)
  PROVE  \A p \in 0 .. Len(text) : AtMostOne(StringRest(text)[p])
<1> DEFINE n == Len(text)
           rest == StringRest(text)
           S == {p \in 0 .. n : AtMostOne(rest[p])}
<1>1. n \in Nat /\ \A p \in 0 .. n : rest[p] = StringStep(text, rest, p)
  BY StringRuns
<1>2. ASSUME NEW p \in 0 .. n, \A j \in p + 1 .. n : j \in S
      PROVE  p \in S
  <2>1. \A strings, bytes : AtMostOne(strings) => AtMostOne(Prefixed(strings, bytes))
    BY DEF AtMostOne, Prefixed
  <2>2. CASE p = n
    BY <1>1, <2>2, StringStepIs DEF AtMostOne
  <2>3. CASE p # n
    <3>1. p + 1 \in p + 1 .. n /\ (p + 1 < n => p + 2 \in p + 1 .. n)
      BY <1>1, <2>3
    <3>2. p + 6 <= n => p + 6 \in p + 1 .. n
      BY <1>1
    <3>3. /\ AtMostOne(rest[p + 1]) /\ (p + 1 < n => AtMostOne(rest[p + 2]))
          /\ (p + 6 <= n => AtMostOne(rest[p + 6]))
      BY <1>2, <3>1, <3>2
    <3>4. AtMostOne({}) /\ \A a : AtMostOne({a})
      BY DEF AtMostOne
    <3> HIDE DEF rest, n
    <3>5. AtMostOne(StringStep(text, rest, p))
      BY <2>1, <2>3, <3>3, <3>4, StringStepIs DEF n
    <3> QED
      BY <1>1, <3>5
  <2> QED
    BY <2>2, <2>3
<1> HIDE DEF S, n
<1>3. \A p \in 0 .. n : (\A j \in p + 1 .. n : j \in S) => p \in S
  BY <1>2
<1>4. \A p \in 0 .. n : p \in S
  BY <1>1, <1>3, FromTheEnd
<1> QED
  BY <1>4 DEF S, n

(* Everything the scanner finds at a place ends behind it.                   *)
LEMMA PlacesAhead ==
  ASSUME NEW text \in Seq(Byte), NEW p \in 0 .. Len(text)
  PROVE  /\ \A byte : At(text, p, byte) => p + 1 \in 1 .. Len(text) /\ p < Len(text)
         /\ \A s \in ParseString(text, p) : s.end \in p + 2 .. Len(text) /\ s.value \in Seq(Byte)
         /\ \A closing : Closes(text, p, closing) \subseteq p + 1 .. Len(text)
         /\ NextItem(text, p) \subseteq p + 1 .. Len(text)
         /\ \A k \in Key(text, p) : k.value_at \in p + 2 .. Len(text) /\ k.name \in Seq(Byte)
         /\ Literal(text, p) \subseteq p + 1 .. Len(text)
<1> DEFINE n == Len(text)
<1>1. n \in Nat
  OBVIOUS
<1>2. \A q \in 0 .. n : \A byte : At(text, q, byte) => q < n /\ q + 1 \in 0 .. n
  BY <1>1 DEF At
<1>3. \A s \in ParseString(text, p) : s.end \in p + 2 .. n /\ s.value \in Seq(Byte)
  <2> DEFINE Text == Seq(Byte)
  <2> SUFFICES ASSUME NEW s \in ParseString(text, p)
               PROVE  s.end \in p + 2 .. n /\ s.value \in Text
    OBVIOUS
  <2>1. At(text, p, Quote) /\ s \in StringRest(text)[p + 1]
    BY StringRuns
  <2>2. p + 1 \in 0 .. n
    BY <1>2, <2>1
  <2>3. s \in StringsWithin(p + 1 + 1, n)
    BY <2>1, <2>2, StringRuns
  <2>4. s \in [end : p + 1 + 1 .. n, value : Text]
    BY <2>3 DEF StringsWithin
  <2> HIDE DEF Text
  <2> QED
    BY <1>1, <2>4
<1>4. \A q \in 0 .. n : SkipSpace(text, q) \in q .. n
  BY SpaceEnds
<1>5. \A q \in 0 .. n : \A closing : Closes(text, q, closing) \subseteq q + 1 .. n
  <2> SUFFICES ASSUME NEW q \in 0 .. n, NEW closing, At(text, SkipSpace(text, q), closing)
               PROVE  SkipSpace(text, q) + 1 \in q + 1 .. n
    BY DEF Closes
  <2>1. SkipSpace(text, q) \in q .. n
    BY <1>4
  <2>2. SkipSpace(text, q) < n
    BY <1>1, <1>2, <2>1
  <2> QED
    BY <1>1, <2>1, <2>2
<1>6. NextItem(text, p) \subseteq p + 1 .. n
  <2> SUFFICES ASSUME At(text, SkipSpace(text, p), Comma)
               PROVE  SkipSpace(text, SkipSpace(text, p) + 1) \in p + 1 .. n
    BY DEF NextItem
  <2>1. SkipSpace(text, p) \in p .. n
    BY <1>4
  <2>2. SkipSpace(text, p) + 1 \in p + 1 .. n /\ SkipSpace(text, p) + 1 \in 0 .. n
    BY <1>1, <1>2, <2>1
  <2>3. SkipSpace(text, SkipSpace(text, p) + 1) \in SkipSpace(text, p) + 1 .. n
    BY <1>4, <2>2
  <2> QED
    BY <1>1, <2>2, <2>3
<1>7. \A k \in Key(text, p) : k.value_at \in p + 2 .. n /\ k.name \in Seq(Byte)
  <2> SUFFICES ASSUME NEW s \in ParseString(text, p), At(text, SkipSpace(text, s.end), Colon)
               PROVE  /\ SkipSpace(text, SkipSpace(text, s.end) + 1) \in p + 2 .. n
                      /\ s.value \in Seq(Byte)
    BY DEF Key
  <2>1. s.end \in p + 2 .. n /\ s.end \in 0 .. n
    BY <1>1, <1>3
  <2>2. SkipSpace(text, s.end) \in s.end .. n
    BY <1>4, <2>1
  <2>3. SkipSpace(text, s.end) + 1 \in p + 2 .. n /\ SkipSpace(text, s.end) + 1 \in 0 .. n
    BY <1>1, <1>2, <2>1, <2>2
  <2>4. SkipSpace(text, SkipSpace(text, s.end) + 1) \in SkipSpace(text, s.end) + 1 .. n
    BY <1>4, <2>3
  <2> QED
    BY <1>1, <1>3, <2>3, <2>4
<1>8. Literal(text, p) \subseteq p + 1 .. n
  <2> DEFINE T == {q \in p .. n : q < n => text[q + 1] \in {Comma, RightBrace, RightBracket}}
             m == Min(T)
  <2>1. T \subseteq Nat /\ n \in T
    BY <1>1
  <2>2. m \in T
    <3>1. PICK l \in T : \A q \in T : l <= q
      <4> HIDE DEF T
      <4> QED
        BY <2>1, LeastNatural
    <3> HIDE DEF T
    <3> QED
      BY <2>1, <3>1, MinIs
  <2>3. Literal(text, p) = IF IsLiteral(SubSeq(text, p + 1, m)) THEN {m} ELSE {}
    BY DEF Literal
  <2>4. m \in p .. n
    BY <2>2
  <2> HIDE DEF m
  <2>5. m = p => SubSeq(text, p + 1, m) = <<>>
    BY <1>1
  <2>6. ~ IsLiteral(<<>>)
    BY DEF IsLiteral, Words
  <2>7. m = p => Literal(text, p) = {}
    BY <2>3, <2>5, <2>6
  <2>8. Literal(text, p) \subseteq {m}
    BY <2>3
  <2>9. m # p => m \in p + 1 .. n
    BY <1>1, <2>4
  <2> QED
    BY <2>7, <2>8, <2>9
<1> QED
  BY <1>1, <1>2, <1>3, <1>5, <1>6, <1>7, <1>8 DEF At

(* What SkipValue is, at one place.                                          *)
Parts == {"value", "member", "element"}
ScanPart(text, scan, p, what) ==
  LET closing == [member |-> RightBrace, element |-> RightBracket]
      values == IF what = "element" THEN scan[p]["value"]
                ELSE UNION {scan[k.value_at]["value"] : k \in Key(text, p)}
      Inside(item) ==
        IF Closes(text, p + 1, closing[item]) # {}
        THEN Closes(text, p + 1, closing[item])
        ELSE scan[SkipSpace(text, p + 1)][item]
  IN IF what # "value"
     THEN UNION {Closes(text, v, closing[what])
                   \cup UNION {scan[q][what] : q \in NextItem(text, v)} : v \in values}
     ELSE IF At(text, p, Quote) THEN {s.end : s \in ParseString(text, p)}
     ELSE IF At(text, p, LeftBrace) THEN Inside("member")
     ELSE IF At(text, p, LeftBracket) THEN Inside("element")
     ELSE Literal(text, p)
Scan(text) ==
  CHOOSE scan : scan = [p \in 0 .. Len(text) |-> [what \in Parts |-> ScanPart(text, scan, p, what)]]

(* The same, with a function for each of the three: behind the values, and   *)
(* behind an opening bracket.                                                *)
Listed(text, values, closing, rest) ==
  UNION {Closes(text, v, closing) \cup UNION {rest[q] : q \in NextItem(text, v)} : v \in values}
Entered(text, p, closing, rest) ==
  IF Closes(text, p + 1, closing) # {} THEN Closes(text, p + 1, closing)
  ELSE rest[SkipSpace(text, p + 1)]
ValueStep(text, member, element, p) ==
  IF At(text, p, Quote) THEN {s.end : s \in ParseString(text, p)}
  ELSE IF At(text, p, LeftBrace) THEN Entered(text, p, RightBrace, member)
  ELSE IF At(text, p, LeftBracket) THEN Entered(text, p, RightBracket, element)
  ELSE Literal(text, p)
MemberStep(text, value, member, p) ==
  Listed(text, UNION {value[k.value_at] : k \in Key(text, p)}, RightBrace, member)

Scanned(text, value, member, element) ==
  \A p \in 0 .. Len(text) :
    /\ value[p] = ValueStep(text, member, element, p)
    /\ member[p] = MemberStep(text, value, member, p)
    /\ element[p] = Listed(text, value[p], RightBracket, element)
    /\ value[p] \subseteq p + 1 .. Len(text)
    /\ member[p] \subseteq p + 1 .. Len(text)
    /\ element[p] \subseteq p + 1 .. Len(text)

(* What is found behind a place lies behind it.                              *)
LEMMA ListedType ==
  ASSUME NEW text \in Seq(Byte), NEW p \in 0 .. Len(text),
         NEW values \in SUBSET (p + 1 .. Len(text)), NEW closing, NEW rest,
         \A q \in p + 1 .. Len(text) : rest[q] \subseteq q + 1 .. Len(text)
  PROVE  Listed(text, values, closing, rest) \subseteq p + 1 .. Len(text)
<1> DEFINE n == Len(text)
<1>1. n \in Nat
  OBVIOUS
<1> SUFFICES ASSUME NEW v \in values,
                    NEW e \in Closes(text, v, closing) \cup UNION {rest[q] : q \in NextItem(text, v)}
             PROVE  e \in p + 1 .. n
  BY DEF Listed
<1>2. v \in 0 .. n /\ v \in p + 1 .. n
  BY <1>1
<1>3. Closes(text, v, closing) \subseteq v + 1 .. n /\ NextItem(text, v) \subseteq v + 1 .. n
  BY <1>2, PlacesAhead
<1>4. CASE e \in Closes(text, v, closing)
  BY <1>1, <1>2, <1>3, <1>4
<1>5. CASE e \notin Closes(text, v, closing)
  <2>1. PICK q \in NextItem(text, v) : e \in rest[q]
    BY <1>5
  <2>2. q \in v + 1 .. n
    BY <1>3
  <2>3. q \in p + 1 .. n
    BY <1>1, <1>2, <2>2
  <2>4. e \in q + 1 .. n
    BY <2>1, <2>3
  <2> QED
    BY <1>1, <2>3, <2>4
<1> QED
  BY <1>4, <1>5

(* What is inside brackets ends within the line.                             *)
LEMMA EnteredType ==
  ASSUME NEW text \in Seq(Byte), NEW p \in 0 .. Len(text), p < Len(text), NEW closing, NEW rest,
         \A q \in p + 1 .. Len(text) : rest[q] \subseteq q + 1 .. Len(text)
  PROVE  /\ Entered(text, p, closing, rest) \subseteq p + 1 .. Len(text)
         /\ SkipSpace(text, p + 1) \in p + 1 .. Len(text)
<1> DEFINE n == Len(text)
<1>1. n \in Nat /\ p + 1 \in 0 .. n
  OBVIOUS
<1>2. SkipSpace(text, p + 1) \in p + 1 .. n
  BY <1>1, SpaceEnds
<1>3. Closes(text, p + 1, closing) \subseteq p + 1 + 1 .. n
  BY <1>1, PlacesAhead
<1>4. rest[SkipSpace(text, p + 1)] \subseteq SkipSpace(text, p + 1) + 1 .. n
  BY <1>2
<1>5. Closes(text, p + 1, closing) \subseteq p + 1 .. n
  BY <1>1, <1>3
<1>6. rest[SkipSpace(text, p + 1)] \subseteq p + 1 .. n
  BY <1>1, <1>2, <1>4
<1> QED
  BY <1>2, <1>5, <1>6 DEF Entered

(* Each step of the scanner ends within the line.                            *)
LEMMA ScanTypes ==
  ASSUME NEW text \in Seq(Byte), NEW p \in 0 .. Len(text),
         NEW value, NEW member, NEW element,
         \A q \in p + 1 .. Len(text) : /\ value[q] \subseteq q + 1 .. Len(text)
                                       /\ member[q] \subseteq q + 1 .. Len(text)
                                       /\ element[q] \subseteq q + 1 .. Len(text)
  PROVE  /\ ValueStep(text, member, element, p) \subseteq p + 1 .. Len(text)
         /\ MemberStep(text, value, member, p) \subseteq p + 1 .. Len(text)
         /\ \A values \in SUBSET (p + 1 .. Len(text)) :
              Listed(text, values, RightBracket, element) \subseteq p + 1 .. Len(text)
<1> DEFINE n == Len(text)
<1>1. n \in Nat
  OBVIOUS
<1>2. ValueStep(text, member, element, p) \subseteq p + 1 .. n
  <2>1. \A byte : At(text, p, byte) => p < n
    BY <1>1 DEF At
  <2>2. At(text, p, LeftBrace) => Entered(text, p, RightBrace, member) \subseteq p + 1 .. n
    BY <2>1, EnteredType
  <2>3. At(text, p, LeftBracket) => Entered(text, p, RightBracket, element) \subseteq p + 1 .. n
    BY <2>1, EnteredType
  <2>4. {s.end : s \in ParseString(text, p)} \subseteq p + 1 .. n
    <3>1. \A s \in ParseString(text, p) : s.end \in p + 2 .. n
      BY PlacesAhead
    <3> QED
      BY <1>1, <3>1
  <2>5. Literal(text, p) \subseteq p + 1 .. n
    BY PlacesAhead
  <2> QED
    BY <2>2, <2>3, <2>4, <2>5 DEF ValueStep
<1>3. MemberStep(text, value, member, p) \subseteq p + 1 .. n
  <2> DEFINE values == UNION {value[k.value_at] : k \in Key(text, p)}
  <2>1. values \subseteq p + 1 .. n
    <3> SUFFICES ASSUME NEW k \in Key(text, p), NEW v \in value[k.value_at]
                 PROVE  v \in p + 1 .. n
      OBVIOUS
    <3>1. k.value_at \in p + 2 .. n
      BY PlacesAhead
    <3>2. k.value_at \in p + 1 .. n
      BY <1>1, <3>1
    <3>3. v \in k.value_at + 1 .. n
      BY <3>2
    <3> QED
      BY <1>1, <3>2, <3>3
  <2> HIDE DEF values
  <2>2. Listed(text, values, RightBrace, member) \subseteq p + 1 .. n
    BY <2>1, ListedType
  <2> QED
    BY <2>2 DEF MemberStep, values
<1>4. \A values \in SUBSET (p + 1 .. n) : Listed(text, values, RightBracket, element) \subseteq p + 1 .. n
  BY ListedType
<1> QED
  BY <1>2, <1>3, <1>4

(* The three parts, told one by one.                                         *)
TellsParts(text, p, scan, value, member, element) ==
  \A q \in p + 1 .. Len(text) :
    /\ value[q] = scan[q]["value"] /\ member[q] = scan[q]["member"]
    /\ element[q] = scan[q]["element"] /\ value[q] \subseteq q + 1 .. Len(text)

(* A step of the scanner by its three parts.                                 *)
LEMMA ScanPartIs ==
  ASSUME NEW text \in Seq(Byte), NEW p \in 0 .. Len(text), NEW scan,
         NEW value, NEW member, NEW element,
         TellsParts(text, p, scan, value, member, element)
  PROVE  /\ ScanPart(text, scan, p, "value") = ValueStep(text, member, element, p)
         /\ ScanPart(text, scan, p, "member") = MemberStep(text, value, member, p)
         /\ scan[p]["value"] \subseteq p + 1 .. Len(text) =>
              ScanPart(text, scan, p, "element") = Listed(text, scan[p]["value"], RightBracket, element)
<1> DEFINE n == Len(text)
           ByScan(values, what, closing) ==
             UNION {Closes(text, v, closing) \cup UNION {scan[q][what] : q \in NextItem(text, v)} : v \in values}
<1>1. /\ n \in Nat
      /\ \A q \in p + 1 .. n :
           /\ value[q] = scan[q]["value"] /\ member[q] = scan[q]["member"]
           /\ element[q] = scan[q]["element"] /\ value[q] \subseteq q + 1 .. n
  BY DEF TellsParts
<1>2. \A v \in p + 1 .. n : NextItem(text, v) \subseteq p + 1 .. n
  <2> SUFFICES ASSUME NEW v \in p + 1 .. n PROVE NextItem(text, v) \subseteq p + 1 .. n
    OBVIOUS
  <2>1. NextItem(text, v) \subseteq v + 1 .. n
    BY PlacesAhead
  <2> QED
    BY <1>1, <2>1
<1>3. ASSUME NEW values, values \subseteq p + 1 .. n, NEW closing
      PROVE  /\ ByScan(values, "member", closing) = Listed(text, values, closing, member)
             /\ ByScan(values, "element", closing) = Listed(text, values, closing, element)
  <2>1. ASSUME NEW v \in values
        PROVE  /\ {scan[q]["member"] : q \in NextItem(text, v)} = {member[q] : q \in NextItem(text, v)}
               /\ {scan[q]["element"] : q \in NextItem(text, v)} = {element[q] : q \in NextItem(text, v)}
    <3>1. \A q \in NextItem(text, v) : scan[q]["member"] = member[q] /\ scan[q]["element"] = element[q]
      BY <1>1, <1>2, <1>3
    <3> QED
      BY <3>1
  <2> QED
    BY <2>1 DEF Listed
<1>4. ScanPart(text, scan, p, "value") = ValueStep(text, member, element, p)
  <2>1. \A byte : At(text, p, byte) => SkipSpace(text, p + 1) \in p + 1 .. n
    <3> SUFFICES ASSUME p < n PROVE SkipSpace(text, p + 1) \in p + 1 .. n
      BY <1>1 DEF At
    <3>1. p + 1 \in 0 .. n
      BY <1>1
    <3> QED
      BY <3>1, SpaceEnds
  <2>2. \A byte : At(text, p, byte) =>
          /\ scan[SkipSpace(text, p + 1)]["member"] = member[SkipSpace(text, p + 1)]
          /\ scan[SkipSpace(text, p + 1)]["element"] = element[SkipSpace(text, p + 1)]
    BY <1>1, <2>1
  <2> QED
    BY <2>2 DEF ScanPart, ValueStep, Entered
<1>5. ScanPart(text, scan, p, "member") = MemberStep(text, value, member, p)
  <2> DEFINE values == UNION {value[k.value_at] : k \in Key(text, p)}
  <2>1. \A k \in Key(text, p) : k.value_at \in p + 1 .. n
    <3>1. \A k \in Key(text, p) : k.value_at \in p + 2 .. n
      BY PlacesAhead
    <3> QED
      BY <1>1, <3>1
  <2>2. \A k \in Key(text, p) : value[k.value_at] = scan[k.value_at]["value"]
    BY <1>1, <2>1
  <2>3. {value[k.value_at] : k \in Key(text, p)} = {scan[k.value_at]["value"] : k \in Key(text, p)}
    BY <2>2
  <2>4. values \subseteq p + 1 .. n
    <3> SUFFICES ASSUME NEW k \in Key(text, p), NEW v \in value[k.value_at]
                 PROVE  v \in p + 1 .. n
      OBVIOUS
    <3>1. v \in k.value_at + 1 .. n /\ k.value_at \in p + 1 .. n
      BY <1>1, <2>1
    <3> QED
      BY <1>1, <3>1
  <2>5. ScanPart(text, scan, p, "member") = ByScan(values, "member", RightBrace)
    <3> DEFINE scanned == UNION {scan[k.value_at]["value"] : k \in Key(text, p)}
    <3>1. ScanPart(text, scan, p, "member") = ByScan(scanned, "member", RightBrace)
      BY DEF ScanPart
    <3>2. scanned = values
      BY <2>3
    <3> HIDE DEF scanned, values
    <3> QED
      BY <3>1, <3>2
  <2> HIDE DEF values, ByScan
  <2>6. ByScan(values, "member", RightBrace) = Listed(text, values, RightBrace, member)
    BY <1>3, <2>4
  <2> QED
    BY <2>5, <2>6 DEF MemberStep, values
<1>6. ASSUME scan[p]["value"] \subseteq p + 1 .. Len(text)
      PROVE  ScanPart(text, scan, p, "element") = Listed(text, scan[p]["value"], RightBracket, element)
  <2>1. ScanPart(text, scan, p, "element") = ByScan(scan[p]["value"], "element", RightBracket)
    BY DEF ScanPart
  <2> HIDE DEF ByScan
  <2> QED
    BY <1>3, <1>6, <2>1
<1> QED
  BY <1>4, <1>5, <1>6

(* A function of places, and one of its three parts.                         *)
PartOf(f, what, n) == [p \in 0 .. n |-> f[p][what]]
ScanAt(text, f, p) ==
  LET Of(what) == PartOf(f, what, Len(text))
      values == ValueStep(text, Of("member"), Of("element"), p)
  IN [what \in Parts |->
        CASE what = "value" -> values
          [] what = "member" -> MemberStep(text, Of("value"), Of("member"), p)
          [] OTHER -> Listed(text, values, RightBracket, Of("element"))]

(* What it is at a place depends on the places behind it only.               *)
LEMMA ScanAtIs ==
  ASSUME NEW text \in Seq(Byte), NEW p \in 0 .. Len(text), NEW f, NEW g,
         \A q \in p + 1 .. Len(text) :
           f[q] = g[q] /\ \A what \in Parts : g[q][what] \subseteq q + 1 .. Len(text)
  PROVE  /\ ScanAt(text, f, p) = ScanAt(text, g, p)
         /\ ScanAt(text, f, p) \in [Parts -> SUBSET (p + 1 .. Len(text))]
         /\ g[p] = ScanAt(text, f, p) =>
              \A what \in Parts : ScanPart(text, g, p, what) = ScanAt(text, f, p)[what]
<1> DEFINE n == Len(text)
           Of(h, what) == PartOf(h, what, n)
           values(h) == ValueStep(text, Of(h, "member"), Of(h, "element"), p)
           members(h) == MemberStep(text, Of(h, "value"), Of(h, "member"), p)
           elements(h) == Listed(text, values(h), RightBracket, Of(h, "element"))
<1>1. n \in Nat
  OBVIOUS
<1>2. \A h : /\ ScanAt(text, h, p)["value"] = values(h) /\ ScanAt(text, h, p)["member"] = members(h)
             /\ ScanAt(text, h, p)["element"] = elements(h)
  BY DEF ScanAt, Parts
<1>3. \A h, k : ScanAt(text, h, p) = ScanAt(text, k, p) <=>
                  values(h) = values(k) /\ members(h) = members(k) /\ elements(h) = elements(k)
  BY <1>2 DEF ScanAt, Parts
<1>4. \A q \in p + 1 .. n :
        /\ Of(f, "value")[q] = g[q]["value"] /\ Of(f, "value")[q] \subseteq q + 1 .. n
        /\ Of(f, "member")[q] = g[q]["member"] /\ Of(f, "member")[q] \subseteq q + 1 .. n
        /\ Of(f, "element")[q] = g[q]["element"] /\ Of(f, "element")[q] \subseteq q + 1 .. n
  <2> SUFFICES ASSUME NEW q \in p + 1 .. n, NEW what \in Parts
               PROVE  Of(f, what)[q] = g[q][what] /\ g[q][what] \subseteq q + 1 .. n
    BY DEF Parts
  <2>1. q \in 0 .. n
    BY <1>1
  <2> QED
    BY <2>1 DEF PartOf
<1>5. \A q \in p + 1 .. n :
        /\ Of(g, "value")[q] = g[q]["value"] /\ Of(g, "value")[q] \subseteq q + 1 .. n
        /\ Of(g, "member")[q] = g[q]["member"] /\ Of(g, "element")[q] = g[q]["element"]
  <2> SUFFICES ASSUME NEW q \in p + 1 .. n, NEW what \in Parts
               PROVE  Of(g, what)[q] = g[q][what] /\ g[q][what] \subseteq q + 1 .. n
    BY DEF Parts
  <2>1. q \in 0 .. n
    BY <1>1
  <2> QED
    BY <2>1 DEF PartOf
<1> HIDE DEF Of, n
<1>6. /\ ScanPart(text, g, p, "value") = values(f)
      /\ ScanPart(text, g, p, "member") = members(f)
      /\ g[p]["value"] \subseteq p + 1 .. n =>
           ScanPart(text, g, p, "element") = Listed(text, g[p]["value"], RightBracket, Of(f, "element"))
  <2>1. TellsParts(text, p, g, Of(f, "value"), Of(f, "member"), Of(f, "element"))
    BY <1>4 DEF TellsParts, n
  <2> QED
    BY <2>1, ScanPartIs DEF n
<1>7. ScanPart(text, g, p, "value") = values(g) /\ ScanPart(text, g, p, "member") = members(g)
  <2>1. TellsParts(text, p, g, Of(g, "value"), Of(g, "member"), Of(g, "element"))
    BY <1>5 DEF TellsParts, n
  <2> QED
    BY <2>1, ScanPartIs DEF n
<1>8. values(f) \subseteq p + 1 .. n /\ members(f) \subseteq p + 1 .. n /\ elements(f) \subseteq p + 1 .. n
  BY <1>4, ScanTypes DEF n
<1>9. elements(f) = elements(g)
  <2>1. ASSUME NEW v \in values(f), NEW q \in NextItem(text, v)
        PROVE  Of(f, "element")[q] = Of(g, "element")[q]
    <3>1. v \in p + 1 .. n /\ v \in 0 .. n
      BY <1>1, <1>8
    <3>2. q \in v + 1 .. n
      BY <3>1, PlacesAhead DEF n
    <3>3. q \in p + 1 .. n
      BY <1>1, <3>1, <3>2
    <3> QED
      BY <1>4, <1>5, <3>3
  <2>2. \A v \in values(f) : {Of(f, "element")[q] : q \in NextItem(text, v)} =
                             {Of(g, "element")[q] : q \in NextItem(text, v)}
    BY <2>1
  <2>3. values(f) = values(g)
    BY <1>6, <1>7
  <2> HIDE DEF values
  <2> QED
    BY <2>2, <2>3 DEF Listed
<1>10. ScanAt(text, f, p) = ScanAt(text, g, p)
  BY <1>3, <1>6, <1>7, <1>9
<1>11. ScanAt(text, f, p) \in [Parts -> SUBSET (p + 1 .. n)]
  <2> HIDE DEF values, members, elements
  <2>1. \A what \in Parts : ScanAt(text, f, p)[what] \in SUBSET (p + 1 .. n)
    BY <1>2, <1>8 DEF Parts
  <2>2. ScanAt(text, f, p) = [what \in Parts |-> ScanAt(text, f, p)[what]]
    BY DEF ScanAt
  <2> QED
    BY <2>1, <2>2
<1>12. ASSUME g[p] = ScanAt(text, f, p)
       PROVE  \A what \in Parts : ScanPart(text, g, p, what) = ScanAt(text, f, p)[what]
  <2>1. g[p]["value"] = values(f)
    BY <1>2, <1>12
  <2> QED
    BY <1>2, <1>6, <1>8, <2>1 DEF Parts, n
<1> QED
  BY <1>10, <1>11, <1>12 DEF n

(* The three functions exist, and SkipValue is the first of them.            *)
LEMMA ScanRuns ==
  ASSUME NEW text \in Seq(Byte)
  PROVE  \E value, member, element :
           /\ Scanned(text, value, member, element)
           /\ \A from \in 0 .. Len(text) : SkipValue(text, from) = value[from]
<1> DEFINE n == Len(text)
           V == [p \in 0 .. n |-> [Parts -> SUBSET (p + 1 .. n)]]
           F == Fitting(n, V)
           step == [p \in 0 .. n |-> [f \in F |-> ScanAt(text, f, p)]]
           Solves(f) == f = [p \in 0 .. n |-> [what \in Parts |-> ScanPart(text, f, p, what)]]
<1>1. n \in Nat /\ \A p \in 0 .. n : V[p] = [Parts -> SUBSET (p + 1 .. n)]
  OBVIOUS
<1>2. \A p \in 0 .. n : V[p] # {}
  <2> SUFFICES ASSUME NEW p \in 0 .. n PROVE V[p] # {}
    OBVIOUS
  <2>1. [what \in Parts |-> {}] \in [Parts -> SUBSET (p + 1 .. n)]
    OBVIOUS
  <2> QED
    BY <1>1, <2>1
<1>3. ASSUME NEW f \in F, NEW p \in 0 .. n
      PROVE  f[p] \in [Parts -> SUBSET (p + 1 .. n)] /\ step[p][f] = ScanAt(text, f, p)
  <2>1. f[p] \in V[p]
    BY DEF Fitting
  <2> HIDE DEF F
  <2> QED
    BY <1>1, <2>1
<1>4. ASSUME NEW f \in F, NEW g \in F, NEW p \in 0 .. n, \A j \in p + 1 .. n : f[j] = g[j]
      PROVE  /\ ScanAt(text, f, p) = ScanAt(text, g, p)
             /\ ScanAt(text, f, p) \in V[p]
             /\ g[p] = ScanAt(text, f, p) =>
                  \A what \in Parts : ScanPart(text, g, p, what) = ScanAt(text, f, p)[what]
  <2>1. \A q \in p + 1 .. n : \A what \in Parts : g[q][what] \subseteq q + 1 .. n
    <3> SUFFICES ASSUME NEW q \in p + 1 .. n, NEW what \in Parts
                 PROVE  g[q][what] \subseteq q + 1 .. n
      OBVIOUS
    <3>1. q \in 0 .. n
      BY <1>1
    <3>2. g[q] \in [Parts -> SUBSET (q + 1 .. n)]
      BY <1>3, <3>1
    <3> QED
      BY <3>2
  <2>2. \A q \in p + 1 .. n : f[q] = g[q] /\ \A what \in Parts : g[q][what] \subseteq q + 1 .. n
    BY <1>4, <2>1
  <2> HIDE DEF F, V, step
  <2>3. /\ ScanAt(text, f, p) = ScanAt(text, g, p)
        /\ ScanAt(text, f, p) \in [Parts -> SUBSET (p + 1 .. n)]
        /\ g[p] = ScanAt(text, f, p) =>
             \A what \in Parts : ScanPart(text, g, p, what) = ScanAt(text, f, p)[what]
    BY <2>2, ScanAtIs
  <2> QED
    BY <1>1, <2>3
<1>5. PICK f \in F : f = [p \in 0 .. n |-> step[p][f]]
  <2>1. \A i \in 0 .. n : \A g, h \in Fitting(n, V) :
          (\A j \in i + 1 .. n : g[j] = h[j]) => step[i][g] = step[i][h]
    <3> SUFFICES ASSUME NEW i \in 0 .. n, NEW g \in F, NEW h \in F,
                        \A j \in i + 1 .. n : g[j] = h[j]
                 PROVE  step[i][g] = step[i][h]
      OBVIOUS
    <3> HIDE DEF F, step, V
    <3> QED
      BY <1>3, <1>4
  <2>2. \A i \in 0 .. n : \A g \in Fitting(n, V) : step[i][g] \in V[i]
    <3> SUFFICES ASSUME NEW i \in 0 .. n, NEW g \in F PROVE step[i][g] \in V[i]
      OBVIOUS
    <3> HIDE DEF F, step, V
    <3> QED
      BY <1>3, <1>4
  <2> HIDE DEF n, V, step
  <2>4. ComputableBack(n, V, step)
    BY <1>1, <1>2, <2>1, <2>2, CourseRecursion
  <2> QED
    BY <2>4, Zenon DEF ComputableBack
<1>6. \A p \in 0 .. n : f[p] = ScanAt(text, f, p)
  <2> HIDE DEF step, F
  <2>1. \A p \in 0 .. n : f[p] = step[p][f]
    <3>1. ASSUME NEW g, g = [p \in 0 .. n |-> step[p][f]], NEW p \in 0 .. n PROVE g[p] = step[p][f]
      BY <3>1
    <3> QED
      BY <1>5, <3>1
  <2> QED
    BY <1>3, <2>1
<1>7. Solves(f)
  <2> HIDE DEF F, V
  <2>1. ASSUME NEW p \in 0 .. n PROVE f[p] = [what \in Parts |-> ScanPart(text, f, p, what)]
    <3>1. f[p] \in [Parts -> SUBSET (p + 1 .. n)]
      BY <1>3
    <3>2. \A what \in Parts : ScanPart(text, f, p, what) = f[p][what]
      BY <1>4, <1>6
    <3> QED
      BY <3>1, <3>2
  <2>2. f = [p \in 0 .. n |-> f[p]]
    BY <1>5 DEF F, Fitting
  <2> QED
    BY <2>1, <2>2
<1>8. Solves(Scan(text))
  <2>1. Scan(text) = CHOOSE g : Solves(g)
    BY DEF Scan
  <2> HIDE DEF Solves
  <2> QED
    BY <1>7, <2>1
<1> DEFINE scan == Scan(text)
           Of(what) == PartOf(scan, what, n)
           value == Of("value")
           member == Of("member")
           element == Of("element")
           Holds(p) == /\ value[p] = ValueStep(text, member, element, p)
                       /\ member[p] = MemberStep(text, value, member, p)
                       /\ element[p] = Listed(text, value[p], RightBracket, element)
                       /\ value[p] \subseteq p + 1 .. n
                       /\ member[p] \subseteq p + 1 .. n
                       /\ element[p] \subseteq p + 1 .. n
           S == {p \in 0 .. n : Holds(p)}
<1>9. \A p \in 0 .. n : \A what \in Parts : scan[p][what] = ScanPart(text, scan, p, what)
  <2>1. ASSUME NEW g, Solves(g), NEW p \in 0 .. n, NEW what \in Parts
        PROVE  g[p][what] = ScanPart(text, g, p, what)
    <3>1. g[p] = [w \in Parts |-> ScanPart(text, g, p, w)]
      BY <2>1
    <3> HIDE DEF Solves
    <3> QED
      BY <3>1
  <2> HIDE DEF Solves, scan
  <2> QED
    BY <1>8, <2>1 DEF scan
<1>10. \A p \in 0 .. n : /\ value[p] = scan[p]["value"] /\ member[p] = scan[p]["member"]
                         /\ element[p] = scan[p]["element"]
  BY DEF PartOf
<1>11. \A p \in 0 .. n : p \in S
  <2>1. ASSUME NEW p \in 0 .. n, \A j \in p + 1 .. n : j \in S
        PROVE  p \in S
    <3>1. \A q \in p + 1 .. n : q \in 0 .. n /\ Holds(q)
      BY <1>1, <2>1
    <3>2. TellsParts(text, p, scan, value, member, element)
      BY <1>10, <3>1 DEF TellsParts
    <3>3. \A q \in p + 1 .. n :
            value[q] \subseteq q + 1 .. n /\ member[q] \subseteq q + 1 .. n /\ element[q] \subseteq q + 1 .. n
      BY <3>1
    <3> HIDE DEF value, member, element, scan
    <3>4. /\ ScanPart(text, scan, p, "value") = ValueStep(text, member, element, p)
          /\ ScanPart(text, scan, p, "member") = MemberStep(text, value, member, p)
          /\ scan[p]["value"] \subseteq p + 1 .. n =>
               ScanPart(text, scan, p, "element") = Listed(text, scan[p]["value"], RightBracket, element)
      BY <3>2, ScanPartIs
    <3>5. /\ ValueStep(text, member, element, p) \subseteq p + 1 .. n
          /\ MemberStep(text, value, member, p) \subseteq p + 1 .. n
          /\ \A values \in SUBSET (p + 1 .. n) :
               Listed(text, values, RightBracket, element) \subseteq p + 1 .. n
      BY <3>3, ScanTypes
    <3>6. /\ value[p] = ScanPart(text, scan, p, "value") /\ value[p] = scan[p]["value"]
          /\ member[p] = ScanPart(text, scan, p, "member")
          /\ element[p] = ScanPart(text, scan, p, "element")
      BY <1>9, <1>10 DEF Parts
    <3>7. Holds(p)
      BY <3>4, <3>5, <3>6
    <3> HIDE DEF Holds
    <3> QED
      BY <3>7
  <2> HIDE DEF S, n
  <2>2. \A p \in 0 .. n : (\A j \in p + 1 .. n : j \in S) => p \in S
    BY <2>1
  <2> QED
    BY <1>1, <2>2, FromTheEnd
<1>12. \A from : SkipValue(text, from) = scan[from]["value"]
  BY DEF SkipValue, Scan, ScanPart, Parts
<1>13. Scanned(text, value, member, element)
  BY <1>11 DEF Scanned
<1> HIDE DEF value, member, element
<1> QED
  BY <1>10, <1>12, <1>13

(* What ParseObject is at a key: one member, and those behind it.            *)
ObjectStep(text, wanted, member, p) ==
  LET Value(k) ==
        IF k.name = wanted
        THEN {s \in ParseString(text, k.value_at) : s.value # <<>>}
        ELSE {[end |-> e, value |-> <<>>] : e \in SkipValue(text, k.value_at)}
      Rest(v) ==
        {[end |-> e, id |-> v.value] : e \in Closes(text, v.end, RightBrace)}
          \cup UNION {{[m EXCEPT !.id = IF @ = <<>> THEN v.value ELSE @] : m \in member[q]} :
                        q \in NextItem(text, v.end)}
  IN UNION {UNION {Rest(v) : v \in Value(k)} : k \in Key(text, p)}
Objects(text, wanted) ==
  CHOOSE member : member = [p \in 0 .. Len(text) |-> ObjectStep(text, wanted, member, p)]

WantedValue(text, wanted, k) ==
  IF k.name = wanted
  THEN {s \in ParseString(text, k.value_at) : s.value # <<>>}
  ELSE {[end |-> e, value |-> <<>>] : e \in SkipValue(text, k.value_at)}
Later(objects, id) == {[o EXCEPT !.id = IF @ = <<>> THEN id ELSE @] : o \in objects}
MemberRest(text, member, v) ==
  {[end |-> e, id |-> v.value] : e \in Closes(text, v.end, RightBrace)}
    \cup UNION {Later(member[q], v.value) : q \in NextItem(text, v.end)}

(* The same without the local operators.                                     *)
LEMMA ObjectStepIs ==
  ASSUME NEW text, NEW wanted, NEW member, NEW p
  PROVE  ObjectStep(text, wanted, member, p) =
           UNION {UNION {MemberRest(text, member, v) : v \in WantedValue(text, wanted, k)} :
                    k \in Key(text, p)}
BY DEF ObjectStep, MemberRest, WantedValue, Later

(* The value of a member, and the places behind it.                          *)
LEMMA WantedValueType ==
  ASSUME NEW text \in Seq(Byte), NEW wanted, NEW p \in 0 .. Len(text), NEW k \in Key(text, p)
  PROVE  \A v \in WantedValue(text, wanted, k) :
           /\ v.end \in p + 1 .. Len(text) /\ v.value \in Seq(Byte)
           /\ Closes(text, v.end, RightBrace) \subseteq p + 1 .. Len(text)
           /\ NextItem(text, v.end) \subseteq p + 1 .. Len(text)
<1> DEFINE n == Len(text)
<1> SUFFICES ASSUME NEW v \in WantedValue(text, wanted, k)
             PROVE  /\ v.end \in p + 1 .. n /\ v.value \in Seq(Byte)
                    /\ Closes(text, v.end, RightBrace) \subseteq p + 1 .. n
                    /\ NextItem(text, v.end) \subseteq p + 1 .. n
  OBVIOUS
<1>1. n \in Nat /\ p \in 0 .. n
  OBVIOUS
<1>2. k.value_at \in p + 2 .. n /\ k.value_at \in 0 .. n
  BY <1>1, PlacesAhead
<1>3. v.end \in p + 1 .. n /\ v.value \in Seq(Byte)
  <2>1. CASE k.name = wanted
    <3>1. v \in ParseString(text, k.value_at)
      BY <2>1 DEF WantedValue
    <3>2. v.end \in k.value_at + 2 .. n /\ v.value \in Seq(Byte)
      BY <1>2, <3>1, PlacesAhead
    <3> QED
      BY <1>1, <1>2, <3>2
  <2>2. CASE k.name # wanted
    <3>1. PICK e \in SkipValue(text, k.value_at) : v = [end |-> e, value |-> <<>>]
      BY <2>2 DEF WantedValue
    <3>2. SkipValue(text, k.value_at) \subseteq k.value_at + 1 .. n
      <4>1. PICK value, member, element :
              /\ Scanned(text, value, member, element)
              /\ \A from \in 0 .. Len(text) : SkipValue(text, from) = value[from]
        BY ScanRuns
      <4> QED
        BY <1>2, <4>1 DEF Scanned
    <3>3. e \in p + 1 .. n
      BY <1>1, <1>2, <3>2
    <3>4. <<>> \in Seq(Byte)
      OBVIOUS
    <3> QED
      BY <3>1, <3>3, <3>4
  <2> QED
    BY <2>1, <2>2
<1>4. v.end \in 0 .. n
  BY <1>1, <1>3
<1>5. /\ Closes(text, v.end, RightBrace) \subseteq v.end + 1 .. n
      /\ NextItem(text, v.end) \subseteq v.end + 1 .. n
  BY <1>4, PlacesAhead
<1> QED
  BY <1>1, <1>3, <1>5

(* It is a function over the places, from the end back.                      *)
LEMMA ObjectRuns ==
  ASSUME NEW text \in Seq(Byte), NEW wanted \in Seq(Byte)
  PROVE  /\ ParseObject(text, wanted) =
              LET first == SkipSpace(text, 0)
              IN IF ~ At(text, first, LeftBrace) THEN {}
                 ELSE IF Closes(text, first + 1, RightBrace) # {}
                 THEN {[end |-> e, id |-> <<>>] : e \in Closes(text, first + 1, RightBrace)}
                 ELSE Objects(text, wanted)[SkipSpace(text, first + 1)]
         /\ \A p \in 0 .. Len(text) :
              /\ Objects(text, wanted)[p] = ObjectStep(text, wanted, Objects(text, wanted), p)
              /\ Objects(text, wanted)[p] \subseteq [end : p + 1 .. Len(text), id : Seq(Byte)]
<1> DEFINE n == Len(text)
           Within(p) == [end : p + 1 .. n, id : Seq(Byte)]
           V == [p \in 0 .. n |-> SUBSET Within(p)]
           F == Fitting(n, V)
           step == [p \in 0 .. n |-> [f \in F |-> ObjectStep(text, wanted, f, p)]]
           Solves(f) == f = [p \in 0 .. n |-> ObjectStep(text, wanted, f, p)]
<1>1. n \in Nat /\ \A i \in 0 .. n : V[i] = SUBSET Within(i) /\ V[i] # {}
  OBVIOUS
<1>2. ASSUME NEW p \in 0 .. n, NEW f, \A j \in p + 1 .. n : f[j] \subseteq Within(j)
      PROVE  ObjectStep(text, wanted, f, p) \subseteq Within(p)
  <2> DEFINE Text == Seq(Byte)
  <2> SUFFICES ASSUME NEW k \in Key(text, p), NEW v \in WantedValue(text, wanted, k),
                      NEW o \in MemberRest(text, f, v)
               PROVE  o \in [end : p + 1 .. n, id : Text]
    BY ObjectStepIs
  <2>1. /\ v.end \in p + 1 .. n /\ v.value \in Text
        /\ Closes(text, v.end, RightBrace) \subseteq p + 1 .. n
        /\ NextItem(text, v.end) \subseteq p + 1 .. n
    BY WantedValueType
  <2>2. CASE \E e \in Closes(text, v.end, RightBrace) : o = [end |-> e, id |-> v.value]
    BY <2>1, <2>2
  <2>3. CASE \E q \in NextItem(text, v.end) : o \in Later(f[q], v.value)
    <3>1. PICK q \in NextItem(text, v.end) : o \in Later(f[q], v.value)
      BY <2>3
    <3>2. PICK r \in f[q] : o = [r EXCEPT !.id = IF @ = <<>> THEN v.value ELSE @]
      BY <3>1 DEF Later
    <3>3. q \in p + 1 .. n
      BY <2>1
    <3>4. r \in [end : q + 1 .. n, id : Text]
      BY <1>2, <3>2, <3>3
    <3>5. r.end \in p + 1 .. n /\ r.id \in Text
      BY <1>1, <3>3, <3>4
    <3> HIDE DEF Text
    <3>6. [r EXCEPT !.id = IF @ = <<>> THEN v.value ELSE @] \in [end : p + 1 .. n, id : Text]
      BY <2>1, <3>4, <3>5
    <3> QED
      BY <3>2, <3>6
  <2> QED
    BY <2>2, <2>3 DEF MemberRest
<1>3. ASSUME NEW p \in 0 .. n, NEW f, NEW g, \A j \in p + 1 .. n : f[j] = g[j]
      PROVE  ObjectStep(text, wanted, f, p) = ObjectStep(text, wanted, g, p)
  <2>1. ASSUME NEW k \in Key(text, p), NEW v \in WantedValue(text, wanted, k)
        PROVE  MemberRest(text, f, v) = MemberRest(text, g, v)
    <3>1. \A q \in NextItem(text, v.end) : f[q] = g[q]
      <4>1. NextItem(text, v.end) \subseteq p + 1 .. n
        BY WantedValueType
      <4> QED
        BY <1>3, <4>1
    <3>2. {Later(f[q], v.value) : q \in NextItem(text, v.end)} =
            {Later(g[q], v.value) : q \in NextItem(text, v.end)}
      BY <3>1
    <3> QED
      BY <3>2 DEF MemberRest
  <2>2. \A k \in Key(text, p) :
          {MemberRest(text, f, v) : v \in WantedValue(text, wanted, k)} =
            {MemberRest(text, g, v) : v \in WantedValue(text, wanted, k)}
    BY <2>1
  <2> QED
    BY <2>2, ObjectStepIs
<1>4. \A i \in 0 .. n : \A f \in F : step[i][f] = ObjectStep(text, wanted, f, i)
  <2> HIDE DEF F
  <2> QED
    OBVIOUS
<1>5. \A i \in 0 .. n : \A f \in F : step[i][f] \in V[i]
  <2> SUFFICES ASSUME NEW i \in 0 .. n, NEW f \in F
               PROVE  ObjectStep(text, wanted, f, i) \in V[i]
    BY <1>4
  <2>1. \A j \in i + 1 .. n : f[j] \subseteq Within(j)
    BY <1>1 DEF Fitting
  <2> QED
    BY <1>1, <1>2, <2>1
<1>6. PICK f \in F : f = [i \in 0 .. n |-> step[i][f]]
  <2>1. \A i \in 0 .. n : \A g, h \in Fitting(n, V) :
          (\A j \in i + 1 .. n : g[j] = h[j]) => step[i][g] = step[i][h]
    <3> SUFFICES ASSUME NEW i \in 0 .. n, NEW g \in F, NEW h \in F,
                        \A j \in i + 1 .. n : g[j] = h[j]
                 PROVE  step[i][g] = step[i][h]
      OBVIOUS
    <3>1. ObjectStep(text, wanted, g, i) = ObjectStep(text, wanted, h, i)
      BY <1>3
    <3> HIDE DEF F, step
    <3> QED
      BY <1>4, <3>1
  <2>2. \A i \in 0 .. n : \A g \in Fitting(n, V) : step[i][g] \in V[i]
    BY <1>5
  <2>3. n \in Nat /\ \A i \in 0 .. n : V[i] # {}
    BY <1>1
  <2> HIDE DEF n, V, step
  <2>4. ComputableBack(n, V, step)
    BY <2>1, <2>2, <2>3, CourseRecursion
  <2> QED
    BY <2>4, Zenon DEF ComputableBack
<1>7. Solves(f)
  <2> HIDE DEF step, F
  <2>1. \A i \in 0 .. n : step[i][f] = ObjectStep(text, wanted, f, i)
    BY <1>4
  <2>2. [i \in 0 .. n |-> step[i][f]] = [i \in 0 .. n |-> ObjectStep(text, wanted, f, i)]
    BY <2>1
  <2> QED
    BY <1>6, <2>2, Zenon
<1>8. Solves(Objects(text, wanted))
  <2>1. Objects(text, wanted) = CHOOSE g : Solves(g)
    BY DEF Objects
  <2> HIDE DEF Solves
  <2> QED
    BY <1>7, <2>1
<1> DEFINE objects == Objects(text, wanted)
           S == {p \in 0 .. n : objects[p] \subseteq Within(p)}
<1>9. \A p \in 0 .. n : objects[p] = ObjectStep(text, wanted, objects, p)
  <2>1. ASSUME NEW g, Solves(g) PROVE \A p \in 0 .. n : g[p] = ObjectStep(text, wanted, g, p)
    BY <2>1
  <2> HIDE DEF Solves
  <2> QED
    BY <1>8, <2>1
<1>10. \A p \in 0 .. n : p \in S
  <2>1. ASSUME NEW p \in 0 .. n, \A j \in p + 1 .. n : j \in S
        PROVE  p \in S
    <3>1. \A j \in p + 1 .. n : objects[j] \subseteq Within(j)
      BY <2>1
    <3> HIDE DEF objects, n, Within
    <3>2. ObjectStep(text, wanted, objects, p) \subseteq Within(p)
      BY <1>2, <3>1
    <3> QED
      BY <1>9, <3>2
  <2> HIDE DEF S, n
  <2>2. \A p \in 0 .. n : (\A j \in p + 1 .. n : j \in S) => p \in S
    BY <2>1
  <2> QED
    BY <1>1, <2>2, FromTheEnd
<1>11. ParseObject(text, wanted) =
         LET first == SkipSpace(text, 0)
         IN IF ~ At(text, first, LeftBrace) THEN {}
            ELSE IF Closes(text, first + 1, RightBrace) # {}
            THEN {[end |-> e, id |-> <<>>] : e \in Closes(text, first + 1, RightBrace)}
            ELSE Objects(text, wanted)[SkipSpace(text, first + 1)]
  BY DEF ParseObject, Objects, ObjectStep
<1> QED
  BY <1>9, <1>10, <1>11

(* Tuples of up to six items as sequences.                                   *)
LEMMA TupleTypes ==
  ASSUME NEW T
  PROVE  /\ \A a \in T : <<a>> \in Seq(T)
         /\ \A a, b \in T : <<a, b>> \in Seq(T)
         /\ \A a, b, c \in T : <<a, b, c>> \in Seq(T)
         /\ \A a, b, c, d \in T : <<a, b, c, d>> \in Seq(T)
         /\ \A a, b, c, d, e \in T : <<a, b, c, d, e>> \in Seq(T)
         /\ \A a, b, c, d, e, f \in T : <<a, b, c, d, e, f>> \in Seq(T)
<1>1. \A a \in T : <<a>> \in Seq(T)
  OBVIOUS
<1>2. \A a, b \in T : <<a, b>> \in Seq(T)
  OBVIOUS
<1>3. \A a, b, c \in T : <<a, b, c>> \in Seq(T)
  OBVIOUS
<1>4. \A a, b, c, d \in T : <<a, b, c, d>> \in Seq(T)
  OBVIOUS
<1>5. \A a, b, c, d, e \in T : <<a, b, c, d, e>> \in Seq(T)
  OBVIOUS
<1>6. \A a, b, c, d, e, f \in T : <<a, b, c, d, e, f>> \in Seq(T)
  OBVIOUS
<1> QED
  BY <1>1, <1>2, <1>3, <1>4, <1>5, <1>6

(* Short tuples, item by item.                                               *)
LEMMA TupleItems ==
  /\ \A a : /\ Len(<<a>>) = 1
            /\ <<a>>[1] = a
  /\ \A a, b : /\ Len(<<a, b>>) = 2
               /\ <<a, b>>[1] = a /\ <<a, b>>[2] = b
  /\ \A a, b, c : /\ Len(<<a, b, c>>) = 3
                  /\ <<a, b, c>>[1] = a /\ <<a, b, c>>[2] = b /\ <<a, b, c>>[3] = c
  /\ \A a, b, c, d : /\ Len(<<a, b, c, d>>) = 4
                     /\ <<a, b, c, d>>[1] = a /\ <<a, b, c, d>>[2] = b
                     /\ <<a, b, c, d>>[3] = c /\ <<a, b, c, d>>[4] = d
  /\ \A a, b, c, d, e : /\ Len(<<a, b, c, d, e>>) = 5
                        /\ <<a, b, c, d, e>>[1] = a /\ <<a, b, c, d, e>>[2] = b
                        /\ <<a, b, c, d, e>>[3] = c /\ <<a, b, c, d, e>>[4] = d
                        /\ <<a, b, c, d, e>>[5] = e
  /\ \A a, b, c, d, e, f : /\ Len(<<a, b, c, d, e, f>>) = 6
                           /\ <<a, b, c, d, e, f>>[1] = a /\ <<a, b, c, d, e, f>>[2] = b
                           /\ <<a, b, c, d, e, f>>[3] = c /\ <<a, b, c, d, e, f>>[4] = d
                           /\ <<a, b, c, d, e, f>>[5] = e /\ <<a, b, c, d, e, f>>[6] = f
OBVIOUS

(* A sequence with one item more is what has its items.                      *)
LEMMA AppendIs ==
  ASSUME NEW T, NEW s \in Seq(T), NEW t \in Seq(T), NEW x \in T, Len(t) = Len(s) + 1,
         \A i \in 1 .. Len(s) : t[i] = s[i], t[Len(s) + 1] = x
  PROVE  Append(s, x) = t
<1> DEFINE u == Append(s, x)
<1>1. /\ u \in Seq(T) /\ Len(u) = Len(s) + 1 /\ Len(s) \in Nat
      /\ \A i \in 1 .. Len(s) : u[i] = s[i]
      /\ u[Len(s) + 1] = x
  BY AppendProperties
<1> HIDE DEF u
<1>2. \A i \in 1 .. Len(u) : u[i] = t[i]
  BY <1>1
<1>3. u = t
  BY <1>1, <1>2, SeqEqual
<1> QED
  BY <1>3 DEF u

(* The same for tuples of one to five items.                                 *)
LEMMA AppendToOne ==
  ASSUME NEW T, NEW a \in T, NEW b \in T
  PROVE  Append(<<a>>, b) = <<a, b>>
<1> DEFINE s == <<a>>
           t == <<a, b>>
<1>1. s \in Seq(T) /\ t \in Seq(T)
  BY TupleTypes
<1>2. Len(t) = 2 /\ Len(s) = 1 /\ t[2] = b
  OBVIOUS
<1>3. t[1] = s[1]
  OBVIOUS
<1> HIDE DEF s, t
<1>4. Len(t) = Len(s) + 1 /\ t[Len(s) + 1] = b /\ \A i \in 1 .. Len(s) : t[i] = s[i]
  BY <1>2, <1>3
<1>5. Append(s, b) = t
  BY <1>1, <1>4, AppendIs
<1> QED
  BY <1>5 DEF s, t

(* Two.                                                                      *)
LEMMA AppendToTwo ==
  ASSUME NEW T, NEW a \in T, NEW b \in T, NEW c \in T
  PROVE  Append(<<a, b>>, c) = <<a, b, c>>
<1> DEFINE s == <<a, b>>
           t == <<a, b, c>>
<1>1. s \in Seq(T) /\ t \in Seq(T)
  BY TupleTypes
<1>2. Len(t) = 3 /\ Len(s) = 2 /\ t[3] = c
  OBVIOUS
<1>3. t[1] = s[1] /\ t[2] = s[2]
  OBVIOUS
<1> HIDE DEF s, t
<1>4. Len(t) = Len(s) + 1 /\ t[Len(s) + 1] = c /\ \A i \in 1 .. Len(s) : t[i] = s[i]
  BY <1>2, <1>3
<1>5. Append(s, c) = t
  BY <1>1, <1>4, AppendIs
<1> QED
  BY <1>5 DEF s, t

(* Three.                                                                    *)
LEMMA AppendToThree ==
  ASSUME NEW T, NEW a \in T, NEW b \in T, NEW c \in T, NEW d \in T
  PROVE  Append(<<a, b, c>>, d) = <<a, b, c, d>>
<1> DEFINE s == <<a, b, c>>
           t == <<a, b, c, d>>
<1>1. s \in Seq(T) /\ t \in Seq(T)
  BY TupleTypes
<1>2. Len(t) = 4 /\ Len(s) = 3 /\ t[4] = d
  OBVIOUS
<1>3. t[1] = s[1] /\ t[2] = s[2] /\ t[3] = s[3]
  OBVIOUS
<1> HIDE DEF s, t
<1>4. Len(t) = Len(s) + 1 /\ t[Len(s) + 1] = d /\ \A i \in 1 .. Len(s) : t[i] = s[i]
  BY <1>2, <1>3
<1>5. Append(s, d) = t
  BY <1>1, <1>4, AppendIs
<1> QED
  BY <1>5 DEF s, t

(* Four.                                                                     *)
LEMMA AppendToFour ==
  ASSUME NEW T, NEW a \in T, NEW b \in T, NEW c \in T, NEW d \in T, NEW e \in T
  PROVE  Append(<<a, b, c, d>>, e) = <<a, b, c, d, e>>
<1> DEFINE s == <<a, b, c, d>>
           t == <<a, b, c, d, e>>
<1>1. s \in Seq(T) /\ t \in Seq(T)
  BY TupleTypes
<1>2. Len(t) = 5 /\ Len(s) = 4 /\ t[5] = e
  OBVIOUS
<1>3. t[1] = s[1] /\ t[2] = s[2] /\ t[3] = s[3] /\ t[4] = s[4]
  OBVIOUS
<1> HIDE DEF s, t
<1>4. Len(t) = Len(s) + 1 /\ t[Len(s) + 1] = e /\ \A i \in 1 .. Len(s) : t[i] = s[i]
  BY <1>2, <1>3
<1>5. Append(s, e) = t
  BY <1>1, <1>4, AppendIs
<1> QED
  BY <1>5 DEF s, t

(* Five.                                                                     *)
LEMMA AppendToFive ==
  ASSUME NEW T, NEW a \in T, NEW b \in T, NEW c \in T, NEW d \in T, NEW e \in T, NEW f \in T
  PROVE  Append(<<a, b, c, d, e>>, f) = <<a, b, c, d, e, f>>
<1> DEFINE s == <<a, b, c, d, e>>
           t == <<a, b, c, d, e, f>>
<1>1. s \in Seq(T) /\ t \in Seq(T)
  BY TupleTypes
<1>2. Len(t) = 6 /\ Len(s) = 5 /\ t[6] = f
  OBVIOUS
<1>3. t[1] = s[1] /\ t[2] = s[2] /\ t[3] = s[3] /\ t[4] = s[4] /\ t[5] = s[5]
  OBVIOUS
<1> HIDE DEF s, t
<1>4. Len(t) = Len(s) + 1 /\ t[Len(s) + 1] = f /\ \A i \in 1 .. Len(s) : t[i] = s[i]
  BY <1>2, <1>3
<1>5. Append(s, f) = t
  BY <1>1, <1>4, AppendIs
<1> QED
  BY <1>5 DEF s, t

-----------------------------------------------------------------------------
(* What the stack of a reading becomes.                                      *)

Lexeme == [kind : Structure \cup AnyValue, text : Seq(Byte)]
Member == [key : Seq(Byte), value : Lexeme]
Modes == {"between", "literal", "string", "escape", "unicode"}
Readings ==
  {r \in [mode : Modes, text : Seq(Byte), left : Int, stack : Seq(Lexeme), members : Seq(Member)] :
     (r.mode # "unicode" => r.left = 0) /\ (r.mode = "between" => r.text = <<>>)}

EmptyObject == <<{LeftBrace}, {RightBrace}>>
WholeObject == <<{LeftBrace}, {StringToken}, {Colon}, AnyValue, {RightBrace}>>
EmptyArray == <<{LeftBracket}, {RightBracket}>>
WholeArray == <<{LeftBracket}, AnyValue, {RightBracket}>>
NextMember == <<{LeftBrace}, {StringToken}, {Colon}, AnyValue, {Comma}, {StringToken}>>
NextElement == <<{LeftBracket}, AnyValue, {Comma}, AnyValue>>

(* A rule fires when the stack ends as it says.                              *)
Fires(stack, rule) ==
  /\ Len(rule) <= Len(stack)
  /\ \A k \in DOMAIN rule : stack[Len(stack) - Len(rule) + k].kind \in rule[k]
Matches(top, rule) == Len(top) = Len(rule) /\ \A k \in DOMAIN rule : top[k].kind \in rule[k]

(* The kinds of token are eleven numbers.                                    *)
LEMMA KindsAre ==
  /\ Quote = 34 /\ Comma = 44 /\ Colon = 58 /\ LeftBracket = 91 /\ Backslash = 92
  /\ RightBracket = 93 /\ LetterU = 117 /\ LeftBrace = 123 /\ RightBrace = 125
  /\ StringToken = 256 /\ ValueToken = 257 /\ ObjectToken = 258
  /\ Structure = {123, 125, 91, 93, 58, 44} /\ AnyValue = {256, 257, 258}
BY DEF Quote, Comma, Colon, LeftBracket, Backslash, RightBracket, LetterU, LeftBrace, RightBrace,
       StringToken, ValueToken, ObjectToken, Structure, AnyValue

(* Each rule by the kinds at the end of the stack.                           *)
LEMMA FiresIs ==
  ASSUME NEW s \in Seq(Lexeme)
  PROVE  LET n == Len(s)
         IN /\ Fires(s, EmptyObject) <=> n >= 2 /\ s[n - 1].kind = 123 /\ s[n].kind = 125
            /\ Fires(s, WholeObject) <=>
                 /\ n >= 5 /\ s[n - 4].kind = 123 /\ s[n - 3].kind = 256 /\ s[n - 2].kind = 58
                 /\ s[n - 1].kind \in 256 .. 258 /\ s[n].kind = 125
            /\ Fires(s, EmptyArray) <=> n >= 2 /\ s[n - 1].kind = 91 /\ s[n].kind = 93
            /\ Fires(s, WholeArray) <=>
                 /\ n >= 3 /\ s[n - 2].kind = 91 /\ s[n - 1].kind \in 256 .. 258 /\ s[n].kind = 93
            /\ Fires(s, NextMember) <=>
                 /\ n >= 6 /\ s[n - 5].kind = 123 /\ s[n - 4].kind = 256 /\ s[n - 3].kind = 58
                 /\ s[n - 2].kind \in 256 .. 258 /\ s[n - 1].kind = 44 /\ s[n].kind = 256
            /\ Fires(s, NextElement) <=>
                 /\ n >= 4 /\ s[n - 3].kind = 91 /\ s[n - 2].kind \in 256 .. 258
                 /\ s[n - 1].kind = 44 /\ s[n].kind \in 256 .. 258
<1> DEFINE n == Len(s)
<1>1. n \in Nat
  OBVIOUS
<1> HIDE DEF n
<1>2. ASSUME NEW t, Len(t) = 2, DOMAIN t = 1 .. 2
      PROVE  Fires(s, t) <=>
               /\ n >= 2 /\ s[n - 1].kind \in t[1] /\ s[n].kind \in t[2]
  <2>1. /\ 1 .. 2 = {1, 2} /\ n - 2 + 1 = n - 1 /\ n - 2 + 2 = n
    BY <1>1
  <2> QED
    BY <1>1, <1>2, <2>1 DEF Fires, n
<1>3. ASSUME NEW t, Len(t) = 3, DOMAIN t = 1 .. 3
      PROVE  Fires(s, t) <=>
               /\ n >= 3 /\ s[n - 2].kind \in t[1] /\ s[n - 1].kind \in t[2]
               /\ s[n].kind \in t[3]
  <2>1. /\ 1 .. 3 = {1, 2, 3} /\ n - 3 + 1 = n - 2 /\ n - 3 + 2 = n - 1 /\ n - 3 + 3 = n
    BY <1>1
  <2> QED
    BY <1>1, <1>3, <2>1 DEF Fires, n
<1>4. ASSUME NEW t, Len(t) = 4, DOMAIN t = 1 .. 4
      PROVE  Fires(s, t) <=>
               /\ n >= 4 /\ s[n - 3].kind \in t[1] /\ s[n - 2].kind \in t[2]
               /\ s[n - 1].kind \in t[3] /\ s[n].kind \in t[4]
  <2>1. /\ 1 .. 4 = {1, 2, 3, 4} /\ n - 4 + 1 = n - 3 /\ n - 4 + 2 = n - 2
        /\ n - 4 + 3 = n - 1 /\ n - 4 + 4 = n
    BY <1>1
  <2> QED
    BY <1>1, <1>4, <2>1 DEF Fires, n
<1>5. ASSUME NEW t, Len(t) = 5, DOMAIN t = 1 .. 5
      PROVE  Fires(s, t) <=>
               /\ n >= 5 /\ s[n - 4].kind \in t[1] /\ s[n - 3].kind \in t[2]
               /\ s[n - 2].kind \in t[3] /\ s[n - 1].kind \in t[4] /\ s[n].kind \in t[5]
  <2>1. /\ 1 .. 5 = {1, 2, 3, 4, 5} /\ n - 5 + 1 = n - 4 /\ n - 5 + 2 = n - 3
        /\ n - 5 + 3 = n - 2 /\ n - 5 + 4 = n - 1 /\ n - 5 + 5 = n
    BY <1>1
  <2> QED
    BY <1>1, <1>5, <2>1 DEF Fires, n
<1>6. ASSUME NEW t, Len(t) = 6, DOMAIN t = 1 .. 6
      PROVE  Fires(s, t) <=>
               /\ n >= 6 /\ s[n - 5].kind \in t[1] /\ s[n - 4].kind \in t[2]
               /\ s[n - 3].kind \in t[3] /\ s[n - 2].kind \in t[4] /\ s[n - 1].kind \in t[5]
               /\ s[n].kind \in t[6]
  <2>1. /\ 1 .. 6 = {1, 2, 3, 4, 5, 6} /\ n - 6 + 1 = n - 5 /\ n - 6 + 2 = n - 4
        /\ n - 6 + 3 = n - 3 /\ n - 6 + 4 = n - 2 /\ n - 6 + 5 = n - 1 /\ n - 6 + 6 = n
    BY <1>1
  <2> QED
    BY <1>1, <1>6, <2>1 DEF Fires, n
<1>7. \A x : x \in AnyValue <=> x \in 256 .. 258
  BY KindsAre
<1>8. /\ \A x : x \in {Comma} <=> x = 44
      /\ \A x : x \in {Colon} <=> x = 58
      /\ \A x : x \in {LeftBracket} <=> x = 91
      /\ \A x : x \in {RightBracket} <=> x = 93
      /\ \A x : x \in {LeftBrace} <=> x = 123
      /\ \A x : x \in {RightBrace} <=> x = 125
      /\ \A x : x \in {StringToken} <=> x = 256
  BY KindsAre
<1>9. Fires(s, EmptyObject) <=>
         /\ n >= 2 /\ s[n - 1].kind = 123 /\ s[n].kind = 125
  <2>1. /\ Len(EmptyObject) = 2 /\ DOMAIN EmptyObject = 1 .. 2
        /\ EmptyObject[1] = {LeftBrace} /\ EmptyObject[2] = {RightBrace}
    BY DEF EmptyObject
  <2>2. Fires(s, EmptyObject) <=>
          /\ n >= 2 /\ s[n - 1].kind \in {LeftBrace} /\ s[n].kind \in {RightBrace}
    BY <1>2, <2>1
  <2>3. s[n - 1].kind \in {LeftBrace} <=> s[n - 1].kind = 123
    BY <1>8
  <2>4. s[n].kind \in {RightBrace} <=> s[n].kind = 125
    BY <1>8
  <2> QED
    BY <2>2, <2>3, <2>4, PTL
<1>10. Fires(s, WholeObject) <=>
         /\ n >= 5 /\ s[n - 4].kind = 123 /\ s[n - 3].kind = 256 /\ s[n - 2].kind = 58
         /\ s[n - 1].kind \in 256 .. 258 /\ s[n].kind = 125
  <2>1. /\ Len(WholeObject) = 5 /\ DOMAIN WholeObject = 1 .. 5
        /\ WholeObject[1] = {LeftBrace} /\ WholeObject[2] = {StringToken}
        /\ WholeObject[3] = {Colon} /\ WholeObject[4] = AnyValue
        /\ WholeObject[5] = {RightBrace}
    BY DEF WholeObject
  <2>2. Fires(s, WholeObject) <=>
          /\ n >= 5 /\ s[n - 4].kind \in {LeftBrace} /\ s[n - 3].kind \in {StringToken}
          /\ s[n - 2].kind \in {Colon} /\ s[n - 1].kind \in AnyValue
          /\ s[n].kind \in {RightBrace}
    BY <1>5, <2>1
  <2>3. s[n - 4].kind \in {LeftBrace} <=> s[n - 4].kind = 123
    BY <1>8
  <2>4. s[n - 3].kind \in {StringToken} <=> s[n - 3].kind = 256
    BY <1>8
  <2>5. s[n - 2].kind \in {Colon} <=> s[n - 2].kind = 58
    BY <1>8
  <2>6. s[n - 1].kind \in AnyValue <=> s[n - 1].kind \in 256 .. 258
    BY <1>7
  <2>7. s[n].kind \in {RightBrace} <=> s[n].kind = 125
    BY <1>8
  <2> QED
    BY <2>2, <2>3, <2>4, <2>5, <2>6, <2>7, PTL
<1>11. Fires(s, EmptyArray) <=>
         /\ n >= 2 /\ s[n - 1].kind = 91 /\ s[n].kind = 93
  <2>1. /\ Len(EmptyArray) = 2 /\ DOMAIN EmptyArray = 1 .. 2
        /\ EmptyArray[1] = {LeftBracket} /\ EmptyArray[2] = {RightBracket}
    BY DEF EmptyArray
  <2>2. Fires(s, EmptyArray) <=>
          /\ n >= 2 /\ s[n - 1].kind \in {LeftBracket} /\ s[n].kind \in {RightBracket}
    BY <1>2, <2>1
  <2>3. s[n - 1].kind \in {LeftBracket} <=> s[n - 1].kind = 91
    BY <1>8
  <2>4. s[n].kind \in {RightBracket} <=> s[n].kind = 93
    BY <1>8
  <2> QED
    BY <2>2, <2>3, <2>4, PTL
<1>12. Fires(s, WholeArray) <=>
         /\ n >= 3 /\ s[n - 2].kind = 91 /\ s[n - 1].kind \in 256 .. 258 /\ s[n].kind = 93
  <2>1. /\ Len(WholeArray) = 3 /\ DOMAIN WholeArray = 1 .. 3
        /\ WholeArray[1] = {LeftBracket} /\ WholeArray[2] = AnyValue
        /\ WholeArray[3] = {RightBracket}
    BY DEF WholeArray
  <2>2. Fires(s, WholeArray) <=>
          /\ n >= 3 /\ s[n - 2].kind \in {LeftBracket} /\ s[n - 1].kind \in AnyValue
          /\ s[n].kind \in {RightBracket}
    BY <1>3, <2>1
  <2>3. s[n - 2].kind \in {LeftBracket} <=> s[n - 2].kind = 91
    BY <1>8
  <2>4. s[n - 1].kind \in AnyValue <=> s[n - 1].kind \in 256 .. 258
    BY <1>7
  <2>5. s[n].kind \in {RightBracket} <=> s[n].kind = 93
    BY <1>8
  <2> QED
    BY <2>2, <2>3, <2>4, <2>5, PTL
<1>13. Fires(s, NextMember) <=>
         /\ n >= 6 /\ s[n - 5].kind = 123 /\ s[n - 4].kind = 256 /\ s[n - 3].kind = 58
         /\ s[n - 2].kind \in 256 .. 258 /\ s[n - 1].kind = 44 /\ s[n].kind = 256
  <2>1. /\ Len(NextMember) = 6 /\ DOMAIN NextMember = 1 .. 6 /\ NextMember[1] = {LeftBrace}
        /\ NextMember[2] = {StringToken} /\ NextMember[3] = {Colon}
        /\ NextMember[4] = AnyValue /\ NextMember[5] = {Comma}
        /\ NextMember[6] = {StringToken}
    BY DEF NextMember
  <2>2. Fires(s, NextMember) <=>
          /\ n >= 6 /\ s[n - 5].kind \in {LeftBrace} /\ s[n - 4].kind \in {StringToken}
          /\ s[n - 3].kind \in {Colon} /\ s[n - 2].kind \in AnyValue
          /\ s[n - 1].kind \in {Comma} /\ s[n].kind \in {StringToken}
    BY <1>6, <2>1
  <2>3. s[n - 5].kind \in {LeftBrace} <=> s[n - 5].kind = 123
    BY <1>8
  <2>4. s[n - 4].kind \in {StringToken} <=> s[n - 4].kind = 256
    BY <1>8
  <2>5. s[n - 3].kind \in {Colon} <=> s[n - 3].kind = 58
    BY <1>8
  <2>6. s[n - 2].kind \in AnyValue <=> s[n - 2].kind \in 256 .. 258
    BY <1>7
  <2>7. s[n - 1].kind \in {Comma} <=> s[n - 1].kind = 44
    BY <1>8
  <2>8. s[n].kind \in {StringToken} <=> s[n].kind = 256
    BY <1>8
  <2> QED
    BY <2>2, <2>3, <2>4, <2>5, <2>6, <2>7, <2>8, PTL
<1>14. Fires(s, NextElement) <=>
         /\ n >= 4 /\ s[n - 3].kind = 91 /\ s[n - 2].kind \in 256 .. 258
         /\ s[n - 1].kind = 44 /\ s[n].kind \in 256 .. 258
  <2>1. /\ Len(NextElement) = 4 /\ DOMAIN NextElement = 1 .. 4
        /\ NextElement[1] = {LeftBracket} /\ NextElement[2] = AnyValue
        /\ NextElement[3] = {Comma} /\ NextElement[4] = AnyValue
    BY DEF NextElement
  <2>2. Fires(s, NextElement) <=>
          /\ n >= 4 /\ s[n - 3].kind \in {LeftBracket} /\ s[n - 2].kind \in AnyValue
          /\ s[n - 1].kind \in {Comma} /\ s[n].kind \in AnyValue
    BY <1>4, <2>1
  <2>3. s[n - 3].kind \in {LeftBracket} <=> s[n - 3].kind = 91
    BY <1>8
  <2>4. s[n - 2].kind \in AnyValue <=> s[n - 2].kind \in 256 .. 258
    BY <1>7
  <2>5. s[n - 1].kind \in {Comma} <=> s[n - 1].kind = 44
    BY <1>8
  <2>6. s[n].kind \in AnyValue <=> s[n].kind \in 256 .. 258
    BY <1>7
  <2> QED
    BY <2>2, <2>3, <2>4, <2>5, <2>6, PTL
<1> QED
  BY <1>9, <1>10, <1>11, <1>12, <1>13, <1>14 DEF n

(* One rule at most fires.                                                   *)
Rules == Whole \cup Continued

(* The six rules, and which of them keep two items.                          *)
LEMMA RulesAre ==
  /\ Rules = {EmptyObject, WholeObject, EmptyArray, WholeArray, NextMember, NextElement}
  /\ EmptyObject \notin Continued /\ WholeObject \notin Continued /\ EmptyArray \notin Continued
  /\ WholeArray \notin Continued /\ NextMember \in Continued /\ NextElement \in Continued
<1>1. Whole = {EmptyObject, WholeObject, EmptyArray, WholeArray}
  BY DEF Whole, EmptyObject, WholeObject, EmptyArray, WholeArray
<1>2. Continued = {NextMember, NextElement}
  BY DEF Continued, NextMember, NextElement
<1>3. /\ Len(EmptyObject) = 2 /\ Len(WholeObject) = 5 /\ Len(EmptyArray) = 2 /\ Len(WholeArray) = 3
      /\ Len(NextMember) = 6 /\ Len(NextElement) = 4
  BY DEF EmptyObject, WholeObject, EmptyArray, WholeArray, NextMember, NextElement
<1> QED
  BY <1>1, <1>2, <1>3 DEF Rules

(* No rule is longer than six.                                               *)
LEMMA RuleLengths == \A rule \in Rules : Len(rule) \in 2 .. 6 /\ DOMAIN rule = 1 .. Len(rule)
<1>1. /\ Len(EmptyObject) = 2 /\ Len(WholeObject) = 5 /\ Len(EmptyArray) = 2 /\ Len(WholeArray) = 3
      /\ Len(NextMember) = 6 /\ Len(NextElement) = 4
  BY DEF EmptyObject, WholeObject, EmptyArray, WholeArray, NextMember, NextElement
<1>2. /\ DOMAIN EmptyObject = 1 .. 2 /\ DOMAIN WholeObject = 1 .. 5 /\ DOMAIN EmptyArray = 1 .. 2
      /\ DOMAIN WholeArray = 1 .. 3 /\ DOMAIN NextMember = 1 .. 6 /\ DOMAIN NextElement = 1 .. 4
  BY DEF EmptyObject, WholeObject, EmptyArray, WholeArray, NextMember, NextElement
<1> QED
  BY <1>1, <1>2, RulesAre

(* At most one rule fires, so CHOOSE has no choice.                          *)
LEMMA OneRule ==
  ASSUME NEW s \in Seq(Lexeme), NEW one \in Rules, NEW other \in Rules,
         Fires(s, one), Fires(s, other)
  PROVE  one = other
<1> DEFINE n == Len(s)
           a == s[n].kind
           b == s[n - 1].kind
           c == s[n - 3].kind
<1>1. /\ Fires(s, EmptyObject) => a = 125 /\ b = 123
      /\ Fires(s, WholeObject) => a = 125 /\ b \in 256 .. 258
  BY FiresIs
<1>2. /\ Fires(s, EmptyArray) => a = 93 /\ b = 91
      /\ Fires(s, WholeArray) => a = 93 /\ b \in 256 .. 258
  BY FiresIs
<1>3. /\ Fires(s, NextMember) => a = 256 /\ b = 44 /\ c = 58
      /\ Fires(s, NextElement) => a \in 256 .. 258 /\ b = 44 /\ c = 91
  BY FiresIs
<1> HIDE DEF n, a, b, c
<1> QED
  BY <1>1, <1>2, <1>3, RulesAre

(* A reading by its parts.                                                   *)
In(mode, text, left, stack, members) ==
  [mode |-> mode, text |-> text, left |-> left, stack |-> stack, members |-> members]

(* What it replaces the top by, and the member it keeps.                     *)
Becomes(top, rule) ==
  IF rule \in Continued THEN <<top[1], top[Len(top)]>>
  ELSE <<Item(IF top[1].kind = LeftBrace THEN ObjectToken ELSE ValueToken, <<>>)>>
Recorded(below, top, members) ==
  IF below = <<>> /\ Len(top) >= 5
  THEN Append(members, [key |-> top[2].text, value |-> top[4]]) ELSE members

(* A stack in two parts.                                                     *)
LEMMA TopOfStack ==
  ASSUME NEW below \in Seq(Lexeme), NEW top \in Seq(Lexeme)
  PROVE  /\ below \o top \in Seq(Lexeme) /\ Len(below \o top) = Len(below) + Len(top)
         /\ Len(below) \in Nat /\ Len(top) \in Nat
         /\ SubSeq(below \o top, 1, Len(below \o top) - Len(top)) = below
         /\ SubSeq(below \o top, Len(below \o top) - Len(top) + 1, Len(below \o top)) = top
         /\ \A rule \in Rules : Matches(top, rule) => Fires(below \o top, rule)
         /\ \A k \in 1 .. Len(top) : (below \o top)[Len(below \o top) - Len(top) + k] = top[k]
<1> DEFINE s == below \o top
           n == Len(below)
           m == Len(top)
<1>1. n \in Nat /\ m \in Nat /\ Len(s) = n + m /\ s \in Seq(Lexeme)
  BY ConcatProperties
<1>2. SubSeq(s, 1, n) = below
  <2>1. SubSeq(s, 1, n) = SubSeq(below, 1, n)
    BY <1>1, SubSeqOfConcat1
  <2> QED
    BY <2>1, SubSeqFull
<1>3. SubSeq(s, n + 1, n + m) = top
  <2>1. SubSeq(s, n + 1, n + m) = SubSeq(top, n + 1 - n, n + m - n)
    BY <1>1, SubSeqOfConcat2
  <2>2. n + 1 - n = 1 /\ n + m - n = m
    BY <1>1
  <2> QED
    BY <2>1, <2>2, SubSeqFull
<1>4. \A k \in 1 .. m : s[n + k] = top[k]
  <2> SUFFICES ASSUME NEW k \in 1 .. m PROVE s[n + k] = top[k]
    OBVIOUS
  <2>1. n + k \in 1 .. n + m /\ ~ (n + k <= n) /\ n + k - n = k
    BY <1>1
  <2> QED
    BY <2>1, ConcatProperties
<1>5. ASSUME NEW rule \in Rules, Matches(top, rule) PROVE Fires(s, rule)
  <2>1. Len(rule) = m /\ Len(s) - m = n /\ m <= n + m
    BY <1>1, <1>5 DEF Matches
  <2>2. DOMAIN rule = 1 .. m
    BY <2>1, RuleLengths
  <2> QED
    BY <1>1, <1>4, <1>5, <2>1, <2>2 DEF Matches, Fires
<1>6. Len(s) - m + 1 = n + 1 /\ Len(s) - m = n
  BY <1>1
<1> QED
  BY <1>1, <1>2, <1>3, <1>4, <1>5, <1>6

(* A rule looks at the top of the stack alone.                               *)
LEMMA TopFires ==
  ASSUME NEW s \in Seq(Lexeme), NEW rule \in Rules
  PROVE  Fires(s, rule) <=>
           /\ Len(rule) <= Len(s)
           /\ \A k \in DOMAIN rule :
                SubSeq(s, Len(s) - Len(rule) + 1, Len(s))[k].kind \in rule[k]
<1> DEFINE a == Len(s) - Len(rule) + 1
           b == Len(s)
<1>1. Len(rule) \in Nat /\ DOMAIN rule = 1 .. Len(rule)
  BY RuleLengths
<1>2. ASSUME Len(rule) <= Len(s), NEW k \in 1 .. Len(rule)
      PROVE  SubSeq(s, a, b)[k] = s[Len(s) - Len(rule) + k]
  <2>1. \A i \in a .. b : s[i] \in Lexeme
    BY <1>1, <1>2
  <2>2. a \in Int /\ b \in Int /\ k \in 1 .. b - a + 1 /\ a + k - 1 = Len(s) - Len(rule) + k
    BY <1>1, <1>2
  <2> HIDE DEF a, b
  <2>3. SubSeq(s, a, b)[k] = s[a + k - 1]
    BY <2>1, <2>2, SubSeqProperties
  <2> QED
    BY <2>2, <2>3
<1> HIDE DEF a, b
<1>3. Fires(s, rule) <=>
        Len(rule) <= Len(s) /\ \A k \in DOMAIN rule : SubSeq(s, a, b)[k].kind \in rule[k]
  BY <1>1, <1>2 DEF Fires
<1> QED
  BY <1>3 DEF a, b

(* Reduce, where the top matches a rule.                                     *)
LEMMA ReduceFires ==
  ASSUME NEW below \in Seq(Lexeme), NEW top \in Seq(Lexeme), NEW rule \in Rules, Matches(top, rule),
         NEW r \in Readings, r.stack = below \o top
  PROVE  Reduce(r) = In(r.mode, r.text, r.left,
                        below \o Becomes(top, rule), Recorded(below, top, r.members))
<1> DEFINE s == r.stack
           Top(n) == SubSeq(s, Len(s) - n + 1, Len(s))
           Ends(rl) == Len(rl) <= Len(s) /\ \A k \in DOMAIN rl : Top(Len(rl))[k].kind \in rl[k]
           rules == {rl \in Whole \cup Continued : Ends(rl)}
<1>1. Fires(s, rule)
  BY TopOfStack
<1>2. s \in Seq(Lexeme) /\ Len(s) \in Nat
  BY DEF Readings
<1>3. ASSUME NEW rl \in Rules PROVE Ends(rl) <=> Fires(s, rl)
  BY <1>2, TopFires
<1>4. rules = {rule}
  <2>1. rule \in rules
    BY <1>1, <1>3 DEF Rules
  <2>2. ASSUME NEW rl \in rules PROVE rl = rule
    <3>1. rl \in Rules /\ Fires(s, rl)
      BY <1>3 DEF Rules
    <3> QED
      BY <1>1, <1>2, <3>1, OneRule
  <2> HIDE DEF rules
  <2> QED
    BY <2>1, <2>2
<1>5. (CHOOSE x \in rules : TRUE) = rule
  BY <1>4
<1>6. Top(Len(rule)) = top /\ SubSeq(s, 1, Len(s) - Len(rule)) = below
  BY TopOfStack DEF Matches
<1>7. Reduce(r) =
        IF rules = {} THEN r
        ELSE LET rl == CHOOSE x \in rules : TRUE
             IN [r EXCEPT !.stack = SubSeq(s, 1, Len(s) - Len(rl)) \o Becomes(Top(Len(rl)), rl),
                          !.members = Recorded(SubSeq(s, 1, Len(s) - Len(rl)), Top(Len(rl)), @)]
  BY DEF Reduce, Becomes, Recorded
<1> HIDE DEF rules, Top
<1>8. Reduce(r) = [r EXCEPT !.stack = below \o Becomes(top, rule),
                            !.members = Recorded(below, top, @)]
  <2> HIDE DEF s
  <2> QED
    BY <1>4, <1>5, <1>6, <1>7, ZenonT(30)
<1> DEFINE Stacks == Seq(Lexeme)
           Lists == Seq(Member)
           Texts == Seq(Byte)
<1>9. r \in [mode : Modes, text : Texts, left : Int,
             stack : Stacks, members : Lists]
  BY DEF Readings
<1> HIDE DEF s, Stacks, Lists, Texts
<1> QED
  BY <1>8, <1>9 DEF In

(* Without a rule the reading is whole.                                      *)
LEMMA ReduceNone ==
  ASSUME NEW r \in Readings, \A rule \in Rules : ~ Fires(r.stack, rule)
  PROVE  Reduce(r) = r
<1> DEFINE s == r.stack
           Top(n) == SubSeq(s, Len(s) - n + 1, Len(s))
           Ends(rl) == Len(rl) <= Len(s) /\ \A k \in DOMAIN rl : Top(Len(rl))[k].kind \in rl[k]
           rules == {rl \in Whole \cup Continued : Ends(rl)}
<1>2. s \in Seq(Lexeme) /\ Len(s) \in Nat
  BY DEF Readings
<1>3. ASSUME NEW rl \in Rules PROVE Ends(rl) <=> Fires(s, rl)
  BY <1>2, TopFires
<1>4. rules = {}
  BY <1>3 DEF Rules
<1> QED
  BY <1>4, ZenonT(30) DEF Reduce

(* A reading between tokens, and what a token makes of it.                   *)
Between(stack, members) == In("between", <<>>, 0, stack, members)
Push(stack, members, token) == Reduce(Reduce(Between(Append(stack, token), members)))

(* It is a reading, and these are its parts.                                 *)
LEMMA BetweenType ==
  ASSUME NEW s \in Seq(Lexeme), NEW m \in Seq(Member)
  PROVE  /\ Between(s, m) \in Readings /\ Between(s, m).stack = s /\ Between(s, m).members = m
         /\ Between(s, m).mode = "between" /\ Between(s, m).text = <<>> /\ Between(s, m).left = 0
<1> DEFINE Stacks == Seq(Lexeme)
           Lists == Seq(Member)
           Texts == Seq(Byte)
<1>1. <<>> \in Texts
  OBVIOUS
<1>2. s \in Stacks /\ m \in Lists
  OBVIOUS
<1> HIDE DEF Stacks, Lists, Texts
<1>3. Between(s, m) \in
        [mode : Modes, text : Texts, left : Int, stack : Stacks, members : Lists]
  BY <1>1, <1>2 DEF Between, In, Modes
<1>4. Between(s, m) \in Readings
  BY <1>3 DEF Between, In, Readings, Stacks, Lists, Texts
<1> QED
  BY <1>4 DEF Between, In

(* A rule that fires is one whose top the stack has.                         *)
ReducesBy(s, m, below, top, rule) ==
  /\ s = below \o top /\ Matches(top, rule)
  /\ below \o Becomes(top, rule) \in Seq(Lexeme)
  /\ Recorded(below, top, m) \in Seq(Member)
  /\ Reduce(Between(s, m)) = Between(below \o Becomes(top, rule), Recorded(below, top, m))

(* Reduce leaves a reading, or one rule does all of it.                      *)
LEMMA ReduceCases ==
  ASSUME NEW s \in Seq(Lexeme), NEW m \in Seq(Member)
  PROVE  \/ /\ Reduce(Between(s, m)) = Between(s, m)
            /\ \A rule \in Rules : ~ Fires(s, rule)
         \/ \E below, top \in Seq(Lexeme), rule \in Rules : ReducesBy(s, m, below, top, rule)
<1>1. CASE \A rule \in Rules : ~ Fires(s, rule)
  BY <1>1, BetweenType, ReduceNone
<1>2. CASE \E rule \in Rules : Fires(s, rule)
  <2>1. PICK rule \in Rules : Fires(s, rule)
    BY <1>2
  <2> DEFINE n == Len(s)
             k == Len(rule)
             below == SubSeq(s, 1, n - k)
             top == SubSeq(s, n - k + 1, n)
  <2>2. n \in Nat /\ k \in 2 .. 6 /\ k <= n /\ DOMAIN rule = 1 .. k
    BY <2>1, RuleLengths DEF Fires
  <2>3. below \in Seq(Lexeme) /\ Len(below) = n - k
    <3>1. \A i \in 1 .. n - k : s[i] \in Lexeme
      BY <2>2
    <3>2. 1 \in Int /\ n - k \in Int
      BY <2>2
    <3> HIDE DEF n, k
    <3>3. /\ SubSeq(s, 1, n - k) \in Seq(Lexeme)
          /\ Len(SubSeq(s, 1, n - k)) = IF 1 <= n - k THEN n - k - 1 + 1 ELSE 0
      BY <3>1, <3>2, SubSeqProperties
    <3> QED
      BY <2>2, <3>3
  <2>4. top \in Seq(Lexeme) /\ Len(top) = k
    <3>1. \A i \in n - k + 1 .. n : s[i] \in Lexeme
      BY <2>2
    <3>2. n - k + 1 \in Int /\ n \in Int
      BY <2>2
    <3> HIDE DEF n, k
    <3>3. /\ SubSeq(s, n - k + 1, n) \in Seq(Lexeme)
          /\ Len(SubSeq(s, n - k + 1, n)) =
               IF n - k + 1 <= n THEN n - (n - k + 1) + 1 ELSE 0
      BY <3>1, <3>2, SubSeqProperties
    <3> QED
      BY <2>2, <3>3
  <2>5. s = below \o top
    <3>1. SubSeq(s, 1, n - k) \o SubSeq(s, n - k + 1, n) = SubSeq(s, 1, n)
      <4>1. 1 \in 1 .. n + 1 /\ n - k \in 1 - 1 .. n /\ n \in n - k .. n
        BY <2>2
      <4> QED
        BY <2>2, <4>1, ConcatAdjacentSubSeq
    <3> QED
      BY <3>1, SubSeqFull
  <2>6. Matches(top, rule)
    <3>1. \A j \in DOMAIN rule : top[j].kind \in rule[j]
      BY <2>1, TopFires
    <3> QED
      BY <2>4, <3>1 DEF Matches
  <2> HIDE DEF below, top
  <2>7. Becomes(top, rule) \in Seq(Lexeme)
    <3>1. top[1] \in Lexeme /\ top[Len(top)] \in Lexeme
      BY <2>2, <2>4
    <3>2. \A a, b \in Lexeme : <<a, b>> \in Seq(Lexeme) /\ <<a>> \in Seq(Lexeme)
      OBVIOUS
    <3>3. Item(ObjectToken, <<>>) \in Lexeme /\ Item(ValueToken, <<>>) \in Lexeme
      BY DEF Item, Lexeme, AnyValue
    <3> QED
      BY <3>1, <3>2, <3>3 DEF Becomes
  <2>8. below \o Becomes(top, rule) \in Seq(Lexeme)
    BY <2>3, <2>7, ConcatProperties
  <2>9. Recorded(below, top, m) \in Seq(Member)
    <3>1. CASE Len(top) >= 5
      <4>1. top[2] \in Lexeme /\ top[4] \in Lexeme
        BY <2>4, <3>1
      <4>2. [key |-> top[2].text, value |-> top[4]] \in Member
        BY <4>1 DEF Member, Lexeme
      <4> QED
        BY <4>2, AppendProperties DEF Recorded
    <3> QED
      BY <3>1 DEF Recorded
  <2>10. Reduce(Between(s, m)) = Between(below \o Becomes(top, rule), Recorded(below, top, m))
    <3> DEFINE r == Between(s, m)
    <3>1. r \in Readings /\ r.stack = below \o top
      BY <2>5, BetweenType
    <3>2. r.mode = "between" /\ r.text = <<>> /\ r.left = 0 /\ r.members = m
      BY BetweenType
    <3> HIDE DEF r
    <3>3. Reduce(r) = In(r.mode, r.text, r.left, below \o Becomes(top, rule),
                         Recorded(below, top, r.members))
      BY <2>3, <2>4, <2>6, <3>1, ReduceFires
    <3> QED
      BY <3>2, <3>3 DEF r, Between
  <2>11. ReducesBy(s, m, below, top, rule)
    BY <2>5, <2>6, <2>8, <2>9, <2>10 DEF ReducesBy
  <2> QED
    BY <2>3, <2>4, <2>11
<1> QED
  BY <1>1, <1>2

(* What a reading without a token half read becomes.                         *)
LEMMA ReduceType ==
  ASSUME NEW s \in Seq(Lexeme), NEW m \in Seq(Member)
  PROVE  \E s2 \in Seq(Lexeme), m2 \in Seq(Member) : Reduce(Between(s, m)) = Between(s2, m2)
BY ReduceCases DEF ReducesBy

(* A token leaves one reading between tokens.                                *)
LEMMA PushType ==
  ASSUME NEW s \in Seq(Lexeme), NEW m \in Seq(Member), NEW t \in Lexeme
  PROVE  \E s2 \in Seq(Lexeme), m2 \in Seq(Member) : Push(s, m, t) = Between(s2, m2)
<1>1. Append(s, t) \in Seq(Lexeme)
  BY AppendProperties
<1>2. PICK s1 \in Seq(Lexeme), m1 \in Seq(Member) :
        Reduce(Between(Append(s, t), m)) = Between(s1, m1)
  BY <1>1, ReduceType
<1>3. PICK s2 \in Seq(Lexeme), m2 \in Seq(Member) : Reduce(Between(s1, m1)) = Between(s2, m2)
  BY ReduceType
<1> QED
  BY <1>2, <1>3 DEF Push

(* A stack that no rule fires on, by its last two tokens.                    *)
LEMMA QuietEnd ==
  ASSUME NEW s \in Seq(Lexeme), s # <<>>,
         \/ s[Len(s)].kind \in {123, 91, 58, 44}
         \/ s[Len(s)].kind \in 256 .. 258 /\ (Len(s) > 1 => s[Len(s) - 1].kind # 44)
  PROVE  \A rule \in Rules : ~ Fires(s, rule)
<1> DEFINE n == Len(s)
<1>1. n \in Nat
  OBVIOUS
<1>2. n >= 1 => \/ s[n].kind \in {123, 91, 58, 44}
                \/ s[n].kind \in 256 .. 258 /\ (n > 1 => s[n - 1].kind # 44)
  OBVIOUS
<1> HIDE DEF n
<1>3. ~ Fires(s, EmptyObject) /\ ~ Fires(s, WholeObject)
  BY <1>1, <1>2, FiresIs DEF n
<1>4. ~ Fires(s, EmptyArray) /\ ~ Fires(s, WholeArray)
  BY <1>1, <1>2, FiresIs DEF n
<1>5. ~ Fires(s, NextMember) /\ ~ Fires(s, NextElement)
  BY <1>1, <1>2, FiresIs DEF n
<1> QED
  BY <1>3, <1>4, <1>5, RulesAre

(* Where no rule fires nothing is reduced.                                   *)
LEMMA QuietReduce ==
  ASSUME NEW s \in Seq(Lexeme), NEW m \in Seq(Member), \A rule \in Rules : ~ Fires(s, rule)
  PROVE  Reduce(Between(s, m)) = Between(s, m)
BY BetweenType, ReduceNone

(* A token that completes nothing stays on top.                              *)
LEMMA PushQuiet ==
  ASSUME NEW s \in Seq(Lexeme), NEW m \in Seq(Member), NEW t \in Lexeme,
         \/ t.kind \in {123, 91, 58, 44}
         \/ t.kind \in 256 .. 258 /\ (s # <<>> => s[Len(s)].kind # 44)
  PROVE  Push(s, m, t) = Between(Append(s, t), m)
<1> DEFINE a == Append(s, t)
<1>1. /\ a \in Seq(Lexeme) /\ a # <<>> /\ Len(a) = Len(s) + 1 /\ a[Len(a)] = t
      /\ \A i \in 1 .. Len(s) : a[i] = s[i]
  BY AppendProperties
<1>2. Len(s) \in Nat /\ (s # <<>> => Len(s) \in 1 .. Len(s)) /\ (s = <<>> => Len(s) = 0)
  BY EmptySeq
<1>3. Len(a) > 1 => s # <<>> /\ Len(a) - 1 = Len(s)
  BY <1>1, <1>2
<1> HIDE DEF a
<1>4. \/ a[Len(a)].kind \in {123, 91, 58, 44}
      \/ a[Len(a)].kind \in 256 .. 258 /\ (Len(a) > 1 => a[Len(a) - 1].kind # 44)
  BY <1>1, <1>2, <1>3
<1>5. Reduce(Between(a, m)) = Between(a, m)
  BY <1>1, <1>4, QuietEnd, QuietReduce
<1> QED
  BY <1>5 DEF Push, a

(* The bottom of a stack stays under what is put on top.                     *)
LEMMA AppendTop ==
  ASSUME NEW base \in Seq(Lexeme), NEW top \in Seq(Lexeme), NEW t \in Lexeme
  PROVE  /\ Append(base \o top, t) = base \o Append(top, t)
         /\ Append(base, t) = base \o <<t>>
<1>1. /\ Append(base \o top, t) = (base \o top) \o <<t>>
      /\ Append(top, t) = top \o <<t>> /\ Append(base, t) = base \o <<t>>
  BY ConcatProperties
<1>2. <<t>> \in Seq(Lexeme)
  OBVIOUS
<1> QED
  BY <1>1, <1>2, ConcatAssociative

(* Where the top matches a rule it becomes what the rule says.               *)
LEMMA ReduceTop ==
  ASSUME NEW below \in Seq(Lexeme), NEW top \in Seq(Lexeme), NEW rule \in Rules, Matches(top, rule),
         NEW m \in Seq(Member)
  PROVE  Reduce(Between(below \o top, m)) =
           Between(below \o Becomes(top, rule), Recorded(below, top, m))
<1> DEFINE r == Between(below \o top, m)
<1>1. below \o top \in Seq(Lexeme)
  BY ConcatProperties
<1>2. /\ r \in Readings /\ r.stack = below \o top /\ r.members = m
      /\ r.mode = "between" /\ r.text = <<>> /\ r.left = 0
  BY <1>1, BetweenType
<1> HIDE DEF r
<1>3. Reduce(r) = In(r.mode, r.text, r.left, below \o Becomes(top, rule),
                     Recorded(below, top, r.members))
  BY <1>2, ReduceFires
<1> QED
  BY <1>2, <1>3 DEF r, Between

(* A value at the end makes one rule fire, and then none.                    *)
LEMMA ReduceTwice ==
  ASSUME NEW base \in Seq(Lexeme), NEW v \in Lexeme, v.kind \in 256 .. 258, NEW m \in Seq(Member)
  PROVE  Reduce(Reduce(Between(base \o <<v>>, m))) = Reduce(Between(base \o <<v>>, m))
<1> DEFINE s == base \o <<v>>
<1>1. s \in Seq(Lexeme) /\ s # <<>> /\ s[Len(s)] = v
  <2>1. <<v>> \in Seq(Lexeme) /\ Len(<<v>>) = 1 /\ <<v>>[1] = v
    OBVIOUS
  <2>2. s \in Seq(Lexeme) /\ Len(s) = Len(base) + 1 /\ Len(base) \in Nat
    BY <2>1, ConcatProperties
  <2>3. s[Len(s) - 1 + 1] = v
    BY <2>1, TopOfStack
  <2> QED
    BY <2>2, <2>3
<1> HIDE DEF s
<1>2. CASE \A rule \in Rules : ~ Fires(s, rule)
  <2>1. Reduce(Between(s, m)) = Between(s, m)
    BY <1>1, <1>2, QuietReduce
  <2> QED
    BY <2>1 DEF s
<1>3. CASE \E rule \in Rules : Fires(s, rule)
  <2>1. PICK below \in Seq(Lexeme), top \in Seq(Lexeme), rule \in Rules :
          /\ s = below \o top /\ Matches(top, rule)
          /\ below \o Becomes(top, rule) \in Seq(Lexeme)
          /\ Recorded(below, top, m) \in Seq(Member)
          /\ Reduce(Between(s, m)) =
               Between(below \o Becomes(top, rule), Recorded(below, top, m))
    BY <1>1, <1>3, ReduceCases DEF ReducesBy
  <2> DEFINE n == Len(s)
             k == Len(top)
             u == below \o Becomes(top, rule)
  <2>2. Fires(s, rule)
    BY <2>1, TopOfStack
  <2>3. rule \in {NextMember, NextElement}
    BY <1>1, <2>2, FiresIs, RulesAre
  <2>4. k = Len(rule) /\ k \in 2 .. 6 /\ top[1] \in Lexeme /\ top[k] \in Lexeme
    <3>1. k = Len(rule) /\ k \in 2 .. 6
      BY <2>1, RuleLengths DEF Matches
    <3>2. 1 \in 1 .. k /\ k \in 1 .. k /\ top \in Seq(Lexeme)
      BY <2>1, <3>1
    <3> QED
      BY <3>1, <3>2, ElementOfSeq
  <2>5. Becomes(top, rule) = <<top[1], top[k]>>
    BY <2>3, RulesAre DEF Becomes
  <2>6. top[1].kind \in {123, 91} /\ top[k].kind \in 256 .. 258
    <3>1. top[1].kind \in rule[1] /\ top[k].kind \in rule[k]
      <4>1. DOMAIN rule = 1 .. k
        BY <2>1, <2>4, RuleLengths
      <4>2. 1 \in 1 .. k /\ k \in 1 .. k
        BY <2>4
      <4> QED
        BY <2>1, <4>1, <4>2 DEF Matches
    <3>2. CASE rule = NextMember
      <4>1. k = 6 /\ rule[1] = {LeftBrace} /\ rule[6] = {StringToken}
        BY <2>4, <3>2 DEF NextMember
      <4> QED
        BY <3>1, <4>1, KindsAre
    <3>3. CASE rule = NextElement
      <4>1. k = 4 /\ rule[1] = {LeftBracket} /\ rule[4] = AnyValue
        BY <2>4, <3>3 DEF NextElement
      <4> QED
        BY <3>1, <4>1, KindsAre
    <3> QED
      BY <2>3, <3>2, <3>3
  <2>7. u # <<>> /\ Len(u) >= 2 /\ u[Len(u)] = top[k] /\ u[Len(u) - 1] = top[1]
    <3> DEFINE pair == <<top[1], top[k]>>
    <3>1. /\ pair \in Seq(Lexeme) /\ Len(pair) = 2 /\ pair[1] = top[1] /\ pair[2] = top[k]
          /\ u = below \o pair /\ below \in Seq(Lexeme)
      BY <2>1, <2>4, <2>5
    <3> HIDE DEF pair, u
    <3>2. Len(u) = Len(below) + 2 /\ Len(below) \in Nat
      <4>1. Len(below \o pair) = Len(below) + Len(pair)
        BY <3>1, ConcatProperties
      <4>2. Len(below) \in Nat
        BY <3>1, LenProperties
      <4> QED
        BY <3>1, <4>1, <4>2
    <3>3. u[Len(u) - 2 + 1] = pair[1] /\ u[Len(u) - 2 + 2] = pair[2]
      <4>1. \A j \in 1 .. Len(pair) : (below \o pair)[Len(below \o pair) - Len(pair) + j] = pair[j]
        BY <3>1, TopOfStack
      <4>2. 1 \in 1 .. 2 /\ 2 \in 1 .. 2
        OBVIOUS
      <4> QED
        BY <3>1, <4>1, <4>2
    <3>4. Len(u) - 2 + 1 = Len(u) - 1 /\ Len(u) - 2 + 2 = Len(u)
      BY <3>2
    <3> QED
      BY <3>1, <3>2, <3>3, <3>4
  <2>8. u \in Seq(Lexeme)
    BY <2>1
  <2> HIDE DEF u
  <2>9. Reduce(Between(u, Recorded(below, top, m))) = Between(u, Recorded(below, top, m))
    <3>1. top[1].kind # 44 /\ Recorded(below, top, m) \in Seq(Member)
      BY <2>1, <2>6
    <3>2. \A rl \in Rules : ~ Fires(u, rl)
      <4>1. \/ u[Len(u)].kind \in {123, 91, 58, 44}
            \/ u[Len(u)].kind \in 256 .. 258 /\ (Len(u) > 1 => u[Len(u) - 1].kind # 44)
        BY <2>6, <2>7, <3>1
      <4>2. u # <<>>
        BY <2>7
      <4> QED
        BY <2>8, <4>1, <4>2, QuietEnd
    <3> QED
      BY <2>8, <3>1, <3>2, QuietReduce
  <2> QED
    BY <2>1, <2>9 DEF u, s
<1> QED
  BY <1>2, <1>3 DEF s

(* The frames on a stack: an object or an array that is open, and how each   *)
(* token completes it or goes on.                                            *)
Sign(kind) == Item(kind, <<>>)
Kept(base, key, value, members) ==
  IF base = <<>> THEN Append(members, [key |-> key.text, value |-> value]) ELSE members

(* Every sign is a token of its kind.                                        *)
LEMMA SignType ==
  /\ \A kind \in Structure \cup AnyValue : Sign(kind) \in Lexeme /\ Sign(kind).kind = kind
  /\ \A kind \in {123, 125, 91, 93, 58, 44, 256, 257, 258} : kind \in Structure \cup AnyValue
<1>1. <<>> \in Seq(Byte)
  OBVIOUS
<1> QED
  BY <1>1, KindsAre DEF Sign, Item, Lexeme

(* What is kept is a list of members.                                        *)
LEMMA KeptType ==
  ASSUME NEW base, NEW key \in Lexeme, NEW value \in Lexeme, NEW m \in Seq(Member)
  PROVE  Kept(base, key, value, m) \in Seq(Member)
<1>1. [key |-> key.text, value |-> value] \in Member
  BY DEF Member, Lexeme
<1> QED
  BY <1>1, AppendProperties DEF Kept

(* A value on top of something else than a comma stays.                      *)
LEMMA QuietPair ==
  ASSUME NEW base \in Seq(Lexeme), NEW m \in Seq(Member), NEW pair \in Seq(Lexeme), Len(pair) = 2,
         pair[1].kind # 44, pair[2].kind \in 256 .. 258
  PROVE  Reduce(Between(base \o pair, m)) = Between(base \o pair, m)
<1> DEFINE u == base \o pair
<1>1. u \in Seq(Lexeme) /\ Len(u) = Len(base) + 2 /\ Len(base) \in Nat
  <2>1. u \in Seq(Lexeme) /\ Len(u) = Len(base) + Len(pair) /\ Len(base) \in Nat
    BY TopOfStack
  <2> QED
    BY <2>1
<1>2. \A j \in 1 .. Len(pair) : u[Len(u) - Len(pair) + j] = pair[j]
  BY TopOfStack
<1>3. u[Len(u) - 2 + 1] = pair[1] /\ u[Len(u) - 2 + 2] = pair[2]
  <2>1. 1 \in 1 .. 2 /\ 2 \in 1 .. 2
    OBVIOUS
  <2> HIDE DEF u
  <2> QED
    BY <1>2, <2>1
<1>4. Len(u) - 2 + 1 = Len(u) - 1 /\ Len(u) - 2 + 2 = Len(u) /\ u # <<>>
  BY <1>1
<1> HIDE DEF u
<1>5. u[Len(u) - 1].kind # 44 /\ u[Len(u)].kind \in 256 .. 258
  BY <1>3, <1>4
<1>6. \A rule \in Rules : ~ Fires(u, rule)
  BY <1>1, <1>4, <1>5, QuietEnd
<1>7. Reduce(Between(u, m)) = Between(u, m)
  BY <1>1, <1>6, QuietReduce
<1> QED
  BY <1>7 DEF u

(* {} becomes an object.                                                     *)
LEMMA EmptyObjectPush ==
  ASSUME NEW base \in Seq(Lexeme), NEW m \in Seq(Member)
  PROVE  Push(base \o <<Sign(LeftBrace)>>, m, Sign(RightBrace)) = Push(base, m, Sign(ObjectToken))
<1> DEFINE a == Sign(LeftBrace)
           b == Sign(RightBrace)
           o == Sign(ObjectToken)
           top == <<a, b>>
<1>1. /\ a \in Lexeme /\ a.kind = 123 /\ b \in Lexeme /\ b.kind = 125 /\ o \in Lexeme /\ o.kind = 258
      /\ LeftBrace = 123 /\ RightBrace = 125
  BY SignType, KindsAre
<1>2. o = Item(ObjectToken, <<>>)
  BY DEF Sign
<1> HIDE DEF a, b, o
<1>3. <<a>> \in Seq(Lexeme) /\ Append(<<a>>, b) = top /\ top \in Seq(Lexeme) /\ Len(top) = 2 /\ top[1] = a
      /\ top[2] = b /\ <<o>> \in Seq(Lexeme)
  <2>1. <<a>> \in Seq(Lexeme) /\ top \in Seq(Lexeme) /\ <<o>> \in Seq(Lexeme)
    BY <1>1, TupleTypes
  <2>2. Append(<<a>>, b) = top
    BY <1>1, AppendToOne
  <2>3. Len(top) = 2 /\ top[1] = a /\ top[2] = b
    BY TupleItems
  <2> QED
    BY <2>1, <2>2, <2>3
<1>4. Matches(top, EmptyObject)
  BY <1>1 DEF Matches, EmptyObject
<1>5. Append(base \o <<a>>, b) = base \o top /\ Append(base, o) = base \o <<o>>
  <2> DEFINE under == <<a>>
  <2> HIDE DEF under, top
  <2>1. Append(base \o under, b) = base \o Append(under, b) /\ Append(base, o) = base \o <<o>>
    BY <1>1, <1>3, AppendTop DEF under
  <2> QED
    BY <1>3, <2>1 DEF under
<1>6. Becomes(top, EmptyObject) = <<o>>
  BY <1>1, <1>2, <1>3, RulesAre DEF Becomes
<1>7. Recorded(base, top, m) = m
  BY <1>3 DEF Recorded
<1> HIDE DEF top
<1>8. Reduce(Between(base \o top, m)) = Between(base \o <<o>>, m)
  <2>1. EmptyObject \in Rules
    BY RulesAre
  <2>2. Reduce(Between(base \o top, m)) =
          Between(base \o Becomes(top, EmptyObject), Recorded(base, top, m))
    BY <1>3, <1>4, <2>1, ReduceTop
  <2> QED
    BY <1>6, <1>7, <2>2
<1>9. Reduce(Reduce(Between(base \o <<o>>, m))) = Reduce(Between(base \o <<o>>, m))
  BY <1>1, ReduceTwice
<1>10. Push(base \o <<a>>, m, b) = Push(base, m, o)
  BY <1>5, <1>8, <1>9 DEF Push
<1> QED
  BY <1>10 DEF a, b, o

(* [] becomes a value.                                                       *)
LEMMA EmptyArrayPush ==
  ASSUME NEW base \in Seq(Lexeme), NEW m \in Seq(Member)
  PROVE  Push(base \o <<Sign(LeftBracket)>>, m, Sign(RightBracket)) = Push(base, m, Sign(ValueToken))
<1> DEFINE a == Sign(LeftBracket)
           b == Sign(RightBracket)
           o == Sign(ValueToken)
           top == <<a, b>>
<1>1. /\ a \in Lexeme /\ a.kind = 91 /\ b \in Lexeme /\ b.kind = 93 /\ o \in Lexeme /\ o.kind = 257
      /\ LeftBracket = 91 /\ RightBracket = 93 /\ LeftBrace = 123
  BY SignType, KindsAre
<1>2. o = Item(ValueToken, <<>>)
  BY DEF Sign
<1> HIDE DEF a, b, o
<1>3. <<a>> \in Seq(Lexeme) /\ Append(<<a>>, b) = top /\ top \in Seq(Lexeme) /\ Len(top) = 2 /\ top[1] = a
      /\ top[2] = b /\ <<o>> \in Seq(Lexeme)
  <2>1. <<a>> \in Seq(Lexeme) /\ top \in Seq(Lexeme) /\ <<o>> \in Seq(Lexeme)
    BY <1>1, TupleTypes
  <2>2. Append(<<a>>, b) = top
    BY <1>1, AppendToOne
  <2>3. Len(top) = 2 /\ top[1] = a /\ top[2] = b
    BY TupleItems
  <2> QED
    BY <2>1, <2>2, <2>3
<1>4. Matches(top, EmptyArray)
  BY <1>1 DEF Matches, EmptyArray
<1>5. Append(base \o <<a>>, b) = base \o top /\ Append(base, o) = base \o <<o>>
  <2> DEFINE under == <<a>>
  <2> HIDE DEF under, top
  <2>1. Append(base \o under, b) = base \o Append(under, b) /\ Append(base, o) = base \o <<o>>
    BY <1>1, <1>3, AppendTop DEF under
  <2> QED
    BY <1>3, <2>1 DEF under
<1>6. Becomes(top, EmptyArray) = <<o>>
  BY <1>1, <1>2, <1>3, RulesAre DEF Becomes
<1>7. Recorded(base, top, m) = m
  BY <1>3 DEF Recorded
<1> HIDE DEF top
<1>8. Reduce(Between(base \o top, m)) = Between(base \o <<o>>, m)
  <2>1. EmptyArray \in Rules
    BY RulesAre
  <2>2. Reduce(Between(base \o top, m)) =
          Between(base \o Becomes(top, EmptyArray), Recorded(base, top, m))
    BY <1>3, <1>4, <2>1, ReduceTop
  <2> QED
    BY <1>6, <1>7, <2>2
<1>9. Reduce(Reduce(Between(base \o <<o>>, m))) = Reduce(Between(base \o <<o>>, m))
  BY <1>1, ReduceTwice
<1>10. Push(base \o <<a>>, m, b) = Push(base, m, o)
  BY <1>5, <1>8, <1>9 DEF Push
<1> QED
  BY <1>10 DEF a, b, o

(* An array with its last element becomes a value.                           *)
LEMMA WholeArrayPush ==
  ASSUME NEW base \in Seq(Lexeme), NEW m \in Seq(Member), NEW v \in Lexeme, v.kind \in 256 .. 258
  PROVE  Push(base \o <<Sign(LeftBracket), v>>, m, Sign(RightBracket)) = Push(base, m, Sign(ValueToken))
<1> DEFINE a == Sign(LeftBracket)
           b == Sign(RightBracket)
           o == Sign(ValueToken)
           top == <<a, v, b>>
<1>1. /\ a \in Lexeme /\ a.kind = 91 /\ b \in Lexeme /\ b.kind = 93 /\ o \in Lexeme /\ o.kind = 257
      /\ LeftBracket = 91 /\ RightBracket = 93 /\ LeftBrace = 123 /\ v.kind \in AnyValue
  BY SignType, KindsAre
<1>2. o = Item(ValueToken, <<>>)
  BY DEF Sign
<1> HIDE DEF a, b, o
<1>3. /\ <<a, v>> \in Seq(Lexeme) /\ Append(<<a, v>>, b) = top /\ top \in Seq(Lexeme) /\ Len(top) = 3
      /\ top[1] = a /\ top[2] = v /\ top[3] = b /\ <<o>> \in Seq(Lexeme)
  <2>1. <<a, v>> \in Seq(Lexeme) /\ top \in Seq(Lexeme) /\ <<o>> \in Seq(Lexeme)
    BY <1>1, TupleTypes
  <2>2. Append(<<a, v>>, b) = top
    BY <1>1, AppendToTwo
  <2>3. Len(top) = 3 /\ top[1] = a /\ top[2] = v /\ top[3] = b
    BY TupleItems
  <2> QED
    BY <2>1, <2>2, <2>3
<1>4. Matches(top, WholeArray)
  <2> HIDE DEF top
  <2> QED
    BY <1>1, <1>3 DEF Matches, WholeArray
<1>5. Append(base \o <<a, v>>, b) = base \o top /\ Append(base, o) = base \o <<o>>
  <2> DEFINE under == <<a, v>>
  <2> HIDE DEF under, top
  <2>1. Append(base \o under, b) = base \o Append(under, b) /\ Append(base, o) = base \o <<o>>
    BY <1>1, <1>3, AppendTop, ZenonT(40) DEF under
  <2> QED
    BY <1>3, <2>1 DEF under
<1>6. Becomes(top, WholeArray) = <<o>>
  BY <1>1, <1>2, <1>3, RulesAre DEF Becomes
<1>7. Recorded(base, top, m) = m
  BY <1>3 DEF Recorded
<1> HIDE DEF top
<1>8. Reduce(Between(base \o top, m)) = Between(base \o <<o>>, m)
  <2>1. WholeArray \in Rules
    BY RulesAre
  <2>2. Reduce(Between(base \o top, m)) =
          Between(base \o Becomes(top, WholeArray), Recorded(base, top, m))
    BY <1>3, <1>4, <2>1, ReduceTop
  <2> QED
    BY <1>6, <1>7, <2>2
<1>9. Reduce(Reduce(Between(base \o <<o>>, m))) = Reduce(Between(base \o <<o>>, m))
  BY <1>1, ReduceTwice
<1>10. Push(base \o <<a, v>>, m, b) = Push(base, m, o)
  BY <1>5, <1>8, <1>9 DEF Push
<1> QED
  BY <1>10 DEF a, b, o

(* An object with its last member becomes an object, the member kept.        *)
LEMMA WholeObjectPush ==
  ASSUME NEW base \in Seq(Lexeme), NEW m \in Seq(Member), NEW k \in Lexeme, k.kind = 256,
         NEW v \in Lexeme, v.kind \in 256 .. 258
  PROVE  Push(base \o <<Sign(LeftBrace), k, Sign(Colon), v>>, m, Sign(RightBrace)) =
           Push(base, Kept(base, k, v, m), Sign(ObjectToken))
<1> DEFINE a == Sign(LeftBrace)
           b == Sign(RightBrace)
           c == Sign(Colon)
           o == Sign(ObjectToken)
           top == <<a, k, c, v, b>>
           under == <<a, k, c, v>>
           kept == Kept(base, k, v, m)
<1>1. /\ a \in Lexeme /\ a.kind = 123 /\ b \in Lexeme /\ b.kind = 125 /\ o \in Lexeme /\ o.kind = 258
      /\ c \in Lexeme /\ c.kind = 58 /\ v.kind \in AnyValue /\ k.kind = StringToken
      /\ LeftBrace = 123 /\ RightBrace = 125 /\ Colon = 58
  BY SignType, KindsAre
<1>2. o = Item(ObjectToken, <<>>)
  BY DEF Sign
<1> HIDE DEF a, b, c, o
<1>3. /\ under \in Seq(Lexeme) /\ Append(under, b) = top /\ top \in Seq(Lexeme) /\ Len(top) = 5
      /\ top[1] = a /\ top[2] = k /\ top[3] = c /\ top[4] = v /\ top[5] = b /\ <<o>> \in Seq(Lexeme)
  <2>1. under \in Seq(Lexeme) /\ top \in Seq(Lexeme) /\ <<o>> \in Seq(Lexeme)
    BY <1>1, TupleTypes
  <2>2. Append(under, b) = top
    BY <1>1, AppendToFour
  <2>3. Len(top) = 5 /\ top[1] = a /\ top[2] = k /\ top[3] = c /\ top[4] = v /\ top[5] = b
    BY TupleItems
  <2> QED
    BY <2>1, <2>2, <2>3
<1>4. Matches(top, WholeObject)
  <2> HIDE DEF top
  <2> QED
    BY <1>1, <1>3 DEF Matches, WholeObject
<1>5. Append(base \o under, b) = base \o top /\ Append(base, o) = base \o <<o>>
  <2> HIDE DEF under, top
  <2>0. under \in Seq(Lexeme) /\ b \in Lexeme /\ o \in Lexeme
    BY <1>1, <1>3
  <2>1. Append(base \o under, b) = base \o Append(under, b) /\ Append(base, o) = base \o <<o>>
    BY <2>0, AppendTop
  <2> QED
    BY <1>3, <2>1
<1>6. Becomes(top, WholeObject) = <<o>>
  BY <1>1, <1>2, <1>3, RulesAre DEF Becomes
<1>7. Recorded(base, top, m) = kept /\ kept \in Seq(Member)
  <2>1. Recorded(base, top, m) = kept
    BY <1>3 DEF Recorded, Kept
  <2> QED
    BY <2>1, KeptType
<1> HIDE DEF top, under, kept
<1>8. Reduce(Between(base \o top, m)) = Between(base \o <<o>>, kept)
  <2>1. WholeObject \in Rules
    BY RulesAre
  <2>2. Reduce(Between(base \o top, m)) =
          Between(base \o Becomes(top, WholeObject), Recorded(base, top, m))
    BY <1>3, <1>4, <2>1, ReduceTop
  <2> QED
    BY <1>6, <1>7, <2>2
<1>9. Reduce(Reduce(Between(base \o <<o>>, kept))) = Reduce(Between(base \o <<o>>, kept))
  BY <1>1, <1>7, ReduceTwice
<1>10. Push(base \o under, m, b) = Push(base, kept, o)
  BY <1>5, <1>8, <1>9 DEF Push
<1> QED
  BY <1>10 DEF a, b, c, o, under, kept

(* Of two elements the first goes.                                           *)
LEMMA NextElementPush ==
  ASSUME NEW base \in Seq(Lexeme), NEW m \in Seq(Member), NEW v \in Lexeme, v.kind \in 256 .. 258,
         NEW w \in Lexeme, w.kind \in 256 .. 258
  PROVE  Push(base \o <<Sign(LeftBracket), v, Sign(Comma)>>, m, w) =
           Between(base \o <<Sign(LeftBracket), w>>, m)
<1> DEFINE a == Sign(LeftBracket)
           c == Sign(Comma)
           under == <<a, v, c>>
           top == <<a, v, c, w>>
           pair == <<a, w>>
<1>1. /\ a \in Lexeme /\ a.kind = 91 /\ c \in Lexeme /\ c.kind = 44 /\ v.kind \in AnyValue
      /\ w.kind \in AnyValue /\ LeftBracket = 91 /\ Comma = 44
  BY SignType, KindsAre
<1> HIDE DEF a, c
<1>2. /\ under \in Seq(Lexeme) /\ Append(under, w) = top /\ top \in Seq(Lexeme) /\ Len(top) = 4
      /\ top[1] = a /\ top[2] = v /\ top[3] = c /\ top[4] = w
  <2>1. under \in Seq(Lexeme) /\ top \in Seq(Lexeme)
    BY <1>1, TupleTypes
  <2>2. Append(under, w) = top
    BY <1>1, AppendToThree
  <2>3. Len(top) = 4 /\ top[1] = a /\ top[2] = v /\ top[3] = c /\ top[4] = w
    BY TupleItems
  <2> QED
    BY <2>1, <2>2, <2>3
<1>3. Matches(top, NextElement)
  <2> HIDE DEF top
  <2> QED
    BY <1>1, <1>2 DEF Matches, NextElement
<1>4. Append(base \o under, w) = base \o top
  <2> HIDE DEF under, top
  <2>0. under \in Seq(Lexeme)
    BY <1>2
  <2>1. Append(base \o under, w) = base \o Append(under, w)
    BY <2>0, AppendTop
  <2> QED
    BY <1>2, <2>1
<1>5. Becomes(top, NextElement) = pair /\ Recorded(base, top, m) = m
  BY <1>1, <1>2, RulesAre DEF Becomes, Recorded
<1>6. pair \in Seq(Lexeme) /\ Len(pair) = 2 /\ pair[1] = a /\ pair[2] = w
  BY <1>1
<1> HIDE DEF top, under, pair
<1>7. Reduce(Between(base \o top, m)) = Between(base \o pair, m)
  <2>1. NextElement \in Rules
    BY RulesAre
  <2>2. Reduce(Between(base \o top, m)) =
          Between(base \o Becomes(top, NextElement), Recorded(base, top, m))
    BY <1>2, <1>3, <2>1, ReduceTop
  <2> QED
    BY <1>5, <2>2
<1>8. Reduce(Between(base \o pair, m)) = Between(base \o pair, m)
  BY <1>1, <1>6, QuietPair
<1>9. Push(base \o under, m, w) = Between(base \o pair, m)
  BY <1>4, <1>7, <1>8 DEF Push
<1> QED
  BY <1>9 DEF a, c, under, pair

(* Of a member and the next key the member goes, kept outermost.             *)
LEMMA NextMemberPush ==
  ASSUME NEW base \in Seq(Lexeme), NEW m \in Seq(Member), NEW k \in Lexeme, k.kind = 256,
         NEW v \in Lexeme, v.kind \in 256 .. 258, NEW w \in Lexeme, w.kind = 256
  PROVE  Push(base \o <<Sign(LeftBrace), k, Sign(Colon), v, Sign(Comma)>>, m, w) =
           Between(base \o <<Sign(LeftBrace), w>>, Kept(base, k, v, m))
<1> DEFINE a == Sign(LeftBrace)
           b == Sign(Colon)
           c == Sign(Comma)
           under == <<a, k, b, v, c>>
           top == <<a, k, b, v, c, w>>
           pair == <<a, w>>
           kept == Kept(base, k, v, m)
<1>1. /\ a \in Lexeme /\ a.kind = 123 /\ c \in Lexeme /\ c.kind = 44 /\ v.kind \in AnyValue
      /\ b \in Lexeme /\ b.kind = 58 /\ w.kind = StringToken /\ k.kind = StringToken
      /\ LeftBrace = 123 /\ Comma = 44 /\ Colon = 58
  BY SignType, KindsAre
<1> HIDE DEF a, b, c
<1>2. /\ under \in Seq(Lexeme) /\ Append(under, w) = top /\ top \in Seq(Lexeme) /\ Len(top) = 6
      /\ top[1] = a /\ top[2] = k /\ top[3] = b /\ top[4] = v /\ top[5] = c /\ top[6] = w
  <2>1. under \in Seq(Lexeme) /\ top \in Seq(Lexeme)
    BY <1>1, TupleTypes
  <2>2. Append(under, w) = top
    BY <1>1, AppendToFive
  <2>3. Len(top) = 6 /\ top[1] = a /\ top[2] = k /\ top[3] = b /\ top[4] = v /\ top[5] = c /\ top[6] = w
    BY TupleItems
  <2> QED
    BY <2>1, <2>2, <2>3
<1>3. Matches(top, NextMember)
  <2> HIDE DEF top
  <2> QED
    BY <1>1, <1>2 DEF Matches, NextMember
<1>4. Append(base \o under, w) = base \o top
  <2> HIDE DEF under, top
  <2>0. under \in Seq(Lexeme)
    BY <1>2
  <2>1. Append(base \o under, w) = base \o Append(under, w)
    BY <2>0, AppendTop
  <2> QED
    BY <1>2, <2>1
<1>5. Becomes(top, NextMember) = pair /\ Recorded(base, top, m) = kept /\ kept \in Seq(Member)
  <2>1. Recorded(base, top, m) = kept
    BY <1>2 DEF Recorded, Kept
  <2>2. kept \in Seq(Member)
    BY KeptType
  <2>3. Becomes(top, NextMember) = pair
    BY <1>2, RulesAre DEF Becomes
  <2> QED
    BY <2>1, <2>2, <2>3
<1>6. pair \in Seq(Lexeme) /\ Len(pair) = 2 /\ pair[1] = a /\ pair[2] = w
  BY <1>1
<1> HIDE DEF top, under, pair, kept
<1>7. Reduce(Between(base \o top, m)) = Between(base \o pair, kept)
  <2>1. NextMember \in Rules
    BY RulesAre
  <2>2. Reduce(Between(base \o top, m)) =
          Between(base \o Becomes(top, NextMember), Recorded(base, top, m))
    BY <1>2, <1>3, <2>1, ReduceTop
  <2> QED
    BY <1>5, <2>2
<1>8. Reduce(Between(base \o pair, kept)) = Between(base \o pair, kept)
  BY <1>1, <1>5, <1>6, QuietPair
<1>9. Push(base \o under, m, w) = Between(base \o pair, kept)
  BY <1>4, <1>7, <1>8 DEF Push
<1> QED
  BY <1>9 DEF a, b, c, under, pair, kept

-----------------------------------------------------------------------------
(* What a byte makes of a reading.                                           *)

(* The readings, by their parts.                                             *)
LEMMA InType ==
  /\ \A mode \in Modes \ {"between", "unicode"}, x \in Seq(Byte), s \in Seq(Lexeme), m \in Seq(Member) :
       In(mode, x, 0, s, m) \in Readings
  /\ \A l \in Int, x \in Seq(Byte), s \in Seq(Lexeme), m \in Seq(Member) :
       In("unicode", x, l, s, m) \in Readings
  /\ \A r \in Readings :
       /\ r = In(r.mode, r.text, r.left, r.stack, r.members)
       /\ r.mode \in Modes /\ r.text \in Seq(Byte) /\ r.left \in Int /\ r.stack \in Seq(Lexeme)
       /\ r.members \in Seq(Member) /\ (r.mode # "unicode" => r.left = 0)
       /\ (r.mode = "between" => r.text = <<>>)
  /\ \A mode, x, l, s, m :
       LET r == In(mode, x, l, s, m)
       IN r.mode = mode /\ r.text = x /\ r.left = l /\ r.stack = s /\ r.members = m
<1> DEFINE Stacks == Seq(Lexeme)
           Lists == Seq(Member)
           Texts == Seq(Byte)
           Raw == [mode : Modes, text : Texts, left : Int, stack : Stacks, members : Lists]
<1>1. Readings = {r \in Raw : (r.mode # "unicode" => r.left = 0) /\ (r.mode = "between" => r.text = <<>>)}
  BY DEF Readings
<1> HIDE DEF Stacks, Lists, Texts
<1>2. \A mode \in Modes, x \in Texts, l \in Int, s \in Stacks, m \in Lists :
        In(mode, x, l, s, m) \in Raw
  BY DEF In
<1>3. \A mode, x, l, s, m :
        LET r == In(mode, x, l, s, m)
        IN r.mode = mode /\ r.text = x /\ r.left = l /\ r.stack = s /\ r.members = m
  BY DEF In
<1>4. \A r \in Raw :
        /\ r = In(r.mode, r.text, r.left, r.stack, r.members)
        /\ r.mode \in Modes /\ r.text \in Texts /\ r.left \in Int /\ r.stack \in Stacks
        /\ r.members \in Lists
  BY DEF In
<1> HIDE DEF Raw
<1>5. \A mode \in Modes \ {"between", "unicode"}, x \in Texts, s \in Stacks, m \in Lists :
        In(mode, x, 0, s, m) \in Readings
  BY <1>1, <1>2, <1>3
<1>6. \A l \in Int, x \in Texts, s \in Stacks, m \in Lists : In("unicode", x, l, s, m) \in Readings
  BY <1>1, <1>2, <1>3 DEF Modes
<1>7. \A r \in Readings :
        /\ r = In(r.mode, r.text, r.left, r.stack, r.members)
        /\ r.mode \in Modes /\ r.text \in Texts /\ r.left \in Int /\ r.stack \in Stacks
        /\ r.members \in Lists /\ (r.mode # "unicode" => r.left = 0)
        /\ (r.mode = "between" => r.text = <<>>)
  BY <1>1, <1>4
<1> QED
  BY <1>3, <1>5, <1>6, <1>7 DEF Stacks, Lists, Texts

(* A reading with some of its fields replaced.                               *)
WithText(r, text) == [r EXCEPT !.text = text]
WithMode(r, mode) == [r EXCEPT !.mode = mode]
WithLeft(r, left) == [r EXCEPT !.left = left]
WithStack(r, stack) == [r EXCEPT !.stack = stack]

(* One part of a reading changed.                                            *)
LEMMA WithIs ==
  /\ \A mode, x, l, s, m, y : WithText(In(mode, x, l, s, m), y) = In(mode, y, l, s, m)
  /\ \A mode, x, l, s, m, y : WithMode(In(mode, x, l, s, m), y) = In(y, x, l, s, m)
  /\ \A mode, x, l, s, m, y : WithLeft(In(mode, x, l, s, m), y) = In(mode, x, y, s, m)
  /\ \A mode, x, l, s, m, y : WithStack(In(mode, x, l, s, m), y) = In(mode, x, l, y, m)
<1>1. ASSUME NEW mode, NEW x, NEW l, NEW s, NEW m, NEW y
      PROVE  WithText(In(mode, x, l, s, m), y) = In(mode, y, l, s, m)
  BY DEF In, WithText
<1>2. ASSUME NEW mode, NEW x, NEW l, NEW s, NEW m, NEW y
      PROVE  WithMode(In(mode, x, l, s, m), y) = In(y, x, l, s, m)
  BY DEF In, WithMode
<1>3. ASSUME NEW mode, NEW x, NEW l, NEW s, NEW m, NEW y
      PROVE  WithLeft(In(mode, x, l, s, m), y) = In(mode, x, y, s, m)
  BY DEF In, WithLeft
<1>4. ASSUME NEW mode, NEW x, NEW l, NEW s, NEW m, NEW y
      PROVE  WithStack(In(mode, x, l, s, m), y) = In(mode, x, l, y, m)
  BY DEF In, WithStack
<1> QED
  BY <1>1, <1>2, <1>3, <1>4

Added(r, bytes, mode) == [r EXCEPT !.text = @ \o bytes, !.mode = mode]

(* Bytes added to the text of a reading.                                     *)
LEMMA AddsIs ==
  ASSUME NEW mode, NEW x, NEW l, NEW s, NEW m, NEW bytes, NEW next
  PROVE  Added(In(mode, x, l, s, m), bytes, next) = In(next, x \o bytes, l, s, m)
<1> DEFINE r == In(mode, x, l, s, m)
           y == x \o bytes
<1>1. r.text = x
  BY DEF In
<1>2. WithMode(WithText(r, y), next) = In(next, y, l, s, m)
  BY WithIs
<1> HIDE DEF r
<1>3. Added(r, bytes, next) = [r EXCEPT !.text = y, !.mode = next]
  BY <1>1 DEF Added
<1> HIDE DEF y
<1>4. [r EXCEPT !.text = y, !.mode = next] = WithMode(WithText(r, y), next)
  BY DEF WithMode, WithText
<1>5. Added(r, bytes, next) = In(next, y, l, s, m)
  BY <1>2, <1>3, <1>4
<1> QED
  BY <1>5 DEF r, y

(* Shift, for one reading.                                                   *)
LEMMA ShiftOne ==
  ASSUME NEW mode, NEW x, NEW s, NEW m, NEW t
  PROVE  Shift({In(mode, x, 0, s, m)}, t) = {Push(s, m, t)}
<1> DEFINE r == In(mode, x, 0, s, m)
           pushed == [r EXCEPT !.stack = Append(@, t), !.mode = "between", !.text = <<>>]
<1>1. pushed = Between(Append(s, t), m)
  <2>1. r.stack = s
    BY DEF In
  <2>2. WithText(WithMode(WithStack(r, Append(s, t)), "between"), <<>>) = Between(Append(s, t), m)
    BY WithIs DEF Between
  <2> HIDE DEF r
  <2>3. pushed = [r EXCEPT !.stack = Append(s, t), !.mode = "between", !.text = <<>>]
    BY <2>1
  <2>4. [r EXCEPT !.stack = Append(s, t), !.mode = "between", !.text = <<>>] =
          WithText(WithMode(WithStack(r, Append(s, t)), "between"), <<>>)
    BY DEF WithText, WithMode, WithStack
  <2> QED
    BY <2>2, <2>3, <2>4
<1> HIDE DEF pushed
<1>2. Shift({r}, t) = Reduced(Reduced({pushed}))
  <2>1. {[q EXCEPT !.stack = Append(@, t), !.mode = "between", !.text = <<>>] : q \in {r}} = {pushed}
    BY DEF pushed
  <2> QED
    BY <2>1 DEF Shift
<1>3. \A q : Reduced({q}) = {Reduce(q)}
  BY DEF Reduced
<1> QED
  BY <1>1, <1>2, <1>3 DEF Push

(* The grammar's own spaces and escapes are the scanner's.                   *)
LEMMA DialectBytes ==
  /\ JsonSpace \cup ToleratedSpace = Space
  /\ \A c : {e \in Escaped : e[1] = c} =
             IF c \in DOMAIN Escapes THEN {<<c, Escapes[c]>>} ELSE {}
  /\ LetterU \notin DOMAIN Escapes
<1>1. JsonSpace \cup ToleratedSpace = Space
  BY DEF JsonSpace, ToleratedSpace, Space
<1>2. /\ DOMAIN Escapes = {34, 92, 47, 98, 102, 110, 114, 116}
      /\ Escapes[34] = 34 /\ Escapes[92] = 92 /\ Escapes[47] = 47
      /\ Escapes[98] = 8 /\ Escapes[102] = 12 /\ Escapes[110] = 10
      /\ Escapes[114] = 13 /\ Escapes[116] = 9
  BY DEF Escapes, Quote, Backslash
<1>3. ASSUME NEW c
      PROVE  {e \in Escaped : e[1] = c} =
               IF c \in DOMAIN Escapes THEN {<<c, Escapes[c]>>} ELSE {}
  BY <1>2 DEF Escaped
<1>4. LetterU \notin DOMAIN Escapes
  BY <1>2 DEF LetterU
<1> QED
  BY <1>1, <1>3, <1>4

(* A beginning of a text.                                                    *)
LEMMA Beginning ==
  ASSUME NEW x \in Seq(Byte), NEW n \in 0 .. Len(x)
  PROVE  /\ SubSeq(x, 1, n) \in Seq(Byte) /\ Len(SubSeq(x, 1, n)) = n
         /\ \A k \in 1 .. n : SubSeq(x, 1, n)[k] = x[k]
         /\ n = Len(x) => SubSeq(x, 1, n) = x
<1>1. /\ SubSeq(x, 1, n) \in Seq(Byte) /\ Len(SubSeq(x, 1, n)) = n
      /\ \A k \in 1 .. n : SubSeq(x, 1, n)[k] = x[k]
  BY SubSeqProperties
<1> QED
  BY <1>1, SeqEqual

(* A number begins with a digit or with its sign.                            *)
LEMMA NumberBegins ==
  ASSUME NEW y \in Seq(Byte), JsonNumber(y)
  PROVE  y # <<>> /\ (y[1] = Minus \/ y[1] \in JsonDigit)
<1>1. PICK a, b, c \in 0 .. Len(y) :
        /\ a <= b /\ SubSeq(y, 1, a) \in {<<>>, <<Minus>>} /\ AllDigits(SubSeq(y, a + 1, b))
  BY Zenon DEF JsonNumber
<1>2. a < b
  <2>1. ~ a < b => SubSeq(y, a + 1, b) = <<>>
    <3>1. ~ a < b => a + 1 > b
      OBVIOUS
    <3>2. a + 1 > b => Len(SubSeq(y, a + 1, b)) = 0
      OBVIOUS
    <3> QED
      BY <3>1, <3>2, EmptySeq
  <2> QED
    BY <1>1, <2>1 DEF AllDigits
<1>3. CASE a = 0
  <2> DEFINE i == SubSeq(y, 1, b)
  <2>1. a + 1 = 1 /\ b \in 0 .. Len(y) /\ 1 \in 1 .. b /\ Len(y) # 0
    BY <1>2, <1>3
  <2>2. Len(i) = b /\ i \in Seq(Byte) /\ i[1] = y[1]
    BY <2>1, Beginning
  <2>3. AllDigits(i)
    BY <1>1, <2>1
  <2> HIDE DEF i
  <2>4. 1 \in DOMAIN i
    BY <2>1, <2>2
  <2> QED
    BY <2>1, <2>2, <2>3, <2>4, EmptySeq DEF AllDigits
<1>4. CASE a > 0
  <2> DEFINE t == SubSeq(y, 1, a)
  <2>1. a \in 0 .. Len(y) /\ 1 \in 1 .. a /\ Len(y) # 0
    BY <1>2, <1>4
  <2>2. Len(t) = a /\ t[1] = y[1] /\ t \in {<<>>, <<Minus>>}
    BY <1>1, <2>1, Beginning
  <2> HIDE DEF t
  <2>3. t = <<Minus>>
    BY <1>4, <2>2, EmptySeq
  <2>4. <<Minus>>[1] = Minus
    OBVIOUS
  <2> QED
    BY <2>1, <2>2, <2>3, <2>4, EmptySeq
<1> QED
  BY <1>3, <1>4

(* The grammar's own literals are the scanner's.                             *)
LEMMA DialectLiterals ==
  ASSUME NEW x \in Seq(Byte)
  PROVE  DialectLiteral(x) <=> IsLiteral(x)
<1>1. JsonDigit = Digits /\ JsonWords = Words
  BY DEF JsonDigit, Digits, JsonWords, Words
<1>2. IsLiteral(x) <=> x \in JsonWords \/ ToleratedLiteral(x)
  BY <1>1 DEF IsLiteral, ToleratedLiteral
<1>3. \A w \in JsonWords : /\ w \in Seq(Byte) /\ w # <<>> /\ w[1] \in {116, 102, 110}
                          /\ Len(w) = IF w[1] = 102 THEN 5 ELSE 4
  <2> DEFINE Spelled(w) == /\ w \in Seq(Byte) /\ w # <<>> /\ w[1] \in {116, 102, 110}
                          /\ Len(w) = IF w[1] = 102 THEN 5 ELSE 4
  <2>1. Spelled(<<116, 114, 117, 101>>)
    BY DEF Byte
  <2>2. Spelled(<<102, 97, 108, 115, 101>>)
    BY DEF Byte
  <2>3. Spelled(<<110, 117, 108, 108>>)
    BY DEF Byte
  <2> HIDE DEF Spelled
  <2>4. \A w \in JsonWords : Spelled(w)
    BY <2>1, <2>2, <2>3 DEF JsonWords
  <2> QED
    BY <2>4 DEF Spelled
<1>4. ASSUME x \in JsonWords
      PROVE  JsonLiteral(x) /\ ~ RefusedLiteral(x)
  <2>1. JsonLiteral(x)
    <3>1. Len(x) \in 0 .. Len(x) /\ Len(x) + 1 .. Len(x) = {}
      OBVIOUS
    <3>2. SubSeq(x, 1, Len(x)) = x
      BY <3>1, Beginning
    <3> QED
      BY <1>4, <3>1, <3>2 DEF JsonLiteral
  <2>2. x[1] # Minus
    BY <1>3, <1>4 DEF Minus
  <2>3. ASSUME NEW w \in JsonWords, Len(w) < Len(x), SubSeq(x, 1, Len(w)) = w
        PROVE  FALSE
    <3>1. Len(w) \in 0 .. Len(x) /\ 1 \in 1 .. Len(w)
      BY <1>3, <2>3
    <3>2. w[1] = x[1]
      BY <2>3, <3>1, Beginning
    <3> QED
      BY <1>3, <1>4, <2>3, <3>2
  <2> QED
    BY <2>1, <2>2, <2>3 DEF RefusedLiteral
<1>5. ASSUME JsonLiteral(x), ~ RefusedLiteral(x), ~ ToleratedLiteral(x)
      PROVE  x \in JsonWords
  <2>1. PICK n \in 0 .. Len(x) : SubSeq(x, 1, n) \in JsonWords \/ JsonNumber(SubSeq(x, 1, n))
    BY <1>5 DEF JsonLiteral
  <2> DEFINE y == SubSeq(x, 1, n)
  <2>2. /\ y \in Seq(Byte) /\ Len(y) = n /\ (n >= 1 => y[1] = x[1]) /\ (n = Len(x) => y = x)
    BY Beginning
  <2> HIDE DEF y
  <2>3. CASE y \in JsonWords
    <3>1. ~ (Len(y) < Len(x))
      BY <1>5, <2>2, <2>3 DEF RefusedLiteral, y
    <3>2. n = Len(x)
      BY <2>2, <3>1
    <3> QED
      BY <2>2, <2>3, <3>2
  <2>4. CASE JsonNumber(y)
    <3>1. y # <<>> /\ (y[1] = Minus \/ y[1] \in JsonDigit)
      BY <2>2, <2>4, NumberBegins
    <3>2. n >= 1 /\ x # <<>> /\ x[1] = y[1]
      <4>1. n >= 1
        BY <2>2, <3>1, EmptySeq
      <4> QED
        BY <2>2, <4>1
    <3> QED
      BY <1>5, <3>1, <3>2 DEF RefusedLiteral, ToleratedLiteral
  <2> QED
    BY <2>1, <2>3, <2>4 DEF y
<1> QED
  BY <1>2, <1>4, <1>5 DEF DialectLiteral

(* A byte between tokens.                                                    *)
LEMMA ReadBetween ==
  ASSUME NEW s, NEW m, NEW b \in Byte
  PROVE  Read(Between(s, m), b) =
           IF b \in Space THEN {Between(s, m)}
           ELSE IF b \in Structure THEN {Push(s, m, Sign(b))}
           ELSE IF b = Quote THEN {In("string", <<>>, 0, s, m)}
           ELSE {In("literal", <<b>>, 0, s, m)}
<1> DEFINE r == Between(s, m)
<1>1. r.mode = "between"
  BY DEF Between, In
<1>2. [r EXCEPT !.text = @ \o <<>>, !.mode = "string"] = In("string", <<>>, 0, s, m)
  <2>1. <<>> \o <<>> = <<>>
    BY ConcatEmptySeq, EmptySeq
  <2>2. \A y, e : Added(In("between", y, 0, s, m), e, "string") = In("string", y \o e, 0, s, m)
    BY AddsIs
  <2>3. Added(r, <<>>, "string") = In("string", <<>>, 0, s, m)
    BY <2>1, <2>2 DEF Between
  <2> QED
    BY <2>3 DEF Added
<1>3. [r EXCEPT !.text = @ \o <<b>>, !.mode = "literal"] = In("literal", <<b>>, 0, s, m)
  <2>1. <<>> \o <<b>> = <<b>>
    BY ConcatEmptySeq
  <2>2. \A y, e : Added(In("between", y, 0, s, m), e, "literal") = In("literal", y \o e, 0, s, m)
    BY AddsIs
  <2>3. Added(r, <<b>>, "literal") = In("literal", <<b>>, 0, s, m)
    BY <2>1, <2>2 DEF Between
  <2> QED
    BY <2>3 DEF Added
<1>4. Shift({r}, Item(b, <<>>)) = {Push(s, m, Sign(b))}
  BY ShiftOne DEF Between, Sign
<1>5. Read(r, b) =
        IF b \in Space THEN {r}
        ELSE IF b \in Structure THEN Shift({r}, Item(b, <<>>))
        ELSE IF b = Quote THEN {[r EXCEPT !.text = @ \o <<>>, !.mode = "string"]}
        ELSE {[r EXCEPT !.text = @ \o <<b>>, !.mode = "literal"]}
  BY <1>1, DialectBytes DEF Read
<1> HIDE DEF r
<1> QED
  BY <1>2, <1>3, <1>4, <1>5 DEF r

(* A token read behind a literal.                                            *)
Shifted(x, s, m, t) == Shift({In("literal", x, 0, s, m)}, t) = {Push(s, m, t)}

(* Shift, behind a literal.                                                  *)
LEMMA ShiftLiteral == \A x, s, m, t : Shifted(x, s, m, t)
<1> TAKE x, s, m, t
<1> QED
  BY ShiftOne DEF Shifted

(* A byte of a literal.                                                      *)
LiteralByte(s, m, x, b) ==
  Read(In("literal", x, 0, s, m), b) =
    IF b \notin {Comma, RightBrace, RightBracket} THEN {In("literal", x \o <<b>>, 0, s, m)}
    ELSE IF IsLiteral(x) THEN Read(Push(s, m, Item(ValueToken, x)), b)
    ELSE {}

(* Such a byte ends the literal or lengthens it.                             *)
LEMMA ReadLiteral ==
  ASSUME NEW s \in Seq(Lexeme), NEW m \in Seq(Member), NEW x \in Seq(Byte), NEW b \in Byte
  PROVE  LiteralByte(s, m, x, b)
<1> DEFINE r == In("literal", x, 0, s, m)
           v == Item(ValueToken, x)
<1>1. r.mode = "literal" /\ r.text = x
  BY DEF In
<1>2. [r EXCEPT !.text = @ \o <<b>>, !.mode = "literal"] = In("literal", x \o <<b>>, 0, s, m)
  <2>1. Added(r, <<b>>, "literal") = In("literal", x \o <<b>>, 0, s, m)
    BY AddsIs
  <2> QED
    BY <2>1 DEF Added
<1>3. v \in Lexeme
  BY DEF Item, Lexeme, AnyValue
<1>4. PICK s2 \in Seq(Lexeme), m2 \in Seq(Member) : Push(s, m, v) = Between(s2, m2)
  BY <1>3, PushType
<1>5. Shift({r}, v) = {Between(s2, m2)}
  <2> HIDE DEF v
  <2>1. Shift({r}, v) = {Push(s, m, v)}
    <3>1. Shifted(x, s, m, v)
      BY ShiftLiteral
    <3> QED
      BY <3>1 DEF Shifted
  <2> QED
    BY <1>4, <2>1
<1>6. Shift({Between(s2, m2)}, Item(b, <<>>)) = {Push(s2, m2, Sign(b))}
  BY ShiftOne DEF Between, Sign
<1>7. b \in {Comma, RightBrace, RightBracket} => b \in Structure /\ b \notin Space
  BY KindsAre DEF Space
<1>8. b \in {Comma, RightBrace, RightBracket} => Read(Push(s, m, v), b) = {Push(s2, m2, Sign(b))}
  BY <1>4, <1>7, ReadBetween
<1>9. Read(r, b) =
        IF b \notin {Comma, RightBrace, RightBracket}
        THEN {[r EXCEPT !.text = @ \o <<b>>, !.mode = "literal"]}
        ELSE IF IsLiteral(x) THEN Shift(Shift({r}, v), Item(b, <<>>)) ELSE {}
  <2>1. DialectLiteral(x) <=> IsLiteral(x)
    BY DialectLiterals
  <2> QED
    BY <1>1, <2>1 DEF Read, EndLiteral, Delimiter
<1> HIDE DEF r, v
<1> QED
  BY <1>2, <1>5, <1>6, <1>8, <1>9 DEF r, v, LiteralByte

(* A byte of a string.                                                       *)
StringByte(s, m, x, b) ==
  Read(In("string", x, 0, s, m), b) =
    IF b = Quote THEN {Push(s, m, Item(StringToken, x))}
    ELSE IF b < 32 THEN {}
    ELSE IF b = Backslash THEN {In("escape", x, 0, s, m)}
    ELSE {In("string", x \o <<b>>, 0, s, m)}

(* Such a byte ends the string, lengthens it, or fails.                      *)
LEMMA ReadString ==
  ASSUME NEW s, NEW m, NEW x \in Seq(Byte), NEW b \in Byte
  PROVE  StringByte(s, m, x, b)
<1> DEFINE r == In("string", x, 0, s, m)
<1>1. r.mode = "string" /\ r.text = x
  BY DEF In
<1>2. [r EXCEPT !.text = @ \o <<>>, !.mode = "escape"] = In("escape", x, 0, s, m)
  <2>1. x \o <<>> = x
    BY ConcatEmptySeq
  <2>2. \A y, e : Added(In("string", y, 0, s, m), e, "escape") = In("escape", y \o e, 0, s, m)
    BY AddsIs
  <2>3. Added(r, <<>>, "escape") = In("escape", x, 0, s, m)
    BY <2>1, <2>2 DEF Between
  <2> QED
    BY <2>3 DEF Added
<1>3. [r EXCEPT !.text = @ \o <<b>>, !.mode = "string"] = In("string", x \o <<b>>, 0, s, m)
  <2>1. Added(r, <<b>>, "string") = In("string", x \o <<b>>, 0, s, m)
    BY AddsIs
  <2> QED
    BY <2>1 DEF Added
<1>4. Shift({r}, Item(StringToken, x)) = {Push(s, m, Item(StringToken, x))}
  BY ShiftOne
<1>5. Read(r, b) =
        IF b = Quote THEN Shift({r}, Item(StringToken, x))
        ELSE IF b < 32 THEN {}
        ELSE IF b = Backslash THEN {[r EXCEPT !.text = @ \o <<>>, !.mode = "escape"]}
        ELSE {[r EXCEPT !.text = @ \o <<b>>, !.mode = "string"]}
  BY <1>1 DEF Read
<1> HIDE DEF r
<1> QED
  BY <1>2, <1>3, <1>4, <1>5 DEF r, StringByte

(* A byte behind a backslash, and those behind \u.                           *)
EscapeByte(s, m, x, b) ==
  Read(In("escape", x, 0, s, m), b) =
    IF b \in DOMAIN Escapes THEN {In("string", x \o <<Escapes[b]>>, 0, s, m)}
    ELSE IF b = LetterU THEN {In("unicode", x \o <<Backslash, LetterU>>, 4, s, m)}
    ELSE {}

(* Such a byte is an escape, or fails.                                       *)
LEMMA ReadEscape ==
  ASSUME NEW s, NEW m, NEW x \in Seq(Byte), NEW b \in Byte
  PROVE  EscapeByte(s, m, x, b)
<1> DEFINE r == In("escape", x, 0, s, m)
           u == [r EXCEPT !.text = @ \o <<Backslash, LetterU>>, !.mode = "unicode"]
<1>1. r.mode = "escape"
  BY DEF In
<1>2. [r EXCEPT !.text = @ \o <<Escapes[b]>>, !.mode = "string"] =
        In("string", x \o <<Escapes[b]>>, 0, s, m)
  <2>1. Added(r, <<Escapes[b]>>, "string") = In("string", x \o <<Escapes[b]>>, 0, s, m)
    BY AddsIs
  <2> QED
    BY <2>1 DEF Added
<1>3. [u EXCEPT !.left = 4] = In("unicode", x \o <<Backslash, LetterU>>, 4, s, m)
  <2>1. u = In("unicode", x \o <<Backslash, LetterU>>, 0, s, m)
    <3>1. Added(r, <<Backslash, LetterU>>, "unicode") =
            In("unicode", x \o <<Backslash, LetterU>>, 0, s, m)
      BY AddsIs
    <3> QED
      BY <3>1 DEF Added
  <2> HIDE DEF u
  <2>2. WithLeft(u, 4) = In("unicode", x \o <<Backslash, LetterU>>, 4, s, m)
    BY <2>1, WithIs
  <2> QED
    BY <2>2 DEF WithLeft
<1> HIDE DEF u
<1>4. {[q EXCEPT !.left = 4] : q \in {u}} = {[u EXCEPT !.left = 4]}
  OBVIOUS
<1>5. Read(r, b) =
        IF b \in DOMAIN Escapes THEN {[r EXCEPT !.text = @ \o <<Escapes[b]>>, !.mode = "string"]}
        ELSE IF b = LetterU THEN {[q EXCEPT !.left = 4] : q \in {u}}
        ELSE {}
  <2> DEFINE chosen == {e \in Escaped : e[1] = b}
             Adds(e) == {[r EXCEPT !.text = @ \o <<e[2]>>, !.mode = "string"]}
  <2>1. Read(r, b) = IF b = LetterU THEN {[q EXCEPT !.left = 4] : q \in {u}}
                     ELSE UNION {Adds(e) : e \in chosen}
    BY <1>1 DEF Read, u
  <2>2. /\ chosen = IF b \in DOMAIN Escapes THEN {<<b, Escapes[b]>>} ELSE {}
        /\ LetterU \notin DOMAIN Escapes
    BY DialectBytes
  <2> HIDE DEF chosen, r
  <2>3. b \in DOMAIN Escapes =>
          UNION {Adds(e) : e \in chosen} = {[r EXCEPT !.text = @ \o <<Escapes[b]>>, !.mode = "string"]}
    <3> DEFINE one == <<b, Escapes[b]>>
    <3>1. one[2] = Escapes[b]
      OBVIOUS
    <3> HIDE DEF one
    <3>2. b \in DOMAIN Escapes => chosen = {one}
      BY <2>2 DEF one
    <3>3. UNION {Adds(e) : e \in {one}} = Adds(one)
      OBVIOUS
    <3>4. Adds(one) = {[r EXCEPT !.text = @ \o <<Escapes[b]>>, !.mode = "string"]}
      BY <3>1
    <3> HIDE DEF Adds
    <3> QED
      BY <3>2, <3>3, <3>4
  <2>4. b \notin DOMAIN Escapes => UNION {Adds(e) : e \in chosen} = {}
    BY <2>2
  <2> HIDE DEF Adds
  <2> QED
    BY <2>1, <2>2, <2>3, <2>4
<1> HIDE DEF r
<1> QED
  BY <1>2, <1>3, <1>4, <1>5 DEF r, EscapeByte

UnicodeByte(s, m, x, b, l) ==
  Read(In("unicode", x, l, s, m), b) =
    IF l = 1 THEN {In("string", x \o <<b>>, 0, s, m)}
    ELSE {In("unicode", x \o <<b>>, l - 1, s, m)}

(* Such a byte is one of the four, whatever it is.                           *)
LEMMA ReadUnicode ==
  ASSUME NEW s, NEW m, NEW x \in Seq(Byte), NEW b \in Byte, NEW l \in Int
  PROVE  UnicodeByte(s, m, x, b, l)
<1> DEFINE r == In("unicode", x, l, s, m)
           u == [r EXCEPT !.text = @ \o <<b>>, !.mode = IF l = 1 THEN "string" ELSE "unicode"]
<1>1. r.mode = "unicode" /\ r.left = l
  BY DEF In
<1>2. u = In(IF l = 1 THEN "string" ELSE "unicode", x \o <<b>>, l, s, m)
  <2>1. Added(r, <<b>>, IF l = 1 THEN "string" ELSE "unicode") =
          In(IF l = 1 THEN "string" ELSE "unicode", x \o <<b>>, l, s, m)
    BY AddsIs
  <2> QED
    BY <2>1 DEF Added
<1> HIDE DEF u
<1>3. [u EXCEPT !.left = @ - 1] = In(IF l = 1 THEN "string" ELSE "unicode", x \o <<b>>, l - 1, s, m)
  <2>1. u.left = l
    BY <1>2 DEF In
  <2>2. WithLeft(u, l - 1) = In(IF l = 1 THEN "string" ELSE "unicode", x \o <<b>>, l - 1, s, m)
    BY <1>2, WithIs
  <2>3. [u EXCEPT !.left = @ - 1] = WithLeft(u, l - 1)
    BY <2>1 DEF WithLeft
  <2> QED
    BY <2>2, <2>3
<1>4. {[q EXCEPT !.left = @ - 1] : q \in {u}} = {[u EXCEPT !.left = @ - 1]}
  OBVIOUS
<1>5. Read(r, b) = {[q EXCEPT !.left = @ - 1] : q \in {u}}
  BY <1>1 DEF Read, u
<1> QED
  BY <1>3, <1>4, <1>5 DEF UnicodeByte

-----------------------------------------------------------------------------
(* What a reading comes to.                                                  *)

(* A byte leaves at most one reading.                                        *)
LEMMA ReadOne ==
  ASSUME NEW r \in Readings, NEW b \in Byte
  PROVE  Read(r, b) = {} \/ \E q \in Readings : Read(r, b) = {q}
<1> DEFINE x == r.text
           s == r.stack
           m == r.members
           One == Read(r, b) = {} \/ \E q \in Readings : Read(r, b) = {q}
<1>1. /\ r = In(r.mode, x, r.left, s, m) /\ r.mode \in Modes /\ x \in Seq(Byte) /\ r.left \in Int
      /\ s \in Seq(Lexeme) /\ m \in Seq(Member)
      /\ (r.mode # "unicode" => r.left = 0) /\ (r.mode = "between" => x = <<>>)
  BY InType
<1> HIDE DEF x, s, m
<1>2. ASSUME NEW y \in Seq(Byte), NEW c \in Byte, NEW d \in Byte
      PROVE  y \o <<c>> \in Seq(Byte) /\ y \o <<c, d>> \in Seq(Byte) /\ <<c>> \in Seq(Byte)
  <2>1. <<c>> \in Seq(Byte) /\ <<c, d>> \in Seq(Byte)
    BY TupleTypes
  <2> QED
    BY <2>1
<1>3. ASSUME NEW t \in Lexeme, NEW s1 \in Seq(Lexeme), NEW m1 \in Seq(Member)
      PROVE  \E q \in Readings : Push(s1, m1, t) = q
  BY PushType, BetweenType
<1>4. ASSUME NEW mode \in Modes \ {"between", "unicode"}, NEW y \in Seq(Byte)
      PROVE  In(mode, y, 0, s, m) \in Readings
  BY <1>1, InType
<1>11. ASSUME NEW l \in Int, NEW y \in Seq(Byte)
       PROVE  In("unicode", y, l, s, m) \in Readings
  BY <1>1, InType
<1>5. ASSUME NEW s1 \in Seq(Lexeme), NEW m1 \in Seq(Member), b \in Structure
      PROVE  \E q \in Readings : Read(Between(s1, m1), b) = {q}
  <2>1. Sign(b) \in Lexeme /\ b \notin Space
    BY <1>5, SignType, KindsAre DEF Space
  <2>2. Read(Between(s1, m1), b) = {Push(s1, m1, Sign(b))}
    BY <1>5, <2>1, ReadBetween
  <2> QED
    BY <1>3, <2>1, <2>2
<1>6. CASE r.mode = "between"
  <2>1. r = Between(s, m)
    BY <1>1, <1>6 DEF Between
  <2>2. CASE b \in Space
    <3>1. Read(r, b) = {r}
      BY <2>1, <2>2, ReadBetween
    <3> QED
      BY <3>1
  <2>3. CASE b \in Structure
    BY <1>1, <1>5, <2>1, <2>3
  <2>4. CASE b \notin Space /\ b \notin Structure
    <3>1. <<>> \in Seq(Byte) /\ <<b>> \in Seq(Byte)
      BY <1>2
    <3>2. In("string", <<>>, 0, s, m) \in Readings /\ In("literal", <<b>>, 0, s, m) \in Readings
      BY <1>4, <3>1 DEF Modes
    <3>3. Read(r, b) = IF b = Quote THEN {In("string", <<>>, 0, s, m)}
                       ELSE {In("literal", <<b>>, 0, s, m)}
      BY <2>1, <2>4, ReadBetween
    <3> QED
      BY <3>2, <3>3
  <2> QED
    BY <2>2, <2>3, <2>4
<1>7. CASE r.mode = "literal"
  <2>1. r = In("literal", x, 0, s, m)
    BY <1>1, <1>7
  <2>2. In("literal", x \o <<b>>, 0, s, m) \in Readings
    BY <1>1, <1>2, <1>4 DEF Modes
  <2> DEFINE v == Item(ValueToken, x)
  <2>3. v \in Lexeme
    BY <1>1 DEF Item, Lexeme, AnyValue
  <2>4. PICK s2 \in Seq(Lexeme), m2 \in Seq(Member) : Push(s, m, v) = Between(s2, m2)
    BY <1>1, <2>3, PushType
  <2>5. b \in {Comma, RightBrace, RightBracket} => b \in Structure
    BY KindsAre
  <2>6. Read(r, b) =
          IF b \notin {Comma, RightBrace, RightBracket} THEN {In("literal", x \o <<b>>, 0, s, m)}
          ELSE IF IsLiteral(x) THEN Read(Push(s, m, v), b)
          ELSE {}
    BY <1>1, <2>1, ReadLiteral DEF LiteralByte
  <2>7. b \in Structure => \E q \in Readings : Read(Push(s, m, v), b) = {q}
    BY <1>5, <2>4
  <2> HIDE DEF v
  <2> QED
    BY <2>2, <2>5, <2>6, <2>7
<1>8. CASE r.mode = "string"
  <2>1. r = In("string", x, 0, s, m)
    BY <1>1, <1>8
  <2> DEFINE t == Item(StringToken, x)
  <2>2. t \in Lexeme
    BY <1>1 DEF Item, Lexeme, AnyValue
  <2>3. In("escape", x, 0, s, m) \in Readings /\ In("string", x \o <<b>>, 0, s, m) \in Readings
    BY <1>1, <1>2, <1>4 DEF Modes
  <2>4. Read(r, b) =
          IF b = Quote THEN {Push(s, m, t)}
          ELSE IF b < 32 THEN {}
          ELSE IF b = Backslash THEN {In("escape", x, 0, s, m)}
          ELSE {In("string", x \o <<b>>, 0, s, m)}
    BY <1>1, <2>1, ReadString DEF StringByte
  <2>5. \E q \in Readings : Push(s, m, t) = q
    BY <1>1, <1>3, <2>2
  <2> HIDE DEF t
  <2> QED
    BY <2>3, <2>4, <2>5
<1>9. CASE r.mode = "escape"
  <2>1. r = In("escape", x, 0, s, m)
    BY <1>1, <1>9
  <2>2. Backslash \in Byte /\ LetterU \in Byte
    BY KindsAre DEF Byte
  <2>3. x \o <<Backslash, LetterU>> \in Seq(Byte)
    BY <1>1, <1>2, <2>2
  <2>4. In("unicode", x \o <<Backslash, LetterU>>, 4, s, m) \in Readings
    <3> DEFINE y == x \o <<Backslash, LetterU>>
    <3>1. y \in Seq(Byte)
      BY <2>3
    <3> HIDE DEF y
    <3>2. \A l \in Int : In("unicode", y, l, s, m) \in Readings
      BY <1>11, <3>1
    <3>3. In("unicode", y, 4, s, m) \in Readings
      BY <3>2
    <3> QED
      BY <3>3 DEF y
  <2>5. b \in DOMAIN Escapes => In("string", x \o <<Escapes[b]>>, 0, s, m) \in Readings
    BY <1>1, <1>2, <1>4, EscapeBytes DEF Modes
  <2>6. Read(r, b) =
           IF b \in DOMAIN Escapes THEN {In("string", x \o <<Escapes[b]>>, 0, s, m)}
           ELSE IF b = LetterU THEN {In("unicode", x \o <<Backslash, LetterU>>, 4, s, m)}
           ELSE {}
    BY <1>1, <2>1, ReadEscape DEF EscapeByte
  <2> QED
    BY <2>4, <2>5, <2>6
<1>10. CASE r.mode = "unicode"
  <2>1. r = In("unicode", x, r.left, s, m)
    BY <1>1, <1>10
  <2>2. PICK l \in Int : l = r.left
    BY <1>1
  <2>3. In("string", x \o <<b>>, 0, s, m) \in Readings /\ In("unicode", x \o <<b>>, l - 1, s, m) \in Readings
    <3>1. x \o <<b>> \in Seq(Byte) /\ l - 1 \in Int
      BY <1>1, <1>2
    <3> QED
      BY <1>4, <1>11, <3>1 DEF Modes
  <2>4. Read(r, b) = IF l = 1 THEN {In("string", x \o <<b>>, 0, s, m)}
                     ELSE {In("unicode", x \o <<b>>, l - 1, s, m)}
    BY <1>1, <2>1, <2>2, ReadUnicode DEF UnicodeByte
  <2> QED
    BY <2>3, <2>4
<1> QED
  BY <1>1, <1>6, <1>7, <1>8, <1>9, <1>10 DEF Modes

(* The ids of a reading at the end of the line, and those it ends with from  *)
(* each place of the line.                                                   *)
IdsIn(r, field) == IF IsObject(r) THEN FieldIds(r.members, field) ELSE {}
Judged(line, field, ids) ==
  /\ \A r \in Readings : ids[Len(line)][r] = IdsIn(r, field)
  /\ \A p \in 0 .. Len(line) - 1 : \A r \in Readings :
       ids[p][r] = UNION {ids[p + 1][q] : q \in Read(r, line[p + 1])}
  /\ \A p \in 0 .. Len(line) : \A r \in Readings :
       ids[p][r] \subseteq Seq(Byte) /\ AtMostOne(ids[p][r])

(* The ids among the members.                                                *)
LEMMA FieldIdsType ==
  ASSUME NEW m \in Seq(Member), NEW field
  PROVE  FieldIds(m, field) \subseteq Seq(Byte) /\ AtMostOne(FieldIds(m, field))
<1> DEFINE fields == {k \in DOMAIN m : m[k].key = field}
           last == {k \in fields : \A j \in fields : j <= k}
<1>1. DOMAIN m = 1 .. Len(m) /\ Len(m) \in Nat
  OBVIOUS
<1>2. ASSUME NEW k \in fields PROVE m[k].value.text \in Seq(Byte) /\ k \in Int
  <2>1. m[k] \in Member /\ k \in Int
    BY <1>1
  <2> QED
    BY <2>1 DEF Member, Lexeme
<1>3. \A j, k \in last : j = k
  BY <1>2
<1>4. FieldIds(m, field) \subseteq {<<>>} \/ FieldIds(m, field) \subseteq {m[k].value.text : k \in last}
  BY DEF FieldIds
<1>5. <<>> \in Seq(Byte)
  OBVIOUS
<1>6. last \subseteq fields
  OBVIOUS
<1> HIDE DEF fields, last
<1> QED
  BY <1>2, <1>3, <1>4, <1>5, <1>6 DEF AtMostOne

(* They can be told from the end of the line.                                *)
LEMMA JudgedExists ==
  ASSUME NEW line \in Seq(Byte), NEW field
  PROVE  \E ids : Judged(line, field, ids)
<1> DEFINE n == Len(line)
           V == [Readings -> SUBSET Seq(Byte)]
           base == [r \in Readings |-> IdsIn(r, field)]
           Back(p, v) == [r \in Readings |-> UNION {v[q] : q \in Read(r, line[p + 1])}]
           step == [p \in 0 .. n - 1 |-> [v \in V |-> Back(p, v)]]
           further == [p \in 0 .. n - 1 |-> p + 1]
<1>1. n \in Nat /\ \A p \in 0 .. n - 1 : p + 1 \in 1 .. n /\ line[p + 1] \in Byte /\ p \in 0 .. n
  OBVIOUS
<1>2. ASSUME NEW r \in Readings
      PROVE  IdsIn(r, field) \subseteq Seq(Byte) /\ AtMostOne(IdsIn(r, field))
  <2>1. r.members \in Seq(Member)
    BY InType
  <2> QED
    BY <2>1, FieldIdsType DEF IdsIn, AtMostOne
<1>3. base \in V
  BY <1>2
<1>4. ASSUME NEW p \in 0 .. n - 1, NEW v \in V, NEW r \in Readings
      PROVE  UNION {v[q] : q \in Read(r, line[p + 1])} \subseteq Seq(Byte)
  <2>1. line[p + 1] \in Byte
    BY <1>1
  <2>2. Read(r, line[p + 1]) \subseteq Readings
    BY <2>1, ReadOne
  <2> QED
    BY <2>2
<1>5. \A p \in 0 .. n - 1 : \A v \in V : step[p][v] \in V
  <2> SUFFICES ASSUME NEW p \in 0 .. n - 1, NEW v \in V PROVE step[p][v] \in V
    OBVIOUS
  <2>1. step[p][v] = Back(p, v)
    OBVIOUS
  <2> QED
    BY <1>4, <2>1
<1>6. PICK f \in [0 .. n -> V] :
        f = [p \in 0 .. n |-> IF p = n THEN base ELSE step[p][f[further[p]]]]
  <2>1. \A p \in 0 .. n - 1 : further[p] \in p + 1 .. n
    BY <1>1
  <2> HIDE DEF n, V, base, step, further
  <2>2. Computable(n, V, base, further, step)
    BY <1>1, <1>3, <1>5, <2>1, BackwardRecursion
  <2> QED
    BY <2>2 DEF Computable
<1>7. f[n] = base /\ \A p \in 0 .. n - 1 : f[p] = Back(p, f[p + 1])
  <2>1. f[n] = base
    BY <1>1, <1>6
  <2>2. ASSUME NEW p \in 0 .. n - 1 PROVE f[p] = Back(p, f[p + 1])
    <3>1. further[p] = p + 1 /\ p # n /\ p \in 0 .. n /\ p + 1 \in 0 .. n
      BY <1>1
    <3>2. step[p] = [v \in V |-> Back(p, v)]
      OBVIOUS
    <3> HIDE DEF n, V, base, step, further, Back
    <3>3. f[p + 1] \in V
      BY <3>1
    <3>4. step[p][f[p + 1]] = Back(p, f[p + 1])
      BY <3>2, <3>3
    <3>5. f[p] = step[p][f[further[p]]]
      BY <1>6, <3>1
    <3> QED
      BY <3>1, <3>4, <3>5
  <2> QED
    BY <2>1, <2>2
<1>8. \A r \in Readings : f[n][r] = IdsIn(r, field)
  BY <1>7
<1>9. \A p \in 0 .. n - 1 : \A r \in Readings :
        f[p][r] = UNION {f[p + 1][q] : q \in Read(r, line[p + 1])}
  <2> SUFFICES ASSUME NEW p \in 0 .. n - 1, NEW r \in Readings
               PROVE  f[p][r] = UNION {f[p + 1][q] : q \in Read(r, line[p + 1])}
    OBVIOUS
  <2> DEFINE g == f[p + 1]
  <2>1. f[p] = Back(p, g)
    BY <1>7
  <2> HIDE DEF g
  <2>2. f[p][r] = UNION {g[q] : q \in Read(r, line[p + 1])}
    BY <2>1
  <2> QED
    BY <2>2 DEF g
<1>10. \A p \in 0 .. n : \A r \in Readings : f[p][r] \subseteq Seq(Byte)
  BY <1>6, ZenonT(40)
<1> DEFINE Single(p) == \A r \in Readings : AtMostOne(f[p][r])
           S == {p \in 0 .. n : Single(p)}
<1>11. \A p \in 0 .. n : p \in S
  <2>1. ASSUME NEW p \in 0 .. n, \A j \in p + 1 .. n : j \in S PROVE p \in S
    <3> SUFFICES ASSUME NEW r \in Readings PROVE AtMostOne(f[p][r])
      OBVIOUS
    <3>1. CASE p = n
      BY <1>2, <1>8, <3>1
    <3>2. CASE p # n
      <4>1. p \in 0 .. n - 1 /\ p + 1 \in p + 1 .. n
        BY <3>2
      <4>2. Single(p + 1) /\ line[p + 1] \in Byte
        BY <1>1, <2>1, <4>1
      <4>3. f[p][r] = UNION {f[p + 1][q] : q \in Read(r, line[p + 1])}
        BY <1>9, <4>1
      <4>4. CASE Read(r, line[p + 1]) = {}
        BY <4>3, <4>4 DEF AtMostOne
      <4>5. ASSUME NEW q \in Readings, Read(r, line[p + 1]) = {q} PROVE AtMostOne(f[p][r])
        <5>1. f[p][r] = f[p + 1][q]
          BY <4>3, <4>5
        <5> QED
          BY <4>2, <5>1
      <4> QED
        BY <4>2, <4>4, <4>5, ReadOne
    <3> QED
      BY <3>1, <3>2
  <2> HIDE DEF S, n
  <2>2. \A p \in 0 .. n : (\A j \in p + 1 .. n : j \in S) => p \in S
    BY <2>1
  <2> QED
    BY <1>1, <2>2, FromTheEnd
<1> HIDE DEF V, base, step
<1> QED
  BY <1>8, <1>9, <1>10, <1>11 DEF Judged
-----------------------------------------------------------------------------
(* One token of the line.                                                    *)

(* Only one object is a record.                                              *)
IsRecord(stack) == Len(stack) = 1 /\ stack[1].kind = ObjectToken

(* What is found between tokens, at the end.                                 *)
LEMMA FoundBetween ==
  ASSUME NEW s \in Seq(Lexeme), NEW m \in Seq(Member), NEW field
  PROVE  IdsIn(Between(s, m), field) = IF IsRecord(s) THEN FieldIds(m, field) ELSE {}
<1> DEFINE kinds == [k \in DOMAIN s |-> s[k].kind]
<1>1. DOMAIN s = 1 .. Len(s) /\ Len(s) \in Nat
  OBVIOUS
<1>2. <<ObjectToken>> = [k \in 1 .. 1 |-> ObjectToken]
  OBVIOUS
<1>3. IsRecord(s) => kinds = <<ObjectToken>>
  <2> HAVE IsRecord(s)
  <2>1. DOMAIN s = 1 .. 1 /\ s[1].kind = ObjectToken
    BY <1>1 DEF IsRecord
  <2>2. \A k \in 1 .. 1 : k = 1
    OBVIOUS
  <2> QED
    BY <1>2, <2>1, <2>2
<1>4. kinds = <<ObjectToken>> => IsRecord(s)
  <2> HAVE kinds = <<ObjectToken>>
  <2>1. DOMAIN kinds = 1 .. 1 /\ kinds[1] = ObjectToken
    BY <1>2
  <2>2. DOMAIN kinds = 1 .. Len(s)
    BY <1>1
  <2>3. Len(s) = 1
    <3>1. 1 .. Len(s) = 1 .. 1
      BY <2>1, <2>2
    <3>2. 1 \in 1 .. Len(s) /\ Len(s) \notin 2 .. Len(s)
      BY <3>1
    <3> QED
      BY <1>1, <3>1, <3>2
  <2>4. kinds[1] = s[1].kind
    BY <1>1, <2>3
  <2> QED
    BY <2>1, <2>3, <2>4 DEF IsRecord
<1>5. Between(s, m).mode = "between" /\ Between(s, m).stack = s /\ Between(s, m).members = m
  BY BetweenType
<1>6. IdsIn(Between(s, m), field) = IF kinds = <<ObjectToken>> THEN FieldIds(m, field) ELSE {}
  BY <1>5 DEF IdsIn, IsObject
<1> HIDE DEF kinds
<1> QED
  BY <1>3, <1>4, <1>6

(* One byte.                                                                 *)
LEMMA JudgedByte ==
  ASSUME NEW line \in Seq(Byte), NEW field, NEW ids, Judged(line, field, ids),
         NEW p \in 0 .. Len(line) - 1, NEW r \in Readings
  PROVE  /\ \A q : Read(r, line[p + 1]) = {q} => ids[p][r] = ids[p + 1][q]
         /\ Read(r, line[p + 1]) = {} => ids[p][r] = {}
<1>1. ids[p][r] = UNION {ids[p + 1][q] : q \in Read(r, line[p + 1])}
  BY DEF Judged
<1> QED
  BY <1>1

(* At the end of the line only an object between tokens counts.              *)
LEMMA JudgedEnd ==
  ASSUME NEW line \in Seq(Byte), NEW field, NEW ids, Judged(line, field, ids),
         NEW s \in Seq(Lexeme), NEW m \in Seq(Member)
  PROVE  /\ ids[Len(line)][Between(s, m)] = IF IsRecord(s) THEN FieldIds(m, field) ELSE {}
         /\ \A r \in Readings : r.mode # "between" => ids[Len(line)][r] = {}
<1>1. \A r \in Readings : ids[Len(line)][r] = IdsIn(r, field)
  BY DEF Judged
<1>2. Between(s, m) \in Readings
  BY BetweenType
<1> QED
  BY <1>1, <1>2, FoundBetween DEF IdsIn, IsObject

ByteRead(ids, p, s, m, b) ==
  /\ b \in Space => ids[p][Between(s, m)] = ids[p + 1][Between(s, m)]
  /\ b \in Structure => ids[p][Between(s, m)] = ids[p + 1][Push(s, m, Sign(b))]
  /\ b = Quote => ids[p][Between(s, m)] = ids[p + 1][In("string", <<>>, 0, s, m)]
  /\ b \notin Space \cup Structure \cup {Quote} =>
       ids[p][Between(s, m)] = ids[p + 1][In("literal", <<b>>, 0, s, m)]

(* One byte between tokens.                                                  *)
LEMMA JudgedBetween ==
  ASSUME NEW line \in Seq(Byte), NEW field, NEW ids, Judged(line, field, ids),
         NEW p \in 0 .. Len(line) - 1, NEW s \in Seq(Lexeme), NEW m \in Seq(Member)
  PROVE  ByteRead(ids, p, s, m, line[p + 1])
<1> DEFINE b == line[p + 1]
           r == Between(s, m)
<1>1. b \in Byte /\ r \in Readings
  BY BetweenType
<1>2. Structure \cap Space = {} /\ Quote \notin Structure /\ Quote \notin Space
  BY KindsAre DEF Space
<1>3. Read(r, b) = IF b \in Space THEN {r}
                   ELSE IF b \in Structure THEN {Push(s, m, Sign(b))}
                   ELSE IF b = Quote THEN {In("string", <<>>, 0, s, m)}
                   ELSE {In("literal", <<b>>, 0, s, m)}
  BY <1>1, ReadBetween
<1>4. \A q : Read(r, b) = {q} => ids[p][r] = ids[p + 1][q]
  BY <1>1, JudgedByte
<1> HIDE DEF b, r
<1> QED
  BY <1>2, <1>3, <1>4 DEF b, r, ByteRead

(* Space between tokens is skipped.                                          *)
LEMMA JudgedSpace ==
  ASSUME NEW line \in Seq(Byte), NEW field, NEW ids, Judged(line, field, ids),
         NEW s \in Seq(Lexeme), NEW m \in Seq(Member)
  PROVE  \A p \in 0 .. Len(line) :
           ids[p][Between(s, m)] = ids[SkipSpace(line, p)][Between(s, m)]
<1> DEFINE n == Len(line)
           r == Between(s, m)
           S == {p \in 0 .. n : ids[p][r] = ids[SkipSpace(line, p)][r]}
<1>1. n \in Nat
  OBVIOUS
<1>2. ASSUME NEW p \in 0 .. n, \A j \in p + 1 .. n : j \in S PROVE p \in S
  <2>1. CASE p < n /\ line[p + 1] \in Space
    <3>1. p \in 0 .. n - 1 /\ p + 1 \in p + 1 .. n
      BY <2>1
    <3>2. ids[p][r] = ids[p + 1][r]
      <4>1. ByteRead(ids, p, s, m, line[p + 1])
        BY <3>1, JudgedBetween
      <4> QED
        BY <2>1, <4>1 DEF ByteRead
    <3>3. SkipSpace(line, p) = SkipSpace(line, p + 1)
      BY <2>1, SpaceEnds
    <3>4. ids[p + 1][r] = ids[SkipSpace(line, p + 1)][r]
      BY <1>2, <3>1
    <3> HIDE DEF r
    <3> QED
      BY <3>2, <3>3, <3>4
  <2>2. CASE ~ (p < n /\ line[p + 1] \in Space)
    <3>1. SkipSpace(line, p) = p
      BY <2>2, SpaceEnds
    <3> QED
      BY <3>1
  <2> QED
    BY <2>1, <2>2
<1> HIDE DEF S, n
<1>3. \A p \in 0 .. n : (\A j \in p + 1 .. n : j \in S) => p \in S
  BY <1>2
<1>4. \A p \in 0 .. n : p \in S
  BY <1>1, <1>3, FromTheEnd
<1> QED
  BY <1>4 DEF S, n

-----------------------------------------------------------------------------
(* Strings.                                                                  *)

(* A text that grows by the next byte of the line.                           *)
LEMMA Grown ==
  ASSUME NEW line \in Seq(Byte), NEW p \in 0 .. Len(line), NEW e \in p .. Len(line), NEW x \in Seq(Byte)
  PROVE  /\ p < e => (x \o <<line[p + 1]>>) \o SubSeq(line, p + 2, e) = x \o SubSeq(line, p + 1, e)
         /\ p = e => x \o SubSeq(line, p + 1, e) = x
         /\ SubSeq(line, p + 1, e) \in Seq(Byte)
<1>0. Len(line) \in Nat /\ p \in Nat
  OBVIOUS
<1>1. CASE p < e
  <2>1. p + 1 \in 1 .. Len(line) /\ e \in p + 1 .. Len(line) /\ p + 1 + 1 = p + 2
    BY <1>0, <1>1
  <2>2. SubSeq(line, p + 1, e) = <<line[p + 1]>> \o SubSeq(line, p + 1 + 1, e)
    BY <2>1, SubSeqRecursiveFirst
  <2>3. line[p + 1] \in Byte /\ <<line[p + 1]>> \in Seq(Byte)
    BY <2>1
  <2>4. SubSeq(line, p + 2, e) \in Seq(Byte)
    <3>1. CASE p + 2 <= e
      <4>1. \A i \in p + 2 .. e : i \in 1 .. Len(line)
        BY <1>0
      <4> QED
        BY <3>1, <4>1, SubSeqProperties
    <3>2. CASE p + 2 > e
      <4>1. SubSeq(line, p + 2, e) = <<>>
        BY <3>2, <1>0, SubSeqEmpty
      <4> QED
        BY <4>1
    <3> QED
      BY <3>1, <3>2, <1>0
  <2> DEFINE a == <<line[p + 1]>>
             b == SubSeq(line, p + 2, e)
  <2>5. SubSeq(line, p + 1, e) = a \o b /\ a \in Seq(Byte) /\ b \in Seq(Byte)
    BY <2>1, <2>2, <2>3, <2>4
  <2> HIDE DEF a, b
  <2>6. (x \o a) \o b = x \o (a \o b)
    BY <2>5, TextAssociative
  <2>7. a \o b \in Seq(Byte)
    BY <2>5, ConcatProperties
  <2> QED
    BY <1>1, <2>5, <2>6, <2>7, SMTT(30) DEF a, b
<1>2. CASE p = e
  <2>1. SubSeq(line, p + 1, e) = <<>>
    BY <1>0, <1>2, SubSeqEmpty
  <2>2. x \o <<>> = x /\ <<>> \in Seq(Byte)
    BY ConcatEmptySeq
  <2> QED
    BY <1>2, <2>1, <2>2
<1>3. p < e \/ p = e
  BY <1>0
<1> QED
  BY <1>1, <1>2, <1>3, Zenon

(* The bytes behind \u.                                                      *)
UnicodeRead(line, ids, s, m, l) ==
  \A p \in 0 .. Len(line), x \in Seq(Byte) :
    ids[p][In("unicode", x, l, s, m)] =
      IF p + l <= Len(line)
      THEN ids[p + l][In("string", x \o SubSeq(line, p + 1, p + l), 0, s, m)] ELSE {}

(* One more byte behind \u.                                                  *)
LEMMA UnicodeReads ==
  ASSUME NEW line \in Seq(Byte), NEW field, NEW ids, Judged(line, field, ids),
         NEW s \in Seq(Lexeme), NEW m \in Seq(Member), NEW l \in 1 .. 4,
         l = 1 \/ UnicodeRead(line, ids, s, m, l - 1)
  PROVE  UnicodeRead(line, ids, s, m, l)
<1> SUFFICES ASSUME NEW p \in 0 .. Len(line), NEW x \in Seq(Byte)
             PROVE  ids[p][In("unicode", x, l, s, m)] =
                      IF p + l <= Len(line)
                      THEN ids[p + l][In("string", x \o SubSeq(line, p + 1, p + l), 0, s, m)] ELSE {}
  BY DEF UnicodeRead
<1> DEFINE r == In("unicode", x, l, s, m)
<1>1. r \in Readings /\ r.mode = "unicode"
  <2>1. l \in Int
    OBVIOUS
  <2> QED
    BY <2>1, InType
<1>2. CASE p = Len(line)
  <2>1. ids[p][r] = {}
    BY <1>1, <1>2, JudgedEnd
  <2>2. ~ p + l <= Len(line)
    BY <1>2
  <2> QED
    BY <2>1, <2>2
<1>3. CASE p # Len(line)
  <2> DEFINE b == line[p + 1]
             y == x \o <<b>>
  <2>1. p \in 0 .. Len(line) - 1 /\ b \in Byte /\ l \in Int
    BY <1>3
  <2>2. Read(r, b) = IF l = 1 THEN {In("string", y, 0, s, m)} ELSE {In("unicode", y, l - 1, s, m)}
    <3>1. UnicodeByte(s, m, x, b, l)
      BY <2>1, ReadUnicode
    <3> QED
      BY <3>1 DEF UnicodeByte
  <2>3. \A q : Read(r, b) = {q} => ids[p][r] = ids[p + 1][q]
    BY <1>1, <2>1, JudgedByte
  <2>4. y \in Seq(Byte)
    BY <2>1
  <2> HIDE DEF r
  <2>5. CASE l = 1
    <3>1. ids[p][r] = ids[p + 1][In("string", y, 0, s, m)]
      BY <2>2, <2>3, <2>5
    <3>2. x \o SubSeq(line, p + 1, p + 1) = y
      <4>1. p \in 0 .. Len(line) /\ p + 1 \in p .. Len(line) /\ p + 1 \in 0 .. Len(line)
            /\ p + 1 \in p + 1 .. Len(line)
        BY <2>1
      <4>2. (x \o <<line[p + 1]>>) \o SubSeq(line, p + 2, p + 1) = x \o SubSeq(line, p + 1, p + 1)
        BY <4>1, Grown, SMTT(30)
      <4>3. y \o SubSeq(line, p + 1 + 1, p + 1) = y
        BY <2>4, <4>1, Grown
      <4>4. p + 1 + 1 = p + 2
        OBVIOUS
      <4> QED
        BY <4>2, <4>3, <4>4
    <3>3. p + l = p + 1 /\ p + l <= Len(line)
      BY <2>1, <2>5
    <3> HIDE DEF y
    <3> QED
      BY <3>1, <3>2, <3>3 DEF r
  <2>6. CASE l # 1
    <3>1. ids[p][r] = ids[p + 1][In("unicode", y, l - 1, s, m)]
      BY <2>2, <2>3, <2>6
    <3>2. p + 1 \in 0 .. Len(line) /\ p + 1 + (l - 1) = p + l /\ p + 1 + 1 = p + 2
      BY <2>1
    <3>3. ids[p + 1][In("unicode", y, l - 1, s, m)] =
            IF p + 1 + (l - 1) <= Len(line)
            THEN ids[p + 1 + (l - 1)][In("string", y \o SubSeq(line, p + 1 + 1, p + 1 + (l - 1)), 0, s, m)]
            ELSE {}
      <4>1. UnicodeRead(line, ids, s, m, l - 1)
        BY <2>6
      <4> HIDE DEF y
      <4> QED
        BY <2>4, <3>2, <4>1 DEF UnicodeRead
    <3>4. CASE p + l <= Len(line)
      <4>1. p + l \in p .. Len(line) /\ p < p + l
        BY <2>1, <3>4
      <4>2. y \o SubSeq(line, p + 2, p + l) = x \o SubSeq(line, p + 1, p + l)
        BY <2>1, <4>1, Grown
      <4> HIDE DEF y
      <4> QED
        BY <3>1, <3>2, <3>3, <3>4, <4>2 DEF r
    <3>5. CASE ~ p + l <= Len(line)
      <4> HIDE DEF y
      <4> QED
        BY <3>1, <3>2, <3>3, <3>5 DEF r
    <3> QED
      BY <3>4, <3>5
  <2> QED
    BY <2>5, <2>6
<1> QED
  BY <1>2, <1>3

(* All four.                                                                 *)
LEMMA FourUnicode ==
  ASSUME NEW line \in Seq(Byte), NEW field, NEW ids, Judged(line, field, ids),
         NEW s \in Seq(Lexeme), NEW m \in Seq(Member)
  PROVE  UnicodeRead(line, ids, s, m, 4)
<1> DEFINE U(l) == UnicodeRead(line, ids, s, m, l)
<1>1. ASSUME NEW l \in 1 .. 4, l = 1 \/ U(l - 1) PROVE U(l)
  BY <1>1, UnicodeReads
<1> HIDE DEF U
<1>2. U(1)
  BY <1>1
<1>3. U(2)
  BY <1>1, <1>2
<1>4. U(3)
  BY <1>1, <1>3
<1>5. U(4)
  BY <1>1, <1>4
<1> QED
  BY <1>5 DEF U

(* The strings an id is found behind.                                        *)
StringsEnd(ids, id, s, m, strings, x) ==
  \E y \in strings : id \in ids[y.end][Push(s, m, Item(StringToken, x \o y.value))]

(* A prefix of the strings is a suffix of the text read so far.              *)
LEMMA PrefixedEnd ==
  ASSUME NEW ids, NEW id, NEW s, NEW m, NEW from, NEW to,
         NEW strings, strings \subseteq StringsWithin(from, to),
         NEW a \in Seq(Byte), NEW x \in Seq(Byte)
  PROVE  StringsEnd(ids, id, s, m, Prefixed(strings, a), x) <=>
           StringsEnd(ids, id, s, m, strings, x \o a)
<1> DEFINE Behind(y) == id \in ids[y.end][Push(s, m, Item(StringToken, x \o y.value))]
           Before(y) == id \in ids[y.end][Push(s, m, Item(StringToken, (x \o a) \o y.value))]
           Longer(y) == [y EXCEPT !.value = a \o @]
<1>1. ASSUME NEW y \in strings PROVE Behind(Longer(y)) <=> Before(y)
  <2>1. y \in [end : from .. to, value : Seq(Byte)]
    BY DEF StringsWithin
  <2>2. y.value \in Seq(Byte)
    BY <2>1
  <2>3. Longer(y).end = y.end /\ Longer(y).value = a \o y.value
    <3> DEFINE Text == Seq(Byte)
    <3>1. y \in [end : from .. to, value : Text]
      BY <2>1
    <3> HIDE DEF Text
    <3> QED
      BY <3>1
  <2>4. (x \o a) \o y.value = x \o (a \o y.value)
    BY <2>2, TextAssociative
  <2> DEFINE z == Longer(y)
             v == a \o y.value
             xv == x \o v
  <2> HIDE DEF z, Longer, v, xv
  <2>5. z.end = y.end /\ x \o z.value = xv /\ (x \o a) \o y.value = xv
    BY <2>3, <2>4 DEF z, v, xv
  <2>6. Behind(z) <=> Before(y)
    BY <2>5
  <2> QED
    BY <2>6 DEF z
<1>2. Prefixed(strings, a) = {Longer(y) : y \in strings}
  BY DEF Prefixed
<1> HIDE DEF Behind, Before, Longer
<1>3. (\E z \in Prefixed(strings, a) : Behind(z)) <=> \E y \in strings : Before(y)
  BY <1>1, <1>2
<1> QED
  BY <1>3 DEF Behind, Before, StringsEnd

(* A string is read as it is parsed.                                         *)
StringRead(line, ids, s, m, p) ==
  \A id : \A x \in Seq(Byte) :
    id \in ids[p][In("string", x, 0, s, m)] <=> StringsEnd(ids, id, s, m, StringRest(line)[p], x)

(* One step of a string, read from the left as from the right.               *)
LEMMA StringReadStep ==
  ASSUME NEW line \in Seq(Byte), NEW field, NEW ids, Judged(line, field, ids),
         NEW s \in Seq(Lexeme), NEW m \in Seq(Member), NEW p \in 0 .. Len(line),
         \A j \in p + 1 .. Len(line) : StringRead(line, ids, s, m, j)
  PROVE  StringRead(line, ids, s, m, p)
<1> DEFINE n == Len(line)
           rest == StringRest(line)
<1>0. n \in Nat
  OBVIOUS
<1> SUFFICES ASSUME NEW id, NEW x \in Seq(Byte)
             PROVE  id \in ids[p][In("string", x, 0, s, m)] <=>
                      StringsEnd(ids, id, s, m, rest[p], x)
  BY DEF StringRead
<1> DEFINE r == In("string", x, 0, s, m)
<1>1. r \in Readings /\ r.mode = "string"
  BY InType DEF Modes
<1>2. rest[p] = IF p = n THEN {}
                ELSE IF line[p + 1] = Quote THEN {[end |-> p + 1, value |-> <<>>]}
                ELSE IF line[p + 1] < 32 THEN {}
                ELSE IF line[p + 1] # Backslash THEN Prefixed(rest[p + 1], <<line[p + 1]>>)
                ELSE IF p + 1 < n /\ line[p + 2] \in DOMAIN Escapes
                THEN Prefixed(rest[p + 2], <<Escapes[line[p + 2]]>>)
                ELSE IF At(line, p + 1, LetterU) /\ p + 6 <= n
                THEN Prefixed(rest[p + 6], SubSeq(line, p + 1, p + 6))
                ELSE {}
  <2>1. rest[p] = StringStep(line, rest, p)
    BY StringRuns
  <2> HIDE DEF rest
  <2> QED
    BY <2>1, StringStepIs
<1>3. \A j \in 0 .. n : rest[j] \subseteq StringsWithin(j + 1, n)
  BY StringRuns
<1> HIDE DEF rest
<1>4. ~ StringsEnd(ids, id, s, m, {}, x)
  BY DEF StringsEnd
<1>5. CASE p = n
  <2>1. ids[p][r] = {}
    BY <1>1, <1>5, JudgedEnd
  <2>2. rest[p] = {}
    BY <1>2, <1>5
  <2> HIDE DEF r
  <2> QED
    BY <1>4, <2>1, <2>2 DEF r
<1>6. CASE p # n
  <2> DEFINE b == line[p + 1]
  <2>1. p \in 0 .. n - 1 /\ b \in Byte /\ p + 1 \in p + 1 .. n /\ p + 1 \in 0 .. n
    BY <1>0, <1>6
  <2>2. /\ \A q : Read(r, b) = {q} => ids[p][r] = ids[p + 1][q]
        /\ Read(r, b) = {} => ids[p][r] = {}
    BY <1>1, <2>1, JudgedByte
  <2>3. Read(r, b) =
           IF b = Quote THEN {Push(s, m, Item(StringToken, x))}
           ELSE IF b < 32 THEN {}
           ELSE IF b = Backslash THEN {In("escape", x, 0, s, m)}
           ELSE {In("string", x \o <<b>>, 0, s, m)}
    <3>1. StringByte(s, m, x, b)
      BY <2>1, ReadString
    <3> QED
      BY <3>1 DEF StringByte
  <2>4. ASSUME NEW j \in p + 1 .. n, NEW a \in Seq(Byte)
        PROVE  id \in ids[j][In("string", x \o a, 0, s, m)] <=>
                 StringsEnd(ids, id, s, m, Prefixed(rest[j], a), x)
    <3>1. j \in 0 .. n /\ rest[j] \subseteq StringsWithin(j + 1, n) /\ x \o a \in Seq(Byte)
      BY <1>0, <1>3
    <3>2. StringRead(line, ids, s, m, j)
      OBVIOUS
    <3>3. id \in ids[j][In("string", x \o a, 0, s, m)] <=> StringsEnd(ids, id, s, m, rest[j], x \o a)
      BY <3>1, <3>2 DEF StringRead, rest
    <3>4. StringsEnd(ids, id, s, m, Prefixed(rest[j], a), x) <=>
            StringsEnd(ids, id, s, m, rest[j], x \o a)
      BY <3>1, PrefixedEnd
    <3> QED
      BY <3>3, <3>4
  <2> HIDE DEF r
  <2>5. CASE b = Quote
    <3> DEFINE t == Push(s, m, Item(StringToken, x))
    <3>1. ids[p][r] = ids[p + 1][t]
      BY <2>2, <2>3, <2>5
    <3>2. rest[p] = {[end |-> p + 1, value |-> <<>>]}
      BY <1>2, <1>6, <2>5
    <3>3. x \o <<>> = x
      BY ConcatEmptySeq
    <3> DEFINE y == [end |-> p + 1, value |-> <<>>]
    <3>4. y.end = p + 1 /\ x \o y.value = x
      BY <3>3
    <3> HIDE DEF y
    <3>5. StringsEnd(ids, id, s, m, {y}, x) <=> id \in ids[p + 1][t]
      BY <3>4 DEF StringsEnd
    <3> HIDE DEF t
    <3> QED
      BY <3>1, <3>2, <3>5 DEF r, y
  <2>6. CASE b # Quote /\ b < 32
    <3>1. ids[p][r] = {} /\ rest[p] = {}
      BY <1>2, <1>6, <2>2, <2>3, <2>6
    <3> QED
      BY <1>4, <3>1 DEF r
  <2>7. CASE b # Quote /\ ~ b < 32 /\ b # Backslash
    <3>1. ids[p][r] = ids[p + 1][In("string", x \o <<b>>, 0, s, m)]
      BY <2>2, <2>3, <2>7
    <3>2. rest[p] = Prefixed(rest[p + 1], <<b>>)
      BY <1>2, <1>6, <2>7
    <3>3. <<b>> \in Seq(Byte)
      BY <2>1
    <3>4. id \in ids[p + 1][In("string", x \o <<b>>, 0, s, m)] <=>
            StringsEnd(ids, id, s, m, Prefixed(rest[p + 1], <<b>>), x)
      BY <2>1, <2>4, <3>3
    <3> QED
      BY <3>1, <3>2, <3>4 DEF r
  <2>8. CASE b # Quote /\ ~ b < 32 /\ b = Backslash
    <3> DEFINE e == In("escape", x, 0, s, m)
    <3>1. ids[p][r] = ids[p + 1][e]
      BY <2>2, <2>3, <2>8
    <3>2. e \in Readings /\ e.mode = "escape"
      BY InType DEF Modes
    <3>3. CASE p + 1 = n
      <4>1. ids[p + 1][e] = {}
        BY <3>2, <3>3, JudgedEnd
      <4>2. rest[p] = {}
        BY <1>0, <1>2, <1>6, <2>8, <3>3 DEF At
      <4> HIDE DEF e
      <4> QED
        BY <1>4, <3>1, <4>1, <4>2 DEF r
    <3>4. CASE p + 1 # n
      <4> DEFINE c == line[p + 2]
      <4>1. p + 1 \in 0 .. n - 1 /\ c \in Byte /\ p + 2 \in p + 1 .. n /\ p + 1 < n /\ p + 1 + 1 = p + 2
        BY <1>0, <2>1, <3>4
      <4>2. /\ \A q : Read(e, c) = {q} => ids[p + 1][e] = ids[p + 2][q]
            /\ Read(e, c) = {} => ids[p + 1][e] = {}
        <5>1. /\ \A q : Read(e, line[p + 1 + 1]) = {q} => ids[p + 1][e] = ids[p + 1 + 1][q]
              /\ Read(e, line[p + 1 + 1]) = {} => ids[p + 1][e] = {}
          BY <3>2, <4>1, JudgedByte
        <5> HIDE DEF e
        <5> QED
          BY <4>1, <5>1
      <4> DEFINE u == <<Backslash, LetterU>>
      <4>3. Read(e, c) =
              IF c \in DOMAIN Escapes THEN {In("string", x \o <<Escapes[c]>>, 0, s, m)}
              ELSE IF c = LetterU THEN {In("unicode", x \o u, 4, s, m)}
              ELSE {}
        <5>1. EscapeByte(s, m, x, c)
          BY <4>1, ReadEscape
        <5> QED
          BY <5>1 DEF EscapeByte
      <4> HIDE DEF e
      <4>4. CASE c \in DOMAIN Escapes
        <5> DEFINE a == <<Escapes[c]>>
        <5>1. a \in Seq(Byte)
          BY <4>4, EscapeBytes
        <5>2. rest[p] = Prefixed(rest[p + 2], a)
          BY <1>2, <1>6, <2>8, <4>1, <4>4
        <5>3. ids[p + 1][e] = ids[p + 2][In("string", x \o a, 0, s, m)]
          BY <4>2, <4>3, <4>4
        <5> HIDE DEF a
        <5>4. id \in ids[p + 2][In("string", x \o a, 0, s, m)] <=>
                StringsEnd(ids, id, s, m, Prefixed(rest[p + 2], a), x)
          BY <2>4, <4>1, <5>1
        <5> QED
          BY <3>1, <5>2, <5>3, <5>4 DEF r
      <4>5. CASE c \notin DOMAIN Escapes /\ c = LetterU
        <5> DEFINE w == SubSeq(line, p + 1, p + 6)
        <5>0. Backslash \in Byte /\ LetterU \in Byte
          BY KindsAre DEF Byte
        <5>1. u \in Seq(Byte)
          BY <5>0, TupleTypes
        <5>2. x \o u \in Seq(Byte) /\ p + 2 \in 0 .. n /\ p + 2 + 4 = p + 6 /\ p + 2 + 1 = p + 3
          BY <1>0, <4>1, <5>1, ConcatProperties
        <5>3. ids[p + 1][e] = ids[p + 2][In("unicode", x \o u, 4, s, m)]
          BY <4>2, <4>3, <4>5
        <5>4. ids[p + 2][In("unicode", x \o u, 4, s, m)] =
                IF p + 2 + 4 <= n
                THEN ids[p + 2 + 4][In("string", (x \o u) \o SubSeq(line, p + 2 + 1, p + 2 + 4), 0, s, m)]
                ELSE {}
          <6>1. UnicodeRead(line, ids, s, m, 4)
            BY FourUnicode
          <6> DEFINE y == x \o u
          <6>2. y \in Seq(Byte)
            BY <5>2
          <6> HIDE DEF y
          <6> QED
            BY <5>2, <6>1, <6>2 DEF UnicodeRead, y
        <5>5. At(line, p + 1, LetterU)
          BY <4>1, <4>5 DEF At
        <5>6. CASE p + 6 <= n
          <6>1. rest[p] = Prefixed(rest[p + 6], w)
            BY <1>2, <1>6, <2>8, <4>1, <4>5, <5>5, <5>6
          <6>2. (x \o u) \o SubSeq(line, p + 3, p + 6) = x \o w /\ w \in Seq(Byte)
            <7>1. p \in 0 .. n /\ p + 6 \in p .. n /\ p < p + 6 /\ p + 1 \in 0 .. n
                  /\ p + 6 \in p + 1 .. n /\ p + 1 < p + 6
              BY <1>0, <2>1, <5>6
            <7>2. (x \o <<b>>) \o SubSeq(line, p + 2, p + 6) = x \o w /\ w \in Seq(Byte)
              BY <7>1, Grown
            <7> DEFINE y == x \o <<b>>
            <7>3. y \in Seq(Byte)
              BY <2>1
            <7>4. (y \o <<line[p + 1 + 1]>>) \o SubSeq(line, p + 1 + 2, p + 6) =
                    y \o SubSeq(line, p + 1 + 1, p + 6)
              <8> HIDE DEF y
              <8> QED
                BY <7>1, <7>3, Grown
            <7>5. y \o <<c>> = x \o u
              <8>1. <<b>> \in Seq(Byte) /\ <<c>> \in Seq(Byte) /\ b = Backslash /\ c = LetterU
                BY <2>1, <2>8, <4>1, <4>5
              <8>2. <<b>> \o <<c>> = <<b, c>>
                <9> HIDE DEF b, c
                <9>1. \A f \in Seq(Byte), g \in Byte : Append(f, g) = f \o <<g>>
                  BY ConcatProperties
                <9>2. Append(<<b>>, c) = <<b, c>>
                  BY <2>1, <4>1, AppendToOne
                <9> QED
                  BY <2>1, <4>1, <8>1, <9>1, <9>2
              <8>3. (x \o <<b>>) \o <<c>> = x \o (<<b>> \o <<c>>)
                BY <8>1, TextAssociative
              <8> QED
                BY <8>1, <8>2, <8>3
            <7>6. p + 1 + 1 = p + 2 /\ p + 1 + 2 = p + 3
              OBVIOUS
            <7> HIDE DEF y, w
            <7> QED
              BY <7>2, <7>4, <7>5, <7>6 DEF y
          <6> HIDE DEF w, u
          <6>3. ids[p + 1][e] = ids[p + 6][In("string", x \o w, 0, s, m)]
            BY <5>2, <5>3, <5>4, <5>6, <6>2
          <6>4. p + 6 \in p + 1 .. n
            BY <1>0, <5>6
          <6>5. id \in ids[p + 6][In("string", x \o w, 0, s, m)] <=>
                  StringsEnd(ids, id, s, m, Prefixed(rest[p + 6], w), x)
            BY <2>4, <6>2, <6>4
          <6> QED
            BY <3>1, <6>1, <6>3, <6>5 DEF r
        <5>7. CASE ~ p + 6 <= n
          <6>1. rest[p] = {}
            BY <1>2, <1>6, <2>8, <4>5, <5>7
          <6>2. ids[p + 1][e] = {}
            BY <5>2, <5>3, <5>4, <5>7
          <6> QED
            BY <1>4, <3>1, <6>1, <6>2 DEF r
        <5> QED
          BY <5>6, <5>7
      <4>6. CASE c \notin DOMAIN Escapes /\ c # LetterU
        <5>1. ids[p + 1][e] = {}
          BY <4>2, <4>3, <4>6
        <5>2. ~ At(line, p + 1, LetterU)
          BY <4>1, <4>6 DEF At
        <5>3. rest[p] = {}
          BY <1>2, <1>6, <2>8, <4>6, <5>2
        <5> QED
          BY <1>4, <3>1, <5>1, <5>3 DEF r
      <4> QED
        BY <4>4, <4>5, <4>6
    <3> QED
      BY <3>3, <3>4
  <2> QED
    BY <2>5, <2>6, <2>7, <2>8
<1> QED
  BY <1>5, <1>6

(* A string reads as ParseString finds it.                                   *)
LEMMA StringReads ==
  ASSUME NEW line \in Seq(Byte), NEW field, NEW ids, Judged(line, field, ids),
         NEW s \in Seq(Lexeme), NEW m \in Seq(Member)
  PROVE  \A p \in 0 .. Len(line) : StringRead(line, ids, s, m, p)
<1> DEFINE n == Len(line)
           S == {p \in 0 .. n : StringRead(line, ids, s, m, p)}
<1>1. n \in Nat
  OBVIOUS
<1>2. ASSUME NEW p \in 0 .. n, \A j \in p + 1 .. n : j \in S PROVE p \in S
  <2>1. \A j \in p + 1 .. n : StringRead(line, ids, s, m, j)
    BY <1>2
  <2> QED
    BY <2>1, StringReadStep
<1> HIDE DEF S, n
<1>3. \A p \in 0 .. n : p \in S
  BY <1>1, <1>2, FromTheEnd
<1> QED
  BY <1>3 DEF S, n

-----------------------------------------------------------------------------
(* Literals.                                                                 *)

(* What a rule finds on top of the stack and what it leaves there.           *)
RuleTop(top, becomes) ==
  \/ /\ Len(top) = 2 /\ top[1].kind = 123 /\ top[2].kind = 125
     /\ becomes = <<Sign(ObjectToken)>>
  \/ /\ Len(top) = 5 /\ top[1].kind = 123 /\ top[2].kind = 256 /\ top[3].kind = 58
     /\ top[4].kind \in 256 .. 258 /\ top[5].kind = 125
     /\ becomes = <<Sign(ObjectToken)>>
  \/ /\ Len(top) = 2 /\ top[1].kind = 91 /\ top[2].kind = 93
     /\ becomes = <<Sign(ValueToken)>>
  \/ /\ Len(top) = 3 /\ top[1].kind = 91 /\ top[2].kind \in 256 .. 258 /\ top[3].kind = 93
     /\ becomes = <<Sign(ValueToken)>>
  \/ /\ Len(top) = 6 /\ top[1].kind = 123 /\ top[2].kind = 256 /\ top[3].kind = 58
     /\ top[4].kind \in 256 .. 258 /\ top[5].kind = 44 /\ top[6].kind = 256
     /\ becomes = <<top[1], top[6]>>
  \/ /\ Len(top) = 4 /\ top[1].kind = 91 /\ top[2].kind \in 256 .. 258 /\ top[3].kind = 44
     /\ top[4].kind \in 256 .. 258 /\ becomes = <<top[1], top[4]>>

(* The end of what a rule leaves.                                            *)
LEMMA ReducedTop ==
  ASSUME NEW top \in Seq(Lexeme), NEW rule \in Rules, Matches(top, rule)
  PROVE  RuleTop(top, Becomes(top, rule))
<1>0. Len(top) = Len(rule) /\ Len(top) \in Nat
  BY DEF Matches
<1>1. Fires(top, rule)
  <2>1. Len(rule) <= Len(top) /\ \A k \in DOMAIN rule : Len(top) - Len(rule) + k = k
    BY <1>0, RuleLengths
  <2> QED
    BY <2>1 DEF Fires, Matches
<1>2. /\ Len(EmptyObject) = 2 /\ Len(WholeObject) = 5 /\ Len(EmptyArray) = 2 /\ Len(WholeArray) = 3
      /\ Len(NextMember) = 6 /\ Len(NextElement) = 4
  BY DEF EmptyObject, WholeObject, EmptyArray, WholeArray, NextMember, NextElement
<1>3. Becomes(top, rule) =
        IF rule \in Continued THEN <<top[1], top[Len(top)]>>
        ELSE <<Sign(IF top[1].kind = 123 THEN ObjectToken ELSE ValueToken)>>
  BY KindsAre DEF Becomes, Sign
<1>4. CASE rule = EmptyObject
  <2>0. Len(top) = 2
    BY <1>0, <1>2, <1>4, Zenon
  <2>1. Len(top) = 2 /\ 2 - 1 = 1
    BY <2>0
  <2>2. top[1].kind = 123 /\ top[2].kind = 125
    BY <1>1, <1>4, <2>1, FiresIs
  <2> QED
    BY <1>3, <1>4, <2>1, <2>2, RulesAre DEF RuleTop
<1>5. CASE rule = WholeObject
  <2>0. Len(top) = 5
    BY <1>0, <1>2, <1>5, Zenon
  <2>1. Len(top) = 5 /\ 5 - 1 = 4 /\ 5 - 2 = 3 /\ 5 - 3 = 2 /\ 5 - 4 = 1
    BY <2>0
  <2>2. /\ top[1].kind = 123 /\ top[2].kind = 256 /\ top[3].kind = 58
        /\ top[4].kind \in 256 .. 258 /\ top[5].kind = 125
    BY <1>1, <1>5, <2>1, FiresIs
  <2> QED
    BY <1>3, <1>5, <2>1, <2>2, RulesAre DEF RuleTop
<1>6. CASE rule = EmptyArray
  <2>0. Len(top) = 2
    BY <1>0, <1>2, <1>6, Zenon
  <2>1. Len(top) = 2 /\ 2 - 1 = 1
    BY <2>0
  <2>2. top[1].kind = 91 /\ top[2].kind = 93
    BY <1>1, <1>6, <2>1, FiresIs
  <2> QED
    BY <1>3, <1>6, <2>1, <2>2, RulesAre DEF RuleTop
<1>7. CASE rule = WholeArray
  <2>0. Len(top) = 3
    BY <1>0, <1>2, <1>7, Zenon
  <2>1. Len(top) = 3 /\ 3 - 1 = 2 /\ 3 - 2 = 1
    BY <2>0
  <2>2. top[1].kind = 91 /\ top[2].kind \in 256 .. 258 /\ top[3].kind = 93
    BY <1>1, <1>7, <2>1, FiresIs
  <2> QED
    BY <1>3, <1>7, <2>1, <2>2, RulesAre DEF RuleTop
<1>8. CASE rule = NextMember
  <2>0. Len(top) = 6
    BY <1>0, <1>2, <1>8, Zenon
  <2>1. Len(top) = 6 /\ 6 - 1 = 5 /\ 6 - 2 = 4 /\ 6 - 3 = 3 /\ 6 - 4 = 2 /\ 6 - 5 = 1
    BY <2>0
  <2>2. /\ top[1].kind = 123 /\ top[2].kind = 256 /\ top[3].kind = 58
        /\ top[4].kind \in 256 .. 258 /\ top[5].kind = 44 /\ top[6].kind = 256
    BY <1>1, <1>8, <2>1, FiresIs, SMTT(30)
  <2> QED
    BY <1>3, <1>8, <2>1, <2>2, RulesAre DEF RuleTop
<1>9. CASE rule = NextElement
  <2>0. Len(top) = 4
    BY <1>0, <1>2, <1>9, Zenon
  <2>1. Len(top) = 4 /\ 4 - 1 = 3 /\ 4 - 2 = 2 /\ 4 - 3 = 1
    BY <2>0
  <2>2. /\ top[1].kind = 91 /\ top[2].kind \in 256 .. 258 /\ top[3].kind = 44
        /\ top[4].kind \in 256 .. 258
    BY <1>1, <1>9, <2>1, FiresIs
  <2> QED
    BY <1>3, <1>9, <2>1, <2>2, RulesAre DEF RuleTop
<1> QED
  BY <1>4, <1>5, <1>6, <1>7, <1>8, <1>9, RulesAre

(* Only one rule ends in a literal.                                          *)
LEMMA RuleLast ==
  ASSUME NEW top, NEW becomes, RuleTop(top, becomes), top[Len(top)].kind = 257
  PROVE  Len(top) = 4 /\ becomes = <<top[1], top[4]>> /\ top[4].kind = 257
<1>2. /\ Len(top) = 2 => top[2].kind \in {125, 93}
      /\ Len(top) = 3 => top[3].kind = 93
      /\ Len(top) = 5 => top[5].kind = 125
      /\ Len(top) = 6 => top[6].kind = 256
      /\ Len(top) \in {2, 3, 4, 5, 6}
      /\ Len(top) = 4 => top[4].kind \in 256 .. 258 /\ becomes = <<top[1], top[4]>>
  BY DEF RuleTop
<1>3. Len(top) = 4
  BY <1>2
<1> QED
  BY <1>2, <1>3

(* A literal on top stays there, and is no record.                           *)
EndsIn(s, kind) == s # <<>> /\ s[Len(s)].kind = kind

(* A value on top of a stack stays there.                                    *)
LEMMA ValueStays ==
  ASSUME NEW s \in Seq(Lexeme), EndsIn(s, 257), NEW m \in Seq(Member)
  PROVE  \E s2 \in Seq(Lexeme), m2 \in Seq(Member) :
           /\ Reduce(Between(s, m)) = Between(s2, m2)
           /\ EndsIn(s2, 257)
<1>1. CASE Reduce(Between(s, m)) = Between(s, m)
  BY <1>1
<1>2. ASSUME NEW below \in Seq(Lexeme), NEW top \in Seq(Lexeme), NEW rule \in Rules,
             ReducesBy(s, m, below, top, rule)
      PROVE  \E s2 \in Seq(Lexeme), m2 \in Seq(Member) :
               /\ Reduce(Between(s, m)) = Between(s2, m2)
               /\ EndsIn(s2, 257)
  <2>14. /\ s = below \o top /\ Matches(top, rule)
         /\ below \o Becomes(top, rule) \in Seq(Lexeme) /\ Recorded(below, top, m) \in Seq(Member)
         /\ Reduce(Between(s, m)) = Between(below \o Becomes(top, rule), Recorded(below, top, m))
    BY <1>2 DEF ReducesBy
  <2>0. RuleTop(top, Becomes(top, rule))
    BY <2>14, ReducedTop
  <2>1. Len(top) \in Nat /\ Len(top) >= 2
    BY <2>0 DEF RuleTop
  <2>2. s[Len(s)] = top[Len(top)]
    <3>1. /\ \A k \in 1 .. Len(top) : (below \o top)[Len(below \o top) - Len(top) + k] = top[k]
          /\ Len(below \o top) = Len(below) + Len(top) /\ Len(below) \in Nat
      BY TopOfStack
    <3>2. Len(top) \in 1 .. Len(top) /\ Len(s) - Len(top) + Len(top) = Len(s)
      BY <2>14, <2>1, <3>1
    <3> QED
      BY <2>14, <3>1, <3>2
  <2>3. Len(top) = 4 /\ Becomes(top, rule) = <<top[1], top[4]>> /\ top[4].kind = 257
    <3>1. top[Len(top)].kind = 257
      BY <2>2 DEF EndsIn
    <3> QED
      BY <2>0, <3>1, RuleLast
  <2> DEFINE pair == <<top[1], top[4]>>
             s2 == below \o pair
  <2>4. pair \in Seq(Lexeme) /\ Len(pair) = 2 /\ pair[2] = top[4]
    <3>0. 1 \in 1 .. Len(top) /\ 4 \in 1 .. Len(top)
      BY <2>3
    <3>1. top[1] \in Lexeme /\ top[4] \in Lexeme
      BY <3>0
    <3> QED
      BY <3>1, TupleTypes, TupleItems
  <2> HIDE DEF pair
  <2>5. Len(below \o pair) = Len(below) + Len(pair) /\ Len(below) \in Nat
        /\ (below \o pair)[Len(below \o pair) - Len(pair) + 2] = pair[2]
    <3>1. /\ Len(below \o pair) = Len(below) + Len(pair) /\ Len(below) \in Nat
          /\ \A k \in 1 .. Len(pair) : (below \o pair)[Len(below \o pair) - Len(pair) + k] = pair[k]
      <4>1. Len(below \o pair) = Len(below) + Len(pair) /\ Len(below) \in Nat
        BY <2>4, TopOfStack
      <4>2. \A k \in 1 .. Len(pair) : (below \o pair)[Len(below \o pair) - Len(pair) + k] = pair[k]
        BY <2>4, TopOfStack
      <4> QED
        BY <4>1, <4>2
    <3>2. 2 \in 1 .. Len(pair)
      BY <2>4
    <3> QED
      BY <3>1, <3>2
  <2>6. Len(s2) >= 2 /\ s2[Len(s2)] = top[4]
    BY <2>4, <2>5
  <2>7. s2 \in Seq(Lexeme) /\ Reduce(Between(s, m)) = Between(s2, Recorded(below, top, m))
    BY <2>14, <2>3 DEF pair
  <2> HIDE DEF s2
  <2>8. s2 # <<>>
    BY <2>6, <2>7
  <2>9. PICK m2 \in Seq(Member) : m2 = Recorded(below, top, m)
    BY <2>14
  <2>10. s2[Len(s2)].kind = 257
    BY <2>3, <2>6
  <2>11. Reduce(Between(s, m)) = Between(s2, m2) /\ s2 \in Seq(Lexeme)
    BY <2>7, <2>9
  <2>12. EndsIn(s2, 257)
    BY <2>8, <2>10 DEF EndsIn
  <2>13. s2 \in Seq(Lexeme)
    BY <2>11
  <2> WITNESS s2 \in Seq(Lexeme), m2 \in Seq(Member)
  <2> QED
    BY <2>11, <2>12
<1> QED
  BY <1>1, <1>2, ReduceCases

(* So a line that ends in a value is no record.                              *)
LEMMA ValueIsNoRecord ==
  ASSUME NEW s \in Seq(Lexeme), NEW m \in Seq(Member), NEW t \in Lexeme, t.kind = 257
  PROVE  \E s2 \in Seq(Lexeme), m2 \in Seq(Member) :
           Push(s, m, t) = Between(s2, m2) /\ ~ IsRecord(s2)
<1> DEFINE a == Append(s, t)
<1>1. a \in Seq(Lexeme) /\ EndsIn(a, 257)
  BY AppendProperties DEF EndsIn
<1> HIDE DEF a
<1>2. PICK s1 \in Seq(Lexeme), m1 \in Seq(Member) :
        Reduce(Between(a, m)) = Between(s1, m1) /\ EndsIn(s1, 257)
  BY <1>1, ValueStays
<1>3. PICK s2 \in Seq(Lexeme), m2 \in Seq(Member) :
        Reduce(Between(s1, m1)) = Between(s2, m2) /\ EndsIn(s2, 257)
  BY <1>2, ValueStays
<1>4. Push(s, m, t) = Between(s2, m2)
  BY <1>2, <1>3 DEF Push, a
<1>5. ~ IsRecord(s2)
  BY <1>3, KindsAre DEF IsRecord, EndsIn
<1> QED
  BY <1>4, <1>5

(* Where a literal stops.                                                    *)
LiteralStop(line, p) ==
  Min({q \in p .. Len(line) : q < Len(line) => line[q + 1] \in {Comma, RightBrace, RightBracket}})

(* The next delimiter, step by step.                                         *)
LEMMA LiteralStops ==
  ASSUME NEW line \in Seq(Byte), NEW p \in 0 .. Len(line)
  PROVE  LET ends == ~ (p < Len(line) /\ line[p + 1] \notin {Comma, RightBrace, RightBracket})
         IN /\ LiteralStop(line, p) \in p .. Len(line)
            /\ ends => LiteralStop(line, p) = p
            /\ ~ ends => LiteralStop(line, p) = LiteralStop(line, p + 1)
<1> DEFINE n == Len(line)
           Stops(q) == q < n => line[q + 1] \in {Comma, RightBrace, RightBracket}
           T(from) == {q \in from .. n : Stops(q)}
<1>1. n \in Nat /\ p \in 0 .. n
  OBVIOUS
<1>2. \A from : LiteralStop(line, from) = Min(T(from))
  BY DEF LiteralStop
<1> HIDE DEF n
<1>3. Stops(n)
  BY <1>1
<1> HIDE DEF Stops
<1>4. ASSUME NEW from \in 0 .. n
      PROVE  /\ LiteralStop(line, from) \in from .. n /\ Stops(LiteralStop(line, from))
             /\ \A q \in from .. n : Stops(q) => LiteralStop(line, from) <= q
  <2>1. T(from) \subseteq Nat /\ n \in T(from)
    BY <1>1, <1>3, <1>4
  <2>2. PICK k \in T(from) : \A q \in T(from) : k <= q
    <3> HIDE DEF T
    <3> QED
      BY <2>1, LeastNatural
  <2>3. Min(T(from)) = k
    <3> HIDE DEF T
    <3> QED
      BY <2>1, <2>2, MinIs
  <2>4. LiteralStop(line, from) = k
    BY <1>2, <2>3
  <2> QED
    BY <2>2, <2>4
<1> DEFINE q == LiteralStop(line, p)
<1>5. q \in p .. n /\ Stops(q) /\ \A j \in p .. n : Stops(j) => q <= j
  BY <1>1, <1>4
<1>6. CASE ~ Stops(p)
  <2> DEFINE r == LiteralStop(line, p + 1)
  <2>1. p + 1 \in 0 .. n
    BY <1>1, <1>3, <1>6
  <2>2. r \in p + 1 .. n /\ Stops(r) /\ \A j \in p + 1 .. n : Stops(j) => r <= j
    BY <1>4, <2>1
  <2>3. q # p
    BY <1>5, <1>6
  <2> HIDE DEF q, r
  <2>4. q \in p + 1 .. n /\ r \in p .. n
    BY <1>1, <1>5, <2>2, <2>3
  <2>5. r <= q /\ q <= r
    BY <1>5, <2>2, <2>4
  <2>6. q = r
    BY <1>1, <2>4, <2>5
  <2> QED
    BY <1>5, <1>6, <2>6 DEF q, r, Stops, n
<1>7. CASE Stops(p)
  <2>1. p \in p .. n
    BY <1>1
  <2> HIDE DEF q
  <2>2. q <= p
    BY <1>5, <1>7, <2>1
  <2>3. q = p
    BY <1>1, <1>5, <2>2
  <2> QED
    BY <1>5, <1>7, <2>3 DEF q, Stops, n
<1> QED
  BY <1>6, <1>7

(* A literal is read up to where it stops.                                   *)
LiteralRead(line, ids, s, m, p) ==
  \A x \in Seq(Byte) :
    LET y == x \o SubSeq(line, p + 1, LiteralStop(line, p))
    IN ids[p][In("literal", x, 0, s, m)] =
         IF IsLiteral(y) THEN ids[LiteralStop(line, p)][Push(s, m, Item(ValueToken, y))] ELSE {}

(* One byte of a literal.                                                    *)
LEMMA LiteralReadStep ==
  ASSUME NEW line \in Seq(Byte), NEW field, NEW ids, Judged(line, field, ids),
         NEW s \in Seq(Lexeme), NEW m \in Seq(Member), NEW p \in 0 .. Len(line),
         p < Len(line) => LiteralRead(line, ids, s, m, p + 1)
  PROVE  LiteralRead(line, ids, s, m, p)
<1> DEFINE n == Len(line)
           e == LiteralStop(line, p)
           TokenOf(y) == Item(ValueToken, y)
<1> SUFFICES ASSUME NEW x \in Seq(Byte)
             PROVE  LET y == x \o SubSeq(line, p + 1, e)
                    IN ids[p][In("literal", x, 0, s, m)] =
                         IF IsLiteral(y) THEN ids[e][Push(s, m, TokenOf(y))] ELSE {}
  BY DEF LiteralRead
<1> DEFINE r == In("literal", x, 0, s, m)
           y == x \o SubSeq(line, p + 1, e)
<1>0. n \in Nat /\ r \in Readings /\ r.mode = "literal"
  BY InType DEF Modes
<1>1. \A z \in Seq(Byte) : TokenOf(z) \in Lexeme /\ TokenOf(z).kind = 257
  BY KindsAre DEF Item, Lexeme
<1>2. e \in p .. n /\ y \in Seq(Byte) /\ (e = p => y = x)
  <2>1. e \in p .. n
    BY LiteralStops
  <2> HIDE DEF e
  <2>2. SubSeq(line, p + 1, e) \in Seq(Byte) /\ (p = e => x \o SubSeq(line, p + 1, e) = x)
    BY <2>1, Grown
  <2> QED
    BY <2>1, <2>2, ConcatProperties
<1>3. CASE p = n
  <2>1. ids[p][r] = {}
    BY <1>0, <1>3, JudgedEnd
  <2>2. e = p
    BY <1>0, <1>2, <1>3
  <2>3. PICK s2 \in Seq(Lexeme), m2 \in Seq(Member) :
          Push(s, m, TokenOf(y)) = Between(s2, m2) /\ ~ IsRecord(s2)
    BY <1>1, <1>2, ValueIsNoRecord
  <2>4. ids[n][Between(s2, m2)] = {}
    BY <2>3, JudgedEnd
  <2> HIDE DEF r, e, TokenOf, y, n
  <2>5. ids[e][Push(s, m, TokenOf(y))] = {}
    BY <1>3, <2>2, <2>3, <2>4
  <2> QED
    BY <2>1, <2>5 DEF r, y
<1>4. CASE p # n
  <2> DEFINE b == line[p + 1]
  <2>1. p \in 0 .. n - 1 /\ b \in Byte /\ p + 1 \in p + 1 .. n /\ p + 1 \in 0 .. n /\ p < n
    BY <1>0, <1>4
  <2>2. /\ b \in {Comma, RightBrace, RightBracket} => e = p
        /\ b \notin {Comma, RightBrace, RightBracket} => e = LiteralStop(line, p + 1)
    BY <2>1, LiteralStops
  <2>3. Read(r, b) =
          IF b \notin {Comma, RightBrace, RightBracket} THEN {In("literal", x \o <<b>>, 0, s, m)}
          ELSE IF IsLiteral(x) THEN Read(Push(s, m, TokenOf(x)), b)
          ELSE {}
    <3>1. LiteralByte(s, m, x, b)
      BY <2>1, ReadLiteral
    <3> QED
      BY <3>1 DEF LiteralByte
  <2>4. \A q \in Readings : ids[p][q] = UNION {ids[p + 1][t] : t \in Read(q, b)}
    BY <2>1 DEF Judged
  <2>5. CASE b \in {Comma, RightBrace, RightBracket}
    <3>1. e = p /\ y = x
      BY <1>2, <2>2, <2>5
    <3>2. PICK s2 \in Seq(Lexeme), m2 \in Seq(Member) : Push(s, m, TokenOf(x)) = Between(s2, m2)
      BY <1>1, PushType
    <3>3. Push(s, m, TokenOf(x)) \in Readings
      BY <3>2, BetweenType
    <3>4. Read(r, b) = IF IsLiteral(x) THEN Read(Push(s, m, TokenOf(x)), b) ELSE {}
      BY <2>3, <2>5
    <3> DEFINE v == Push(s, m, TokenOf(x))
    <3> HIDE DEF v, r, e, b, TokenOf, y
    <3>5. ids[p][r] = UNION {ids[p + 1][t] : t \in Read(r, b)}
      BY <1>0, <2>4
    <3>6. ids[p][v] = UNION {ids[p + 1][t] : t \in Read(v, b)}
      BY <2>4, <3>3 DEF v
    <3>7. IsLiteral(x) => ids[p][r] = ids[p][v]
      BY <3>4, <3>5, <3>6 DEF v
    <3>8. ~ IsLiteral(x) => ids[p][r] = {}
      BY <3>4, <3>5
    <3>9. ids[p][r] = IF IsLiteral(y) THEN ids[e][Push(s, m, TokenOf(y))] ELSE {}
      BY <3>1, <3>7, <3>8 DEF v
    <3> QED
      BY <3>9 DEF r, y
  <2>6. CASE b \notin {Comma, RightBrace, RightBracket}
    <3> DEFINE q == In("literal", x \o <<b>>, 0, s, m)
               xb == x \o <<b>>
    <3>1. Read(r, b) = {q}
      BY <2>3, <2>6
    <3>2. ids[p][r] = ids[p + 1][q]
      <4> HIDE DEF r, q, b, n
      <4>1. ids[p][r] = UNION {ids[p + 1][t] : t \in Read(r, b)}
        BY <1>0, <2>4
      <4>2. ids[p][r] = UNION {ids[p + 1][t] : t \in {q}}
        BY <3>1, <4>1
      <4> QED
        BY <4>2
    <3>3. xb \in Seq(Byte)
      BY <2>1
    <3>4. e = LiteralStop(line, p + 1)
      BY <2>2, <2>6
    <3>5. e \in p + 1 .. n
      BY <2>1, <3>4, LiteralStops
    <3>6. xb \o SubSeq(line, p + 1 + 1, e) = y
      <4>1. p < e /\ e \in p .. n /\ p + 1 + 1 = p + 2
        BY <1>2, <3>5
      <4> HIDE DEF e
      <4>2. (x \o <<line[p + 1]>>) \o SubSeq(line, p + 2, e) = x \o SubSeq(line, p + 1, e)
        BY <4>1, Grown
      <4> QED
        BY <4>1, <4>2
    <3>7. ids[p + 1][In("literal", xb, 0, s, m)] =
            IF IsLiteral(xb \o SubSeq(line, p + 1 + 1, LiteralStop(line, p + 1)))
            THEN ids[LiteralStop(line, p + 1)][Push(s, m, TokenOf(xb \o SubSeq(line, p + 1 + 1, LiteralStop(line, p + 1))))]
            ELSE {}
      <4>1. LiteralRead(line, ids, s, m, p + 1)
        BY <2>1
      <4> HIDE DEF xb
      <4> QED
        BY <3>3, <4>1 DEF LiteralRead
    <3>8. ids[p][r] = ids[p + 1][In("literal", xb, 0, s, m)]
      BY <3>2
    <3> HIDE DEF r, q, e, y, xb, TokenOf
    <3>9. ids[p][r] = IF IsLiteral(y) THEN ids[e][Push(s, m, TokenOf(y))] ELSE {}
      BY <3>4, <3>6, <3>7, <3>8
    <3> QED
      BY <3>9 DEF r, y
  <2> QED
    BY <2>5, <2>6
<1> QED
  BY <1>3, <1>4

(* A literal reads as Literal finds it.                                      *)
LEMMA LiteralReads ==
  ASSUME NEW line \in Seq(Byte), NEW field, NEW ids, Judged(line, field, ids),
         NEW s \in Seq(Lexeme), NEW m \in Seq(Member)
  PROVE  \A p \in 0 .. Len(line) : LiteralRead(line, ids, s, m, p)
<1> DEFINE n == Len(line)
           S == {p \in 0 .. n : LiteralRead(line, ids, s, m, p)}
<1>1. n \in Nat
  OBVIOUS
<1>2. ASSUME NEW p \in 0 .. n, \A j \in p + 1 .. n : j \in S PROVE p \in S
  <2>1. p < n => p + 1 \in p + 1 .. n
    BY <1>1
  <2>2. p < n => LiteralRead(line, ids, s, m, p + 1)
    BY <1>2, <2>1
  <2> QED
    BY <2>2, LiteralReadStep
<1> HIDE DEF S, n
<1>3. \A p \in 0 .. n : p \in S
  BY <1>1, <1>2, FromTheEnd
<1> QED
  BY <1>3 DEF S, n

(* The next token of the line.                                               *)
StructureAhead(line, ids, s, m, p) ==
  p < Len(line) /\ line[p + 1] \in Structure =>
    ids[p][Between(s, m)] = ids[p + 1][Push(s, m, Sign(line[p + 1]))]
StringAhead(line, ids, s, m, p) ==
  p < Len(line) /\ line[p + 1] = Quote =>
    \A id : id \in ids[p][Between(s, m)] <=>
              \E y \in ParseString(line, p) :
                id \in ids[y.end][Push(s, m, Item(StringToken, y.value))]
LiteralAhead(line, ids, s, m, p) ==
  p < Len(line) /\ line[p + 1] \notin Structure \cup {Quote} =>
    \A id : id \in ids[p][Between(s, m)] <=>
              \E e \in Literal(line, p) :
                id \in ids[e][Push(s, m, Item(ValueToken, SubSeq(line, p + 1, e)))]

(* Each kind of token reads as the scanner finds it.                         *)
LEMMA TokenAhead ==
  ASSUME NEW line \in Seq(Byte), NEW field, NEW ids, Judged(line, field, ids),
         NEW s \in Seq(Lexeme), NEW m \in Seq(Member), NEW p \in 0 .. Len(line),
         SkipSpace(line, p) = p
  PROVE  /\ StructureAhead(line, ids, s, m, p)
         /\ StringAhead(line, ids, s, m, p)
         /\ LiteralAhead(line, ids, s, m, p)
<1> DEFINE n == Len(line)
           b == line[p + 1]
           r == Between(s, m)
<1>1. n \in Nat
  OBVIOUS
<1>2. ASSUME p < n
      PROVE  /\ p \in 0 .. n - 1 /\ p + 1 \in 0 .. n /\ b \in Byte /\ b \notin Space
             /\ ByteRead(ids, p, s, m, b)
  <2>1. p \in 0 .. n - 1 /\ p + 1 \in 0 .. n /\ b \in Byte
    BY <1>1, <1>2
  <2>2. b \notin Space
    BY <1>2, SpaceEnds
  <2>3. ByteRead(ids, p, s, m, b)
    BY <2>1, JudgedBetween
  <2> QED
    BY <2>1, <2>2, <2>3
<1>3. StructureAhead(line, ids, s, m, p)
  BY <1>2 DEF ByteRead, StructureAhead
<1>4. StringAhead(line, ids, s, m, p)
  <2> SUFFICES ASSUME p < n, b = Quote, NEW id
               PROVE  id \in ids[p][r] <=>
                        \E y \in ParseString(line, p) :
                          id \in ids[y.end][Push(s, m, Item(StringToken, y.value))]
    BY DEF StringAhead
  <2> DEFINE q == In("string", <<>>, 0, s, m)
             rest == StringRest(line)[p + 1]
  <2>1. ids[p][r] = ids[p + 1][q]
    BY <1>2 DEF ByteRead
  <2>2. id \in ids[p + 1][q] <=> StringsEnd(ids, id, s, m, rest, <<>>)
    <3>1. StringRead(line, ids, s, m, p + 1)
      BY <1>2, StringReads
    <3>2. <<>> \in Seq(Byte)
      OBVIOUS
    <3> QED
      BY <3>1, <3>2 DEF StringRead
  <2>3. ParseString(line, p) = rest
    <3>1. At(line, p, Quote)
      BY DEF At
    <3>2. \A from : ParseString(line, from) = IF At(line, from, Quote) THEN StringRest(line)[from + 1] ELSE {}
      BY StringRuns
    <3> QED
      BY <3>1, <3>2
  <2>4. \A y \in rest : <<>> \o y.value = y.value
    <3>1. rest \subseteq StringsWithin(p + 1 + 1, n)
      BY <1>2, StringRuns
    <3>2. \A y \in rest : y.value \in Seq(Byte)
      BY <3>1 DEF StringsWithin
    <3> QED
      BY <3>2, ConcatEmptySeq
  <2> HIDE DEF r, q, rest
  <2>5. StringsEnd(ids, id, s, m, rest, <<>>) <=>
          \E y \in rest : id \in ids[y.end][Push(s, m, Item(StringToken, y.value))]
    BY <2>4 DEF StringsEnd
  <2> QED
    BY <2>1, <2>2, <2>3, <2>5
<1>5. LiteralAhead(line, ids, s, m, p)
  <2> SUFFICES ASSUME p < n, b \notin Structure \cup {Quote}, NEW id
               PROVE  id \in ids[p][r] <=>
                        \E e \in Literal(line, p) :
                          id \in ids[e][Push(s, m, Item(ValueToken, SubSeq(line, p + 1, e)))]
    BY DEF LiteralAhead
  <2> DEFINE q == In("literal", <<b>>, 0, s, m)
             e == LiteralStop(line, p)
             y == SubSeq(line, p + 1, e)
             one == <<b>>
             v == Push(s, m, Item(ValueToken, y))
  <2>1. ids[p][r] = ids[p + 1][q]
    BY <1>2 DEF ByteRead
  <2>2. b \notin {Comma, RightBrace, RightBracket}
    BY KindsAre
  <2>3. e = LiteralStop(line, p + 1) /\ e \in p + 1 .. n /\ p + 1 + 1 = p + 2
    BY <1>2, <2>2, LiteralStops
  <2>4. one \in Seq(Byte)
    BY <1>2
  <2>5. ids[p + 1][q] = IF IsLiteral(one \o SubSeq(line, p + 2, e))
                        THEN ids[e][Push(s, m, Item(ValueToken, one \o SubSeq(line, p + 2, e)))]
                        ELSE {}
    <3>1. LiteralRead(line, ids, s, m, p + 1)
      BY <1>2, LiteralReads
    <3> HIDE DEF one
    <3>2. ids[p + 1][In("literal", one, 0, s, m)] =
            IF IsLiteral(one \o SubSeq(line, p + 1 + 1, LiteralStop(line, p + 1)))
            THEN ids[LiteralStop(line, p + 1)][Push(s, m, Item(ValueToken, one \o SubSeq(line, p + 1 + 1, LiteralStop(line, p + 1))))]
            ELSE {}
      BY <2>4, <3>1 DEF LiteralRead
    <3> HIDE DEF e
    <3>3. ids[p + 1][In("literal", one, 0, s, m)] =
            IF IsLiteral(one \o SubSeq(line, p + 2, e))
            THEN ids[e][Push(s, m, Item(ValueToken, one \o SubSeq(line, p + 2, e)))]
            ELSE {}
      BY <2>3, <3>2
    <3> QED
      BY <3>3 DEF one
  <2>6. one \o SubSeq(line, p + 2, e) = y
    <3>1. p + 1 \in 1 .. n /\ e \in p + 1 .. n /\ p + 1 + 1 = p + 2
      BY <1>2, <2>3
    <3> HIDE DEF e
    <3> QED
      BY <3>1, SubSeqRecursiveFirst
  <2>7. Literal(line, p) = IF IsLiteral(y) THEN {e} ELSE {}
    BY DEF Literal, LiteralStop
  <2> HIDE DEF r, q, e, one, y
  <2>8. ids[p][r] = IF IsLiteral(y) THEN ids[e][v] ELSE {}
    BY <2>1, <2>5, <2>6
  <2>9. IsLiteral(y) => Literal(line, p) = {e}
    BY <2>7
  <2>10. ~ IsLiteral(y) => Literal(line, p) = {}
    BY <2>7
  <2>11. v = Push(s, m, Item(ValueToken, SubSeq(line, p + 1, e)))
    BY DEF y
  <2> HIDE DEF v
  <2> QED
    BY <2>8, <2>9, <2>10, <2>11
<1> QED
  BY <1>3, <1>4, <1>5

-----------------------------------------------------------------------------
(* Stacks that come to nothing.                                              *)

(* What may stand on a stack, by its kind c and those before it: b, a, d.    *)
(* A value goes behind a colon, a bracket, or a comma of an array.           *)
KindAt(s, k) == IF k >= 1 THEN s[k].kind ELSE 0
Slot(d, b) == b \in {58, 91} \/ (b = 44 /\ d = 91)
Fit(d, a, b, c) ==
  /\ c \in {123, 258} => b = 0 \/ Slot(d, b)
  /\ c \in {91, 257} => Slot(d, b)
  /\ c = 256 => Slot(d, b) \/ b \in {123, 44}
  /\ c = 58 => a = 123 /\ b = 256
  /\ c = 44 => a \in {58, 91} /\ b \in 256 .. 258
  /\ c = 125 => b = 123 \/ (a = 58 /\ b \in 256 .. 258)
  /\ c = 93 => b = 91 \/ (a = 91 /\ b \in 256 .. 258)
FitsAt(s, k) == Fit(KindAt(s, k - 3), KindAt(s, k - 2), KindAt(s, k - 1), KindAt(s, k))
Doomed(s) == \E k \in 1 .. Len(s) : ~ FitsAt(s, k)

(* What stands on a stack does not depend on what comes on top of it.        *)
LEMMA FitsBelow ==
  ASSUME NEW s, NEW u, NEW b \in Nat, \A i \in 1 .. b : s[i] = u[i]
  PROVE  /\ \A k \in 1 .. b : FitsAt(s, k) <=> FitsAt(u, k)
         /\ \A k : k <= b /\ k \in Int => KindAt(s, k) = KindAt(u, k)
<1>1. ASSUME NEW k \in Int, k <= b PROVE KindAt(s, k) = KindAt(u, k)
  <2>1. k >= 1 => k \in 1 .. b
    BY <1>1
  <2> QED
    BY <1>1, <2>1 DEF KindAt
<1>2. ASSUME NEW k \in 1 .. b PROVE FitsAt(s, k) <=> FitsAt(u, k)
  <2>1. /\ k \in Int /\ k - 1 \in Int /\ k - 2 \in Int /\ k - 3 \in Int
        /\ k <= b /\ k - 1 <= b /\ k - 2 <= b /\ k - 3 <= b
    OBVIOUS
  <2>2. /\ KindAt(s, k) = KindAt(u, k) /\ KindAt(s, k - 1) = KindAt(u, k - 1)
        /\ KindAt(s, k - 2) = KindAt(u, k - 2) /\ KindAt(s, k - 3) = KindAt(u, k - 3)
    BY <1>1, <2>1
  <2> QED
    BY <2>2 DEF FitsAt
<1> QED
  BY <1>1, <1>2

(* What is put on top of such a stack leaves it one.                         *)
LEMMA DoomedAppend ==
  ASSUME NEW s \in Seq(Lexeme), NEW t \in Lexeme, Doomed(s)
  PROVE  Append(s, t) \in Seq(Lexeme) /\ Doomed(Append(s, t))
<1> DEFINE u == Append(s, t)
<1>1. /\ u \in Seq(Lexeme) /\ Len(u) = Len(s) + 1 /\ Len(s) \in Nat
      /\ \A i \in 1 .. Len(s) : s[i] = u[i]
  BY AppendProperties
<1>2. PICK k \in 1 .. Len(s) : ~ FitsAt(s, k)
  BY DEF Doomed
<1> HIDE DEF u
<1>3. k \in 1 .. Len(u) /\ ~ FitsAt(u, k)
  <2>1. FitsAt(s, k) <=> FitsAt(u, k)
    BY <1>1, FitsBelow
  <2> QED
    BY <1>1, <1>2, <2>1
<1>4. u \in Seq(Lexeme) /\ Doomed(u)
  BY <1>1, <1>3 DEF Doomed
<1> QED
  BY <1>4 DEF u

(* What fits at the places behind b, by the kinds there.                     *)
LEMMA FitsBehind ==
  ASSUME NEW b \in Nat, NEW s
  PROVE  LET K(i) == s[b + i].kind
             x == KindAt(s, b)
             y == KindAt(s, b - 1)
             z == KindAt(s, b - 2)
         IN /\ FitsAt(s, b + 1) <=> Fit(z, y, x, K(1))
            /\ FitsAt(s, b + 2) <=> Fit(y, x, K(1), K(2))
            /\ FitsAt(s, b + 3) <=> Fit(x, K(1), K(2), K(3))
            /\ FitsAt(s, b + 4) <=> Fit(K(1), K(2), K(3), K(4))
            /\ FitsAt(s, b + 5) <=> Fit(K(2), K(3), K(4), K(5))
            /\ FitsAt(s, b + 6) <=> Fit(K(3), K(4), K(5), K(6))
<1>1. /\ b + 1 - 3 = b - 2 /\ b + 1 - 2 = b - 1 /\ b + 1 - 1 = b
      /\ b + 2 - 3 = b - 1 /\ b + 2 - 2 = b /\ b + 2 - 1 = b + 1
      /\ b + 3 - 3 = b /\ b + 3 - 2 = b + 1 /\ b + 3 - 1 = b + 2
      /\ b + 4 - 3 = b + 1 /\ b + 4 - 2 = b + 2 /\ b + 4 - 1 = b + 3
      /\ b + 5 - 3 = b + 2 /\ b + 5 - 2 = b + 3 /\ b + 5 - 1 = b + 4
      /\ b + 6 - 3 = b + 3 /\ b + 6 - 2 = b + 4 /\ b + 6 - 1 = b + 5
  OBVIOUS
<1>2. /\ KindAt(s, b + 1) = s[b + 1].kind /\ KindAt(s, b + 2) = s[b + 2].kind
      /\ KindAt(s, b + 3) = s[b + 3].kind /\ KindAt(s, b + 4) = s[b + 4].kind
      /\ KindAt(s, b + 5) = s[b + 5].kind /\ KindAt(s, b + 6) = s[b + 6].kind
  <2>1. /\ b + 1 >= 1 /\ b + 2 >= 1 /\ b + 3 >= 1 /\ b + 4 >= 1 /\ b + 5 >= 1 /\ b + 6 >= 1
    OBVIOUS
  <2> QED
    BY <2>1, Zenon DEF KindAt
<1>3. /\ FitsAt(s, b + 1) <=> Fit(KindAt(s, b - 2), KindAt(s, b - 1), KindAt(s, b), s[b + 1].kind)
      /\ FitsAt(s, b + 2) <=> Fit(KindAt(s, b - 1), KindAt(s, b), s[b + 1].kind, s[b + 2].kind)
      /\ FitsAt(s, b + 3) <=> Fit(KindAt(s, b), s[b + 1].kind, s[b + 2].kind, s[b + 3].kind)
  BY <1>1, <1>2 DEF FitsAt
<1>4. /\ FitsAt(s, b + 4) <=> Fit(s[b + 1].kind, s[b + 2].kind, s[b + 3].kind, s[b + 4].kind)
      /\ FitsAt(s, b + 5) <=> Fit(s[b + 2].kind, s[b + 3].kind, s[b + 4].kind, s[b + 5].kind)
      /\ FitsAt(s, b + 6) <=> Fit(s[b + 3].kind, s[b + 4].kind, s[b + 5].kind, s[b + 6].kind)
  BY <1>1, <1>2 DEF FitsAt
<1> QED
  BY <1>3, <1>4

(* What a rule leaves fits where what it takes did.                          *)
LEMMA FitRules ==
  ASSUME NEW x, NEW y, NEW z
  PROVE  /\ Fit(z, y, x, 258) => Fit(z, y, x, 123)
         /\ Fit(z, y, x, 257) => Fit(z, y, x, 91)
         /\ Fit(y, x, 123, 125) /\ Fit(y, x, 91, 93) /\ Fit(y, x, 123, 256) /\ Fit(x, 123, 256, 58)
         /\ \A v \in 256 .. 258 :
              /\ Fit(123, 256, 58, v) /\ Fit(256, 58, v, 125) /\ Fit(256, 58, v, 44)
              /\ Fit(58, v, 44, 256) /\ Fit(y, x, 91, v) /\ Fit(x, 91, v, 93) /\ Fit(x, 91, v, 44)
              /\ \A w \in 256 .. 258 : Fit(91, v, 44, w)
BY DEF Fit, Slot

(* What fits where a rule has replaced the top fitted before.                *)
LEMMA FitsTop ==
  ASSUME NEW b \in Nat, NEW s, NEW u, NEW top, NEW becomes, RuleTop(top, becomes),
         \A i \in 1 .. b : s[i] = u[i],
         \A i \in 1 .. Len(top) : s[b + i] = top[i],
         u[b + 1] = becomes[1],
         FitsAt(u, b + 1)
  PROVE  \A i \in 1 .. Len(top) : FitsAt(s, b + i)
<1> DEFINE x == KindAt(s, b)
           y == KindAt(s, b - 1)
           z == KindAt(s, b - 2)
           K(i) == s[b + i].kind
<1>1. x = KindAt(u, b) /\ y = KindAt(u, b - 1) /\ z = KindAt(u, b - 2)
  <2>1. /\ b \in Int /\ b - 1 \in Int /\ b - 2 \in Int
        /\ b <= b /\ b - 1 <= b /\ b - 2 <= b
    OBVIOUS
  <2>2. \A k : k <= b /\ k \in Int => KindAt(s, k) = KindAt(u, k)
    BY FitsBelow
  <2> QED
    BY <2>1, <2>2
<1>2. Fit(z, y, x, becomes[1].kind)
  BY <1>1, FitsBehind
<1>3. /\ FitsAt(s, b + 1) <=> Fit(z, y, x, K(1))
      /\ FitsAt(s, b + 2) <=> Fit(y, x, K(1), K(2))
      /\ FitsAt(s, b + 3) <=> Fit(x, K(1), K(2), K(3))
      /\ FitsAt(s, b + 4) <=> Fit(K(1), K(2), K(3), K(4))
      /\ FitsAt(s, b + 5) <=> Fit(K(2), K(3), K(4), K(5))
      /\ FitsAt(s, b + 6) <=> Fit(K(3), K(4), K(5), K(6))
  BY FitsBehind
<1>4. \A i \in 1 .. Len(top) : K(i) = top[i].kind
  OBVIOUS
<1>5. ObjectToken = 258 /\ ValueToken = 257
  BY KindsAre
<1> HIDE DEF x, y, z, K
<1> DEFINE Fits(i) == FitsAt(s, b + i)
<1>6. CASE /\ Len(top) = 2 /\ top[1].kind = 123 /\ top[2].kind = 125
           /\ becomes = <<Sign(ObjectToken)>>
  <2>1. becomes[1].kind = 258
    BY <1>5, <1>6 DEF Sign, Item
  <2>2. K(1) = 123 /\ K(2) = 125
    BY <1>4, <1>6
  <2>3. Fits(1) /\ Fits(2)
    BY <1>2, <1>3, <2>1, <2>2, FitRules
  <2> HIDE DEF Fits
  <2>4. \A i \in 1 .. Len(top) : Fits(i)
    BY <1>6, <2>3
  <2> QED
    BY <2>4 DEF Fits
<1>7. CASE /\ Len(top) = 5 /\ top[1].kind = 123 /\ top[2].kind = 256 /\ top[3].kind = 58
           /\ top[4].kind \in 256 .. 258 /\ top[5].kind = 125
           /\ becomes = <<Sign(ObjectToken)>>
  <2>1. becomes[1].kind = 258
    BY <1>5, <1>7 DEF Sign, Item
  <2>2. K(1) = 123 /\ K(2) = 256 /\ K(3) = 58 /\ K(4) \in 256 .. 258 /\ K(5) = 125
    BY <1>4, <1>7
  <2>3. Fits(1) /\ Fits(2) /\ Fits(3) /\ Fits(4) /\ Fits(5)
    BY <1>2, <1>3, <2>1, <2>2, FitRules
  <2> HIDE DEF Fits
  <2>4. \A i \in 1 .. Len(top) : Fits(i)
    BY <1>7, <2>3
  <2> QED
    BY <2>4 DEF Fits
<1>8. CASE /\ Len(top) = 2 /\ top[1].kind = 91 /\ top[2].kind = 93
           /\ becomes = <<Sign(ValueToken)>>
  <2>1. becomes[1].kind = 257
    BY <1>5, <1>8 DEF Sign, Item
  <2>2. K(1) = 91 /\ K(2) = 93
    BY <1>4, <1>8
  <2>3. Fits(1) /\ Fits(2)
    BY <1>2, <1>3, <2>1, <2>2, FitRules
  <2> HIDE DEF Fits
  <2>4. \A i \in 1 .. Len(top) : Fits(i)
    BY <1>8, <2>3
  <2> QED
    BY <2>4 DEF Fits
<1>9. CASE /\ Len(top) = 3 /\ top[1].kind = 91 /\ top[2].kind \in 256 .. 258 /\ top[3].kind = 93
           /\ becomes = <<Sign(ValueToken)>>
  <2>1. becomes[1].kind = 257
    BY <1>5, <1>9 DEF Sign, Item
  <2>2. K(1) = 91 /\ K(2) \in 256 .. 258 /\ K(3) = 93
    BY <1>4, <1>9
  <2>3. Fits(1) /\ Fits(2) /\ Fits(3)
    BY <1>2, <1>3, <2>1, <2>2, FitRules
  <2> HIDE DEF Fits
  <2>4. \A i \in 1 .. Len(top) : Fits(i)
    BY <1>9, <2>3
  <2> QED
    BY <2>4 DEF Fits
<1>10. CASE /\ Len(top) = 6 /\ top[1].kind = 123 /\ top[2].kind = 256 /\ top[3].kind = 58
            /\ top[4].kind \in 256 .. 258 /\ top[5].kind = 44 /\ top[6].kind = 256
            /\ becomes = <<top[1], top[6]>>
  <2>1. becomes[1].kind = 123
    BY <1>10
  <2>2. K(1) = 123 /\ K(2) = 256 /\ K(3) = 58 /\ K(4) \in 256 .. 258 /\ K(5) = 44 /\ K(6) = 256
    BY <1>4, <1>10
  <2>3. Fits(1) /\ Fits(2) /\ Fits(3) /\ Fits(4) /\ Fits(5) /\ Fits(6)
    BY <1>2, <1>3, <2>1, <2>2, FitRules, SMTT(30)
  <2> HIDE DEF Fits
  <2>4. \A i \in 1 .. Len(top) : Fits(i)
    BY <1>10, <2>3
  <2> QED
    BY <2>4 DEF Fits
<1>11. CASE /\ Len(top) = 4 /\ top[1].kind = 91 /\ top[2].kind \in 256 .. 258 /\ top[3].kind = 44
            /\ top[4].kind \in 256 .. 258 /\ becomes = <<top[1], top[4]>>
  <2>1. becomes[1].kind = 91
    BY <1>11
  <2>2. K(1) = 91 /\ K(2) \in 256 .. 258 /\ K(3) = 44 /\ K(4) \in 256 .. 258
    BY <1>4, <1>11
  <2>3. Fits(1) /\ Fits(2) /\ Fits(3) /\ Fits(4)
    BY <1>2, <1>3, <2>1, <2>2, FitRules
  <2> HIDE DEF Fits
  <2>4. \A i \in 1 .. Len(top) : Fits(i)
    BY <1>11, <2>3
  <2> QED
    BY <2>4 DEF Fits
<1> QED
  BY <1>6, <1>7, <1>8, <1>9, <1>10, <1>11 DEF RuleTop

(* One sequence behind another.                                              *)
LEMMA Laid ==
  ASSUME NEW T, NEW s \in Seq(T), NEW t \in Seq(T)
  PROVE  /\ Len(s \o t) = Len(s) + Len(t)
         /\ \A i \in 1 .. Len(s) : (s \o t)[i] = s[i]
         /\ \A i \in 1 .. Len(t) : (s \o t)[Len(s) + i] = t[i]
OBVIOUS

(* No rule saves such a stack.                                               *)
LEMMA DoomedReduce ==
  ASSUME NEW s \in Seq(Lexeme), NEW m \in Seq(Member), Doomed(s)
  PROVE  \E s2 \in Seq(Lexeme), m2 \in Seq(Member) :
           Reduce(Between(s, m)) = Between(s2, m2) /\ Doomed(s2)
<1>1. CASE Reduce(Between(s, m)) = Between(s, m)
  BY <1>1
<1>2. ASSUME NEW below \in Seq(Lexeme), NEW top \in Seq(Lexeme), NEW rule \in Rules,
             ReducesBy(s, m, below, top, rule)
      PROVE  \E s2 \in Seq(Lexeme), m2 \in Seq(Member) :
               Reduce(Between(s, m)) = Between(s2, m2) /\ Doomed(s2)
  <2> DEFINE becomes == Becomes(top, rule)
             u == below \o becomes
             b == Len(below)
  <2>1. /\ s = below \o top /\ Matches(top, rule)
        /\ u \in Seq(Lexeme) /\ Recorded(below, top, m) \in Seq(Member)
        /\ Reduce(Between(s, m)) = Between(u, Recorded(below, top, m))
    BY <1>2 DEF ReducesBy
  <2>2. RuleTop(top, becomes)
    BY <2>1, ReducedTop
  <2>3. becomes \in Seq(Lexeme) /\ Len(becomes) \in Nat /\ Len(becomes) >= 1
    <3>1. /\ Sign(ObjectToken) \in Lexeme /\ Sign(ValueToken) \in Lexeme
          /\ \A x \in Lexeme : <<x>> \in Seq(Lexeme) /\ Len(<<x>>) = 1
          /\ \A x, y \in Lexeme : <<x, y>> \in Seq(Lexeme) /\ Len(<<x, y>>) = 2
      BY SignType, KindsAre, TupleTypes, TupleItems
    <3>2. top[1] \in Lexeme /\ top[Len(top)] \in Lexeme
      <4>1. Len(top) = Len(rule) /\ Len(rule) \in 2 .. 6
        BY <2>1, RuleLengths DEF Matches
      <4>2. 1 \in 1 .. Len(top) /\ Len(top) \in 1 .. Len(top)
        BY <4>1
      <4> QED
        BY <4>2
    <3>3. CASE rule \in Continued
      <4>1. becomes = <<top[1], top[Len(top)]>>
        BY <3>3 DEF Becomes
      <4> HIDE DEF becomes
      <4> QED
        BY <3>1, <3>2, <4>1
    <3>4. CASE rule \notin Continued
      <4>1. becomes = <<Sign(ObjectToken)>> \/ becomes = <<Sign(ValueToken)>>
        BY <3>4 DEF Becomes, Sign
      <4>2. \A x \in Lexeme : /\ <<x>> \in Seq(Lexeme) /\ Len(<<x>>) \in Nat
                               /\ Len(<<x>>) >= 1
        BY <3>1
      <4> HIDE DEF becomes
      <4> QED
        BY <3>1, <4>1, <4>2, Zenon
    <3> QED
      BY <3>3, <3>4
  <2> HIDE DEF becomes
  <2>4. /\ b \in Nat /\ Len(top) \in Nat
        /\ Len(s) = b + Len(top) /\ Len(u) = b + Len(becomes)
        /\ \A i \in 1 .. b : s[i] = u[i]
        /\ \A i \in 1 .. Len(top) : s[b + i] = top[i]
        /\ u[b + 1] = becomes[1]
    <3>1. b \in Nat /\ Len(top) \in Nat /\ 1 \in 1 .. Len(becomes)
      BY <2>3
    <3>2. /\ Len(s) = b + Len(top)
          /\ \A i \in 1 .. b : s[i] = below[i]
          /\ \A i \in 1 .. Len(top) : s[b + i] = top[i]
      BY <2>1, Laid
    <3>3. /\ Len(u) = b + Len(becomes)
          /\ \A i \in 1 .. b : u[i] = below[i]
          /\ \A i \in 1 .. Len(becomes) : u[b + i] = becomes[i]
      BY <2>3, Laid
    <3> HIDE DEF u, b
    <3> QED
      BY <3>1, <3>2, <3>3
  <2> HIDE DEF u, b
  <2>5. Doomed(u)
    <3> SUFFICES ASSUME \A k \in 1 .. Len(u) : FitsAt(u, k) PROVE FALSE
      BY DEF Doomed
    <3>1. b + 1 \in 1 .. Len(u)
      BY <2>3, <2>4
    <3>2. FitsAt(u, b + 1)
      BY <3>1
    <3>3. \A i \in 1 .. Len(top) : FitsAt(s, b + i)
      BY <2>2, <2>4, <3>2, FitsTop
    <3>4. PICK k \in 1 .. Len(s) : ~ FitsAt(s, k)
      BY DEF Doomed
    <3>5. CASE k <= b
      <4>1. k \in 1 .. b /\ k \in 1 .. Len(u)
        BY <2>3, <2>4, <3>5
      <4>2. FitsAt(s, k) <=> FitsAt(u, k)
        BY <2>4, <4>1, FitsBelow
      <4> QED
        BY <3>4, <4>1, <4>2
    <3>6. CASE k > b
      <4>1. k - b \in 1 .. Len(top) /\ b + (k - b) = k
        BY <2>4, <3>6
      <4>2. FitsAt(s, b + (k - b))
        BY <3>3, <4>1
      <4> QED
        BY <3>4, <4>1, <4>2
    <3> QED
      BY <2>4, <3>5, <3>6
  <2> QED
    BY <2>1, <2>5
<1> QED
  BY <1>1, <1>2, ReduceCases

(* A token never mends such a stack.                                         *)
LEMMA DoomedPush ==
  ASSUME NEW s \in Seq(Lexeme), NEW m \in Seq(Member), NEW t \in Lexeme, Doomed(Append(s, t))
  PROVE  \E s2 \in Seq(Lexeme), m2 \in Seq(Member) : Push(s, m, t) = Between(s2, m2) /\ Doomed(s2)
<1> DEFINE a == Append(s, t)
<1>1. a \in Seq(Lexeme)
  BY AppendProperties
<1> HIDE DEF a
<1>2. PICK s1 \in Seq(Lexeme), m1 \in Seq(Member) :
        Reduce(Between(a, m)) = Between(s1, m1) /\ Doomed(s1)
  BY <1>1, DoomedReduce DEF a
<1>3. PICK s2 \in Seq(Lexeme), m2 \in Seq(Member) :
        Reduce(Between(s1, m1)) = Between(s2, m2) /\ Doomed(s2)
  BY <1>2, DoomedReduce
<1>4. Push(s, m, t) = Between(s2, m2)
  BY <1>2, <1>3 DEF Push, a
<1> QED
  BY <1>3, <1>4

(* Nor is it a record.                                                       *)
LEMMA DoomedIsNoRecord ==
  ASSUME NEW s \in Seq(Lexeme), Doomed(s)
  PROVE  ~ IsRecord(s)
<1> SUFFICES ASSUME Len(s) = 1, s[1].kind = 258 PROVE FALSE
  BY KindsAre DEF IsRecord
<1>1. ~ FitsAt(s, 1)
  BY DEF Doomed
<1> QED
  BY <1>1 DEF FitsAt, KindAt, Fit

(* The kind of the token a byte begins.                                      *)
TokenKind(b) == IF b \in Structure THEN b ELSE IF b = Quote THEN StringToken ELSE ValueToken
NowhereFrom(line, ids, s, m, p) ==
  \A t \in Lexeme : (p < Len(line) => t.kind = TokenKind(line[p + 1])) =>
                      \A e \in p + 1 .. Len(line) : ids[e][Push(s, m, t)] = {}

(* Where no token leads anywhere there is nothing.                           *)
LEMMA Nowhere ==
  ASSUME NEW line \in Seq(Byte), NEW field, NEW ids, Judged(line, field, ids),
         NEW s \in Seq(Lexeme), NEW m \in Seq(Member), NEW p \in 0 .. Len(line),
         SkipSpace(line, p) = p, p = Len(line) => ~ IsRecord(s), NowhereFrom(line, ids, s, m, p)
  PROVE  ids[p][Between(s, m)] = {}
<1> DEFINE n == Len(line)
           b == line[p + 1]
           r == Between(s, m)
           Bytes == Seq(Byte)
<1>1. n \in Nat /\ Bytes = Seq(Byte)
  OBVIOUS
<1>2. CASE p = n
  BY <1>2, JudgedEnd
<1>3. CASE p # n
  <2>1. p < n /\ p + 1 \in p + 1 .. n
    BY <1>1, <1>3
  <2>2. ASSUME NEW t \in Lexeme, t.kind = TokenKind(b), NEW e \in p + 1 .. n
        PROVE  ids[e][Push(s, m, t)] = {}
    BY <2>2 DEF NowhereFrom
  <2>3. /\ StructureAhead(line, ids, s, m, p)
        /\ StringAhead(line, ids, s, m, p)
        /\ LiteralAhead(line, ids, s, m, p)
    BY TokenAhead
  <2>4. CASE b \in Structure
    <3>1. ids[p][r] = ids[p + 1][Push(s, m, Sign(b))]
      BY <2>1, <2>3, <2>4 DEF StructureAhead
    <3>2. Sign(b) \in Lexeme /\ Sign(b).kind = b
      BY <2>4, SignType
    <3>3. Sign(b).kind = TokenKind(b)
      BY <2>4, <3>2 DEF TokenKind
    <3> HIDE DEF r, b
    <3> QED
      BY <2>1, <2>2, <3>1, <3>2, <3>3 DEF r
  <2>5. CASE b = Quote
    <3>1. \A id : id \in ids[p][r] <=>
              \E y \in ParseString(line, p) :
                id \in ids[y.end][Push(s, m, Item(StringToken, y.value))]
      BY <2>1, <2>3, <2>5 DEF StringAhead
    <3>2. b \notin Structure /\ TokenKind(b) = StringToken
      BY <2>5, KindsAre DEF TokenKind
    <3>3. ASSUME NEW y \in ParseString(line, p)
          PROVE  ids[y.end][Push(s, m, Item(StringToken, y.value))] = {}
      <4>1. y.end \in p + 2 .. n /\ y.value \in Bytes
        BY PlacesAhead
      <4>2. y.end \in p + 1 .. n
        BY <1>1, <4>1
      <4> DEFINE t == Item(StringToken, y.value)
      <4>3. t \in Lexeme /\ t.kind = StringToken
        BY <4>1, KindsAre DEF Item, Lexeme
      <4> HIDE DEF t
      <4>4. ids[y.end][Push(s, m, t)] = {}
        BY <2>2, <3>2, <4>2, <4>3
      <4> QED
        BY <4>4 DEF t
    <3> HIDE DEF r, b
    <3> QED
      BY <3>1, <3>3 DEF r
  <2>6. CASE b \notin Structure \cup {Quote}
    <3>1. \A id : id \in ids[p][r] <=>
              \E e \in Literal(line, p) :
                id \in ids[e][Push(s, m, Item(ValueToken, SubSeq(line, p + 1, e)))]
      BY <2>1, <2>3, <2>6 DEF LiteralAhead
    <3>2. TokenKind(b) = ValueToken
      BY <2>6, KindsAre DEF TokenKind
    <3>3. ASSUME NEW e \in Literal(line, p)
          PROVE  ids[e][Push(s, m, Item(ValueToken, SubSeq(line, p + 1, e)))] = {}
      <4>1. e \in p + 1 .. n
        BY PlacesAhead
      <4>2. SubSeq(line, p + 1, e) \in Bytes
        BY <1>1, <4>1
      <4> DEFINE t == Item(ValueToken, SubSeq(line, p + 1, e))
      <4>3. t \in Lexeme /\ t.kind = ValueToken
        BY <4>2, KindsAre DEF Item, Lexeme
      <4> HIDE DEF t
      <4>4. ids[e][Push(s, m, t)] = {}
        BY <2>2, <3>2, <4>1, <4>3
      <4> QED
        BY <4>4 DEF t
    <3> HIDE DEF r, b
    <3> QED
      BY <3>1, <3>3 DEF r
  <2> QED
    BY <2>4, <2>5, <2>6
<1> QED
  BY <1>2, <1>3

(* A stack with something out of place comes to nothing.                     *)
DoomedAt(ids, p) ==
  \A s \in Seq(Lexeme), m \in Seq(Member) : Doomed(s) => ids[p][Between(s, m)] = {}

(* Nothing is found from such a stack.                                       *)
LEMMA DoomedJudged ==
  ASSUME NEW line \in Seq(Byte), NEW field, NEW ids, Judged(line, field, ids)
  PROVE  \A p \in 0 .. Len(line) : DoomedAt(ids, p)
<1> DEFINE n == Len(line)
           S == {p \in 0 .. n : DoomedAt(ids, p)}
<1>1. n \in Nat
  OBVIOUS
<1>2. ASSUME NEW p \in 0 .. n, \A j \in p + 1 .. n : j \in S PROVE p \in S
  <2>1. \A j \in p + 1 .. n : DoomedAt(ids, j)
    BY <1>2
  <2> SUFFICES ASSUME NEW s \in Seq(Lexeme), NEW m \in Seq(Member), Doomed(s)
               PROVE  ids[p][Between(s, m)] = {}
    BY DEF DoomedAt
  <2>2. SkipSpace(line, p) \in p .. n
    BY SpaceEnds
  <2>3. ids[p][Between(s, m)] = ids[SkipSpace(line, p)][Between(s, m)]
    BY JudgedSpace
  <2>4. CASE SkipSpace(line, p) # p
    <3>1. SkipSpace(line, p) \in p + 1 .. n
      BY <1>1, <2>2, <2>4
    <3> QED
      BY <2>1, <2>3, <3>1 DEF DoomedAt
  <2>5. CASE SkipSpace(line, p) = p
    <3>1. ~ IsRecord(s)
      BY DoomedIsNoRecord
    <3>2. NowhereFrom(line, ids, s, m, p)
      <4> SUFFICES ASSUME NEW t \in Lexeme, NEW e \in p + 1 .. n
                   PROVE  ids[e][Push(s, m, t)] = {}
        BY DEF NowhereFrom
      <4>1. Append(s, t) \in Seq(Lexeme) /\ Doomed(Append(s, t))
        BY DoomedAppend
      <4>2. PICK s2 \in Seq(Lexeme), m2 \in Seq(Member) :
              Push(s, m, t) = Between(s2, m2) /\ Doomed(s2)
        BY <4>1, DoomedPush
      <4>3. ids[e][Between(s2, m2)] = {}
        BY <2>1, <4>2 DEF DoomedAt
      <4> QED
        BY <4>2, <4>3
    <3> QED
      BY <2>5, <3>1, <3>2, Nowhere
  <2> QED
    BY <2>4, <2>5
<1> HIDE DEF S, n
<1>3. \A p \in 0 .. n : p \in S
  BY <1>1, <1>2, FromTheEnd
<1> QED
  BY <1>3 DEF S, n

(* Nor does one that the next token spoils.                                  *)
Spoilt(s, kind) == \A t \in Lexeme : t.kind = kind => Doomed(Append(s, t))

(* Where every token that may come spoils the stack nothing is found.        *)
LEMMA Stuck ==
  ASSUME NEW line \in Seq(Byte), NEW field, NEW ids, Judged(line, field, ids),
         NEW s \in Seq(Lexeme), NEW m \in Seq(Member), NEW p \in 0 .. Len(line),
         SkipSpace(line, p) = p, p = Len(line) => ~ IsRecord(s),
         p < Len(line) => Spoilt(s, TokenKind(line[p + 1]))
  PROVE  ids[p][Between(s, m)] = {}
<1> DEFINE n == Len(line)
<1>1. n \in Nat
  OBVIOUS
<1>2. NowhereFrom(line, ids, s, m, p)
  <2> SUFFICES ASSUME NEW t \in Lexeme, p < n => t.kind = TokenKind(line[p + 1]),
                      NEW e \in p + 1 .. n
               PROVE  ids[e][Push(s, m, t)] = {}
    BY DEF NowhereFrom
  <2>1. p < n /\ e \in 0 .. n
    BY <1>1
  <2>2. Doomed(Append(s, t))
    BY <2>1 DEF Spoilt
  <2>3. PICK s2 \in Seq(Lexeme), m2 \in Seq(Member) :
          Push(s, m, t) = Between(s2, m2) /\ Doomed(s2)
    BY <2>2, DoomedPush
  <2>4. ids[e][Between(s2, m2)] = {}
    BY <2>1, <2>3, DoomedJudged DEF DoomedAt
  <2> QED
    BY <2>3, <2>4
<1> QED
  BY <1>2, Nowhere

(* What spoils a stack, by the kinds at its end.                             *)
LEMMA SpoiltBy ==
  ASSUME NEW s \in Seq(Lexeme), NEW c,
         ~ Fit(KindAt(s, Len(s) - 2), KindAt(s, Len(s) - 1), KindAt(s, Len(s)), c)
  PROVE  Spoilt(s, c)
<1> SUFFICES ASSUME NEW t \in Lexeme, t.kind = c PROVE Doomed(Append(s, t))
  BY DEF Spoilt
<1> DEFINE u == Append(s, t)
           n == Len(s)
<1>1. n \in Nat /\ Len(u) = n + 1 /\ u[n + 1] = t /\ \A i \in 1 .. n : s[i] = u[i]
  BY AppendProperties
<1> HIDE DEF u, n
<1>2. FitsAt(u, n + 1) <=> Fit(KindAt(u, n - 2), KindAt(u, n - 1), KindAt(u, n), u[n + 1].kind)
  BY <1>1, FitsBehind
<1>3. /\ KindAt(u, n - 2) = KindAt(s, n - 2) /\ KindAt(u, n - 1) = KindAt(s, n - 1)
      /\ KindAt(u, n) = KindAt(s, n)
  <2>1. /\ n \in Int /\ n - 1 \in Int /\ n - 2 \in Int
        /\ n <= n /\ n - 1 <= n /\ n - 2 <= n
    BY <1>1
  <2>2. \A k : k <= n /\ k \in Int => KindAt(s, k) = KindAt(u, k)
    BY <1>1, FitsBelow
  <2> QED
    BY <2>1, <2>2
<1>4. ~ FitsAt(u, n + 1)
  BY <1>1, <1>2, <1>3 DEF n
<1>5. n + 1 \in 1 .. Len(u)
  BY <1>1
<1>6. Doomed(u)
  BY <1>4, <1>5 DEF Doomed
<1> QED
  BY <1>6 DEF u

-----------------------------------------------------------------------------
(* What may follow.                                                          *)

(* Behind space there is no more space.                                      *)
LEMMA SpaceTwice ==
  ASSUME NEW text \in Seq(Byte), NEW p \in 0 .. Len(text)
  PROVE  /\ SkipSpace(text, p) \in p .. Len(text)
         /\ SkipSpace(text, SkipSpace(text, p)) = SkipSpace(text, p)
<1> DEFINE n == Len(text)
           q == SkipSpace(text, p)
<1>1. n \in Nat
  OBVIOUS
<1>2. q \in p .. n /\ (q < n => text[q + 1] \notin Space)
  BY SpaceEnds
<1>3. q \in 0 .. n /\ (q < n \/ q = n)
  BY <1>1, <1>2
<1> HIDE DEF q
<1>4. SkipSpace(text, q) = q
  BY <1>2, <1>3, SpaceEnds
<1> QED
  BY <1>2, <1>4 DEF q

(* The kind of the next token.                                               *)
LEMMA TokenKindIs ==
  ASSUME NEW b \in Byte
  PROVE  /\ TokenKind(b) \in {123, 125, 91, 93, 58, 44, 256, 257}
         /\ TokenKind(b) = 256 <=> b = Quote
         /\ \A c \in Structure : TokenKind(b) = c <=> b = c
  BY KindsAre DEF TokenKind, Byte

(* The kinds at the end of a stack.                                          *)
LEMMA TopKinds ==
  ASSUME NEW base \in Seq(Lexeme), NEW top \in Seq(Lexeme), top # <<>>
  PROVE  LET s == base \o top
             n == Len(s)
             l == Len(top)
         IN /\ s \in Seq(Lexeme) /\ s # <<>>
            /\ KindAt(s, n) = top[l].kind
            /\ l >= 2 => KindAt(s, n - 1) = top[l - 1].kind
            /\ l >= 3 => KindAt(s, n - 2) = top[l - 2].kind
<1> DEFINE s == base \o top
           n == Len(s)
           l == Len(top)
           b == Len(base)
<1>1. b \in Nat /\ l \in Nat /\ l >= 1 /\ n = b + l /\ s \in Seq(Lexeme)
  BY ConcatProperties
<1>2. \A i \in 1 .. l : s[b + i] = top[i]
  BY Laid
<1> HIDE DEF s, n, l, b
<1>3. ASSUME NEW j \in 0 .. l - 1 PROVE KindAt(s, n - j) = top[l - j].kind
  <2>1. l - j \in 1 .. l /\ b + (l - j) = n - j /\ n - j >= 1
    BY <1>1
  <2>2. s[n - j] = top[l - j]
    BY <1>2, <2>1
  <2> QED
    BY <2>1, <2>2 DEF KindAt
<1>4. /\ 0 \in 0 .. l - 1 /\ n - 0 = n /\ l - 0 = l
      /\ l >= 2 => 1 \in 0 .. l - 1
      /\ l >= 3 => 2 \in 0 .. l - 1
  BY <1>1
<1>5. /\ KindAt(s, n) = top[l].kind
      /\ l >= 2 => KindAt(s, n - 1) = top[l - 1].kind
      /\ l >= 3 => KindAt(s, n - 2) = top[l - 2].kind
  BY <1>3, <1>4
<1>6. s # <<>>
  <2>1. n # 0
    BY <1>1
  <2> QED
    BY <2>1 DEF n
<1> QED
  BY <1>1, <1>5, <1>6 DEF s, n, l

(* Where a value is awaited.                                                 *)
Awaits(s) == Slot(KindAt(s, Len(s) - 2), KindAt(s, Len(s)))

(* Where a value is awaited no other sign fits.                              *)
LEMMA AwaitsValue ==
  ASSUME NEW s \in Seq(Lexeme), Awaits(s)
  PROVE  /\ ~ IsRecord(s)
         /\ s # <<>>
         /\ Spoilt(s, 58) /\ Spoilt(s, 44) /\ Spoilt(s, 125)
         /\ KindAt(s, Len(s)) # 91 => Spoilt(s, 93)
<1> DEFINE n == Len(s)
           a == KindAt(s, n - 1)
           b == KindAt(s, n)
           d == KindAt(s, n - 2)
<1>1. n \in Nat
  OBVIOUS
<1>2. Slot(d, b)
  BY DEF Awaits
<1>3. b # 0 /\ b # 258
  BY <1>2 DEF Slot
<1>4. n >= 1 /\ b = s[n].kind
  BY <1>1, <1>3 DEF KindAt
<1>5. ~ IsRecord(s)
  BY <1>3, <1>4, KindsAre DEF IsRecord
<1>6. ~ Fit(d, a, b, 58) /\ ~ Fit(d, a, b, 44) /\ ~ Fit(d, a, b, 125)
      /\ (b # 91 => ~ Fit(d, a, b, 93))
  <2> HIDE DEF a, b, d
  <2> QED
    BY <1>2 DEF Fit, Slot
<1>7. Spoilt(s, 58) /\ Spoilt(s, 44) /\ Spoilt(s, 125) /\ (b # 91 => Spoilt(s, 93))
  BY <1>6, SpoiltBy
<1> QED
  BY <1>4, <1>5, <1>7

(* The places a frame passes through, and what may follow there.             *)
Entering(base) == base \o <<Sign(LeftBrace)>>
Keyed(base, k) == base \o <<Sign(LeftBrace), k>>
Assigned(base, k) == base \o <<Sign(LeftBrace), k, Sign(Colon)>>
Filled(base, k, v) == base \o <<Sign(LeftBrace), k, Sign(Colon), v>>
NextKey(base, k, v) == base \o <<Sign(LeftBrace), k, Sign(Colon), v, Sign(Comma)>>
Begun(base) == base \o <<Sign(LeftBracket)>>
Bracketed(base, v) == base \o <<Sign(LeftBracket), v>>
Resumed(base, v) == base \o <<Sign(LeftBracket), v, Sign(Comma)>>

(* They are stacks.                                                          *)
LEMMA FrameTypes ==
  ASSUME NEW base \in Seq(Lexeme), NEW k \in Lexeme, NEW v \in Lexeme
  PROVE  /\ Entering(base) \in Seq(Lexeme) /\ Keyed(base, k) \in Seq(Lexeme)
         /\ Assigned(base, k) \in Seq(Lexeme) /\ Filled(base, k, v) \in Seq(Lexeme)
         /\ NextKey(base, k, v) \in Seq(Lexeme) /\ Begun(base) \in Seq(Lexeme)
         /\ Bracketed(base, v) \in Seq(Lexeme) /\ Resumed(base, v) \in Seq(Lexeme)
<1>1. /\ Sign(LeftBrace) \in Lexeme /\ Sign(Colon) \in Lexeme /\ Sign(Comma) \in Lexeme
      /\ Sign(LeftBracket) \in Lexeme
  BY SignType, KindsAre
<1>2. /\ <<Sign(LeftBrace)>> \in Seq(Lexeme) /\ <<Sign(LeftBrace), k>> \in Seq(Lexeme)
      /\ <<Sign(LeftBrace), k, Sign(Colon)>> \in Seq(Lexeme)
      /\ <<Sign(LeftBrace), k, Sign(Colon), v>> \in Seq(Lexeme)
      /\ <<Sign(LeftBrace), k, Sign(Colon), v, Sign(Comma)>> \in Seq(Lexeme)
      /\ <<Sign(LeftBracket)>> \in Seq(Lexeme) /\ <<Sign(LeftBracket), v>> \in Seq(Lexeme)
      /\ <<Sign(LeftBracket), v, Sign(Comma)>> \in Seq(Lexeme)
  BY <1>1, TupleTypes
<1> QED
  BY <1>2, ConcatProperties
     DEF Entering, Keyed, Assigned, Filled, NextKey, Begun, Bracketed, Resumed

(* What spoils every stack that ends in top.                                 *)
Unfit(top, c) ==
  \A d, a : /\ Len(top) >= 2 => a = top[Len(top) - 1].kind
            /\ Len(top) >= 3 => d = top[Len(top) - 2].kind
            => ~ Fit(d, a, top[Len(top)].kind, c)

(* So does a token that does not fit on what was put there.                  *)
LEMMA SpoiltTop ==
  ASSUME NEW base \in Seq(Lexeme), NEW top \in Seq(Lexeme), top # <<>>, NEW c, Unfit(top, c)
  PROVE  Spoilt(base \o top, c)
<1> DEFINE s == base \o top
           l == Len(top)
<1>1. /\ s \in Seq(Lexeme) /\ KindAt(s, Len(s)) = top[l].kind
      /\ l >= 2 => KindAt(s, Len(s) - 1) = top[l - 1].kind
      /\ l >= 3 => KindAt(s, Len(s) - 2) = top[l - 2].kind
  BY TopKinds
<1> HIDE DEF s
<1>2. ~ Fit(KindAt(s, Len(s) - 2), KindAt(s, Len(s) - 1), KindAt(s, Len(s)), c)
  BY <1>1 DEF Unfit
<1>3. Spoilt(s, c)
  BY <1>1, <1>2, SpoiltBy
<1> QED
  BY <1>3 DEF s

(* What spoils the stack at each place of a frame.                           *)
LEMMA FrameSpoilt ==
  ASSUME NEW base \in Seq(Lexeme), NEW k \in Lexeme, k.kind = 256,
         NEW v \in Lexeme, v.kind \in 256 .. 258,
         NEW c \in {123, 125, 91, 93, 58, 44, 256, 257}
  PROVE  /\ c \notin {256, 125} => Spoilt(Entering(base), c)
         /\ c # 58 => Spoilt(Keyed(base, k), c)
         /\ c \notin {125, 44} => Spoilt(Filled(base, k, v), c)
         /\ c # 256 => Spoilt(NextKey(base, k, v), c)
         /\ c \notin {93, 44} => Spoilt(Bracketed(base, v), c)
<1> DEFINE o == Sign(LeftBrace)
           a == Sign(LeftBracket)
           b == Sign(Colon)
           d == Sign(Comma)
<1>1. /\ o.kind = 123 /\ b.kind = 58 /\ d.kind = 44 /\ a.kind = 91
      /\ o \in Lexeme /\ b \in Lexeme /\ d \in Lexeme /\ a \in Lexeme
  BY SignType, KindsAre
<1> HIDE DEF o, a, b, d
<1>2. ASSUME c \notin {256, 125} PROVE Spoilt(Entering(base), c)
  <2> DEFINE top == <<o>>
  <2>1. top \in Seq(Lexeme) /\ top # <<>> /\ Len(top) = 1 /\ top[1] = o
    BY <1>1
  <2> HIDE DEF top
  <2>2. Unfit(top, c)
    BY <1>1, <1>2, <2>1 DEF Unfit, Fit, Slot
  <2>3. Spoilt(base \o top, c)
    BY <2>1, <2>2, SpoiltTop
  <2> QED
    BY <2>3 DEF top, o, Entering
<1>3. ASSUME c # 58 PROVE Spoilt(Keyed(base, k), c)
  <2> DEFINE top == <<o, k>>
  <2>1. top \in Seq(Lexeme) /\ top # <<>> /\ Len(top) = 2 /\ top[1] = o /\ top[2] = k
    BY <1>1
  <2> HIDE DEF top
  <2>2. Unfit(top, c)
    BY <1>1, <1>3, <2>1 DEF Unfit, Fit, Slot
  <2>3. Spoilt(base \o top, c)
    BY <2>1, <2>2, SpoiltTop
  <2> QED
    BY <2>3 DEF top, o, Keyed
<1>4. ASSUME c \notin {125, 44} PROVE Spoilt(Filled(base, k, v), c)
  <2> DEFINE top == <<o, k, b, v>>
  <2>1. /\ top \in Seq(Lexeme) /\ top # <<>> /\ Len(top) = 4 /\ top[2] = k /\ top[3] = b
        /\ top[4] = v
    BY <1>1
  <2> HIDE DEF top
  <2>2. Unfit(top, c)
    BY <1>1, <1>4, <2>1 DEF Unfit, Fit, Slot
  <2>3. Spoilt(base \o top, c)
    BY <2>1, <2>2, SpoiltTop
  <2> QED
    BY <2>3 DEF top, o, b, Filled
<1>5. ASSUME c # 256 PROVE Spoilt(NextKey(base, k, v), c)
  <2> DEFINE top == <<o, k, b, v, d>>
  <2>1. /\ top \in Seq(Lexeme) /\ top # <<>> /\ Len(top) = 5 /\ top[3] = b /\ top[4] = v
        /\ top[5] = d
    BY <1>1
  <2> HIDE DEF top
  <2>2. Unfit(top, c)
    BY <1>1, <1>5, <2>1 DEF Unfit, Fit, Slot
  <2>3. Spoilt(base \o top, c)
    BY <2>1, <2>2, SpoiltTop
  <2> QED
    BY <2>3 DEF top, o, b, d, NextKey
<1>6. ASSUME c \notin {93, 44} PROVE Spoilt(Bracketed(base, v), c)
  <2> DEFINE top == <<a, v>>
  <2>1. top \in Seq(Lexeme) /\ top # <<>> /\ Len(top) = 2 /\ top[1] = a /\ top[2] = v
    BY <1>1
  <2> HIDE DEF top
  <2>2. Unfit(top, c)
    BY <1>1, <1>6, <2>1 DEF Unfit, Fit, Slot
  <2>3. Spoilt(base \o top, c)
    BY <2>1, <2>2, SpoiltTop
  <2> QED
    BY <2>3 DEF top, a, Bracketed
<1> QED
  BY <1>2, <1>3, <1>4, <1>5, <1>6

(* A value is awaited behind a colon, an opening bracket, and a comma of     *)
(* an array; a frame is not the record.                                      *)
LEMMA FrameAwaits ==
  ASSUME NEW base \in Seq(Lexeme), NEW k \in Lexeme, NEW v \in Lexeme
  PROVE  /\ Awaits(Assigned(base, k)) /\ Awaits(Begun(base)) /\ Awaits(Resumed(base, v))
         /\ KindAt(Assigned(base, k), Len(Assigned(base, k))) = 58
         /\ KindAt(Begun(base), Len(Begun(base))) = 91
         /\ KindAt(Resumed(base, v), Len(Resumed(base, v))) = 44
<1> DEFINE o == Sign(LeftBrace)
           a == Sign(LeftBracket)
           b == Sign(Colon)
           d == Sign(Comma)
<1>1. /\ o.kind = 123 /\ b.kind = 58 /\ d.kind = 44 /\ a.kind = 91
      /\ o \in Lexeme /\ b \in Lexeme /\ d \in Lexeme /\ a \in Lexeme
  BY SignType, KindsAre
<1> HIDE DEF o, a, b, d
<1>2. Awaits(Assigned(base, k)) /\ KindAt(Assigned(base, k), Len(Assigned(base, k))) = 58
  <2> DEFINE top == <<o, k, b>>
             s == base \o top
  <2>1. top \in Seq(Lexeme) /\ top # <<>> /\ Len(top) = 3 /\ top[3] = b
    BY <1>1
  <2> HIDE DEF top
  <2>2. KindAt(s, Len(s)) = 58
    <3>1. KindAt(s, Len(s)) = top[Len(top)].kind
      BY <2>1, TopKinds
    <3> HIDE DEF s
    <3> QED
      BY <1>1, <2>1, <3>1
  <2> HIDE DEF s
  <2>3. Awaits(s)
    BY <2>2 DEF Awaits, Slot
  <2> QED
    BY <2>2, <2>3 DEF s, top, o, b, Assigned
<1>3. Awaits(Begun(base)) /\ KindAt(Begun(base), Len(Begun(base))) = 91
  <2> DEFINE top == <<a>>
             s == base \o top
  <2>1. top \in Seq(Lexeme) /\ top # <<>> /\ Len(top) = 1 /\ top[1] = a
    BY <1>1
  <2> HIDE DEF top
  <2>2. KindAt(s, Len(s)) = 91
    BY <1>1, <2>1, TopKinds
  <2> HIDE DEF s
  <2>3. Awaits(s)
    BY <2>2 DEF Awaits, Slot
  <2> QED
    BY <2>2, <2>3 DEF s, top, a, Begun
<1>4. Awaits(Resumed(base, v)) /\ KindAt(Resumed(base, v), Len(Resumed(base, v))) = 44
  <2> DEFINE top == <<a, v, d>>
             s == base \o top
  <2>1. top \in Seq(Lexeme) /\ top # <<>> /\ Len(top) = 3 /\ top[1] = a /\ top[3] = d
    BY <1>1
  <2> HIDE DEF top
  <2>2. KindAt(s, Len(s)) = 44 /\ KindAt(s, Len(s) - 2) = 91
    <3>1. /\ KindAt(s, Len(s)) = top[Len(top)].kind
          /\ Len(top) >= 3 => KindAt(s, Len(s) - 2) = top[Len(top) - 2].kind
      BY <2>1, TopKinds
    <3> HIDE DEF s
    <3>2. Len(top) >= 3 /\ Len(top) - 2 = 1
      BY <2>1
    <3> QED
      BY <1>1, <2>1, <3>1, <3>2
  <2> HIDE DEF s
  <2>3. Awaits(s)
    BY <2>2 DEF Awaits, Slot
  <2> QED
    BY <2>2, <2>3 DEF s, top, a, d, Resumed
<1> QED
  BY <1>2, <1>3, <1>4

(* None of them is a record.                                                 *)
LEMMA FrameIsNoRecord ==
  ASSUME NEW base \in Seq(Lexeme), NEW k \in Lexeme, NEW v \in Lexeme
  PROVE  /\ ~ IsRecord(Entering(base)) /\ ~ IsRecord(Keyed(base, k)) /\ ~ IsRecord(Filled(base, k, v))
         /\ ~ IsRecord(NextKey(base, k, v)) /\ ~ IsRecord(Bracketed(base, v))
<1>1. /\ Sign(LeftBrace) \in Lexeme /\ Sign(Colon) \in Lexeme /\ Sign(Comma) \in Lexeme
      /\ Sign(LeftBracket) \in Lexeme /\ Sign(LeftBrace).kind = 123
  BY SignType, KindsAre
<1>2. ASSUME NEW top \in Seq(Lexeme), Len(top) >= 2 PROVE ~ IsRecord(base \o top)
  <2>1. Len(base \o top) = Len(base) + Len(top) /\ Len(base) \in Nat /\ Len(top) \in Nat
    BY Laid
  <2> QED
    BY <1>2, <2>1 DEF IsRecord
<1> DEFINE Tall(top) == top \in Seq(Lexeme) /\ Len(top) >= 2
<1>3. /\ Tall(<<Sign(LeftBrace), k>>) /\ Tall(<<Sign(LeftBrace), k, Sign(Colon), v>>)
      /\ Tall(<<Sign(LeftBrace), k, Sign(Colon), v, Sign(Comma)>>)
      /\ Tall(<<Sign(LeftBracket), v>>)
  BY <1>1, TupleTypes
<1>4. \A top : Tall(top) => ~ IsRecord(base \o top)
  BY <1>2
<1> HIDE DEF Tall
<1>5. /\ ~ IsRecord(Keyed(base, k)) /\ ~ IsRecord(Filled(base, k, v))
      /\ ~ IsRecord(NextKey(base, k, v)) /\ ~ IsRecord(Bracketed(base, v))
  BY <1>3, <1>4, Zenon DEF Keyed, Filled, NextKey, Bracketed
<1>6. ~ IsRecord(Entering(base))
  <2> DEFINE s == base \o <<Sign(LeftBrace)>>
  <2>1. <<Sign(LeftBrace)>> \in Seq(Lexeme)
    BY <1>1
  <2>2. Len(s) = Len(base) + 1 /\ s[Len(base) + 1] = Sign(LeftBrace) /\ Len(base) \in Nat
    BY <2>1
  <2> HIDE DEF s
  <2>3. ~ IsRecord(s)
    BY <1>1, <2>2, KindsAre DEF IsRecord
  <2> QED
    BY <2>3 DEF s, Entering
<1> QED
  BY <1>5, <1>6

(* How a frame goes on.                                                      *)
LEMMA QuietTop ==
  ASSUME NEW base \in Seq(Lexeme), NEW top \in Seq(Lexeme), top # <<>>, NEW m \in Seq(Member),
         NEW t \in Lexeme,
         t.kind \in {123, 91, 58, 44} \/ (t.kind \in 256 .. 258 /\ top[Len(top)].kind # 44)
  PROVE  Push(base \o top, m, t) = Between(base \o Append(top, t), m)
<1> DEFINE s == base \o top
<1>1. /\ s \in Seq(Lexeme) /\ s # <<>> /\ KindAt(s, Len(s)) = top[Len(top)].kind
      /\ Append(s, t) = base \o Append(top, t)
  BY TopKinds, AppendTop
<1> HIDE DEF s
<1>2. s[Len(s)].kind = top[Len(top)].kind
  <2>1. Len(s) >= 1
    BY <1>1
  <2> QED
    BY <1>1, <2>1 DEF KindAt
<1>3. Push(s, m, t) = Between(Append(s, t), m)
  BY <1>1, <1>2, PushQuiet
<1> QED
  BY <1>1, <1>3 DEF s

ObjectPushes(base, k, v, w, m) ==
  /\ Push(base, m, Sign(LeftBrace)) = Between(Entering(base), m)
  /\ Push(Entering(base), m, k) = Between(Keyed(base, k), m)
  /\ Push(Entering(base), m, Sign(RightBrace)) = Push(base, m, Sign(ObjectToken))
  /\ Push(Keyed(base, k), m, Sign(Colon)) = Between(Assigned(base, k), m)
  /\ Push(Assigned(base, k), m, v) = Between(Filled(base, k, v), m)
  /\ Push(Filled(base, k, v), m, Sign(RightBrace)) = Push(base, Kept(base, k, v, m), Sign(ObjectToken))
  /\ Push(Filled(base, k, v), m, Sign(Comma)) = Between(NextKey(base, k, v), m)
  /\ Push(NextKey(base, k, v), m, w) = Between(Keyed(base, w), Kept(base, k, v, m))

(* The places of an object follow each other so.                             *)
LEMMA ObjectFrame ==
  ASSUME NEW base \in Seq(Lexeme), NEW k \in Lexeme, k.kind = 256,
         NEW v \in Lexeme, v.kind \in 256 .. 258, NEW w \in Lexeme, w.kind = 256,
         NEW m \in Seq(Member)
  PROVE  ObjectPushes(base, k, v, w, m)
<1> DEFINE o == Sign(LeftBrace)
           b == Sign(Colon)
           d == Sign(Comma)
<1>1. /\ o.kind = 123 /\ b.kind = 58 /\ d.kind = 44 /\ o \in Lexeme /\ b \in Lexeme /\ d \in Lexeme
  BY SignType, KindsAre
<1>2. Push(base, m, Sign(LeftBrace)) = Between(Entering(base), m)
  <2> HIDE DEF o
  <2>1. Push(base, m, o) = Between(Append(base, o), m)
    BY <1>1, PushQuiet
  <2>2. Append(base, o) = base \o <<o>>
    BY <1>1, AppendTop
  <2> QED
    BY <2>1, <2>2 DEF o, Entering
<1>3. Push(Entering(base), m, k) = Between(Keyed(base, k), m)
  <2> HIDE DEF o
  <2> DEFINE top == <<o>>
  <2>1. top \in Seq(Lexeme) /\ top # <<>> /\ top[Len(top)].kind # 44
    BY <1>1
  <2>2. Append(top, k) = <<o, k>>
    BY <1>1, AppendToOne
  <2> HIDE DEF top
  <2>3. Push(base \o top, m, k) = Between(base \o Append(top, k), m)
    BY <2>1, QuietTop
  <2> QED
    BY <2>2, <2>3 DEF top, o, Entering, Keyed
<1>4. Push(Entering(base), m, Sign(RightBrace)) = Push(base, m, Sign(ObjectToken))
  BY EmptyObjectPush DEF Entering
<1>5. Push(Keyed(base, k), m, Sign(Colon)) = Between(Assigned(base, k), m)
  <2> HIDE DEF o, b
  <2> DEFINE top == <<o, k>>
  <2>1. top \in Seq(Lexeme) /\ top # <<>>
    BY <1>1
  <2>2. Append(top, b) = <<o, k, b>>
    BY <1>1, AppendToTwo
  <2> HIDE DEF top
  <2>3. Push(base \o top, m, b) = Between(base \o Append(top, b), m)
    BY <1>1, <2>1, QuietTop
  <2> QED
    BY <2>2, <2>3 DEF top, o, b, Keyed, Assigned
<1>6. Push(Assigned(base, k), m, v) = Between(Filled(base, k, v), m)
  <2> HIDE DEF o, b
  <2> DEFINE top == <<o, k, b>>
  <2>1. top \in Seq(Lexeme) /\ top # <<>> /\ top[Len(top)].kind # 44
    BY <1>1
  <2>2. Append(top, v) = <<o, k, b, v>>
    BY <1>1, AppendToThree
  <2> HIDE DEF top
  <2>3. Push(base \o top, m, v) = Between(base \o Append(top, v), m)
    BY <2>1, QuietTop
  <2> QED
    BY <2>2, <2>3 DEF top, o, b, Assigned, Filled
<1>7. Push(Filled(base, k, v), m, Sign(RightBrace)) = Push(base, Kept(base, k, v, m), Sign(ObjectToken))
  BY WholeObjectPush DEF Filled
<1>8. Push(Filled(base, k, v), m, Sign(Comma)) = Between(NextKey(base, k, v), m)
  <2> HIDE DEF o, b, d
  <2> DEFINE top == <<o, k, b, v>>
  <2>1. top \in Seq(Lexeme) /\ top # <<>>
    BY <1>1
  <2>2. Append(top, d) = <<o, k, b, v, d>>
    BY <1>1, AppendToFour
  <2> HIDE DEF top
  <2>3. Push(base \o top, m, d) = Between(base \o Append(top, d), m)
    BY <1>1, <2>1, QuietTop
  <2> QED
    BY <2>2, <2>3 DEF top, o, b, d, Filled, NextKey
<1>9. Push(NextKey(base, k, v), m, w) = Between(Keyed(base, w), Kept(base, k, v, m))
  BY NextMemberPush DEF NextKey, Keyed
<1> QED
  BY <1>2, <1>3, <1>4, <1>5, <1>6, <1>7, <1>8, <1>9 DEF ObjectPushes

ArrayPushes(base, v, w, m) ==
  /\ Push(base, m, Sign(LeftBracket)) = Between(Begun(base), m)
  /\ Push(Begun(base), m, v) = Between(Bracketed(base, v), m)
  /\ Push(Begun(base), m, Sign(RightBracket)) = Push(base, m, Sign(ValueToken))
  /\ Push(Bracketed(base, v), m, Sign(RightBracket)) = Push(base, m, Sign(ValueToken))
  /\ Push(Bracketed(base, v), m, Sign(Comma)) = Between(Resumed(base, v), m)
  /\ Push(Resumed(base, v), m, w) = Between(Bracketed(base, w), m)

(* The places of an array follow each other so.                              *)
LEMMA ArrayFrame ==
  ASSUME NEW base \in Seq(Lexeme), NEW v \in Lexeme, v.kind \in 256 .. 258,
         NEW w \in Lexeme, w.kind \in 256 .. 258, NEW m \in Seq(Member)
  PROVE  ArrayPushes(base, v, w, m)
<1> DEFINE a == Sign(LeftBracket)
           d == Sign(Comma)
<1>1. a.kind = 91 /\ d.kind = 44 /\ a \in Lexeme /\ d \in Lexeme
  BY SignType, KindsAre
<1>2. Push(base, m, Sign(LeftBracket)) = Between(Begun(base), m)
  <2> HIDE DEF a
  <2>1. Push(base, m, a) = Between(Append(base, a), m)
    BY <1>1, PushQuiet
  <2>2. Append(base, a) = base \o <<a>>
    BY <1>1, AppendTop
  <2> QED
    BY <2>1, <2>2 DEF a, Begun
<1>3. Push(Begun(base), m, v) = Between(Bracketed(base, v), m)
  <2> HIDE DEF a
  <2> DEFINE top == <<a>>
  <2>1. top \in Seq(Lexeme) /\ top # <<>> /\ top[Len(top)].kind # 44
    BY <1>1
  <2>2. Append(top, v) = <<a, v>>
    BY <1>1, AppendToOne
  <2> HIDE DEF top
  <2>3. Push(base \o top, m, v) = Between(base \o Append(top, v), m)
    BY <2>1, QuietTop
  <2> QED
    BY <2>2, <2>3 DEF top, a, Begun, Bracketed
<1>4. Push(Begun(base), m, Sign(RightBracket)) = Push(base, m, Sign(ValueToken))
  BY EmptyArrayPush DEF Begun
<1>5. Push(Bracketed(base, v), m, Sign(RightBracket)) = Push(base, m, Sign(ValueToken))
  BY WholeArrayPush DEF Bracketed
<1>6. Push(Bracketed(base, v), m, Sign(Comma)) = Between(Resumed(base, v), m)
  <2> HIDE DEF a, d
  <2> DEFINE top == <<a, v>>
  <2>1. top \in Seq(Lexeme) /\ top # <<>>
    BY <1>1
  <2>2. Append(top, d) = <<a, v, d>>
    BY <1>1, AppendToTwo
  <2> HIDE DEF top
  <2>3. Push(base \o top, m, d) = Between(base \o Append(top, d), m)
    BY <1>1, <2>1, QuietTop
  <2> QED
    BY <2>2, <2>3 DEF top, a, d, Bracketed, Resumed
<1>7. Push(Resumed(base, v), m, w) = Between(Bracketed(base, w), m)
  BY NextElementPush DEF Resumed, Bracketed
<1> QED
  BY <1>2, <1>3, <1>4, <1>5, <1>6, <1>7 DEF ArrayPushes

-----------------------------------------------------------------------------
(* How a frame is read.                                                      *)

Kinds == {123, 125, 91, 93, 58, 44, 256, 257}

(* The next byte is one of a few, or nothing is found.                       *)
NextSign(line, ids, s, m, e, allowed) ==
  /\ \A c \in allowed : At(line, SkipSpace(line, e), c) =>
       ids[e][Between(s, m)] = ids[SkipSpace(line, e) + 1][Push(s, m, Sign(c))]
  /\ (\A c \in allowed : ~ At(line, SkipSpace(line, e), c)) => ids[e][Between(s, m)] = {}

(* Where all but a few signs spoil the stack.                                *)
LEMMA NextSigns ==
  ASSUME NEW line \in Seq(Byte), NEW field, NEW ids, Judged(line, field, ids),
         NEW s \in Seq(Lexeme), NEW m \in Seq(Member), NEW e \in 0 .. Len(line),
         ~ IsRecord(s), NEW allowed, allowed \subseteq Structure,
         \A c \in Kinds \ allowed : Spoilt(s, c)
  PROVE  NextSign(line, ids, s, m, e, allowed)
<1> DEFINE n == Len(line)
           q == SkipSpace(line, e)
           r == Between(s, m)
<1>1. n \in Nat
  OBVIOUS
<1>2. q \in 0 .. n /\ SkipSpace(line, q) = q /\ ids[e][r] = ids[q][r]
  <2>1. q \in e .. n /\ SkipSpace(line, q) = q
    BY SpaceTwice
  <2>2. ids[e][r] = ids[q][r]
    BY JudgedSpace
  <2> QED
    BY <1>1, <2>1, <2>2
<1> HIDE DEF q
<1>3. ASSUME NEW c \in allowed, At(line, q, c)
      PROVE  ids[e][r] = ids[q + 1][Push(s, m, Sign(c))]
  <2>1. q < n /\ line[q + 1] = c /\ c \in Structure
    BY <1>3 DEF At
  <2>2. StructureAhead(line, ids, s, m, q)
    BY <1>2, TokenAhead
  <2> QED
    BY <1>2, <2>1, <2>2 DEF StructureAhead
<1>4. ASSUME \A c \in allowed : ~ At(line, q, c)
      PROVE  ids[e][r] = {}
  <2>1. ASSUME q < n PROVE Spoilt(s, TokenKind(line[q + 1]))
    <3> DEFINE b == line[q + 1]
    <3>1. q + 1 \in 1 .. n
      BY <1>1, <1>2, <2>1
    <3>2. b \in Byte
      BY <3>1
    <3>3. b \notin allowed
      BY <1>4, <2>1 DEF At
    <3> HIDE DEF b
    <3>4. TokenKind(b) \in Kinds /\ TokenKind(b) \notin allowed
      BY <3>2, <3>3, TokenKindIs DEF Kinds
    <3>5. Spoilt(s, TokenKind(b))
      BY <3>4
    <3> QED
      BY <3>5 DEF b
  <2>2. ids[q][r] = {}
    BY <1>2, <2>1, Stuck
  <2> QED
    BY <1>2, <2>2
<1> QED
  BY <1>3, <1>4 DEF NextSign, q

(* Behind a value in an object.                                              *)
MemberClosed(line, ids, base, k, v, m, e) ==
  \A z : z \in ids[e][Between(Filled(base, k, v), m)] <=>
           \/ \E c \in Closes(line, e, RightBrace) :
                z \in ids[c][Push(base, Kept(base, k, v, m), Sign(ObjectToken))]
           \/ \E q \in NextItem(line, e) : z \in ids[q][Between(NextKey(base, k, v), m)]

(* Behind a member comes its brace or a comma.                               *)
LEMMA MemberCloses ==
  ASSUME NEW line \in Seq(Byte), NEW field, NEW ids, Judged(line, field, ids),
         NEW base \in Seq(Lexeme), NEW k \in Lexeme, k.kind = 256,
         NEW v \in Lexeme, v.kind \in 256 .. 258, NEW m \in Seq(Member), NEW e \in 0 .. Len(line)
  PROVE  MemberClosed(line, ids, base, k, v, m, e)
<1> DEFINE s == Filled(base, k, v)
           u == NextKey(base, k, v)
           q == SkipSpace(line, e)
           allowed == {RightBrace, Comma}
<1>1. s \in Seq(Lexeme) /\ u \in Seq(Lexeme)
  BY FrameTypes
<1>2. NextSign(line, ids, s, m, e, allowed)
  <2>1. ~ IsRecord(s)
    BY FrameIsNoRecord
  <2>2. allowed \subseteq Structure /\ Kinds \ allowed \subseteq Kinds \ {125, 44}
    BY KindsAre
  <2>3. \A c \in Kinds : c \notin {125, 44} => Spoilt(s, c)
    BY FrameSpoilt DEF Kinds
  <2>4. \A c \in Kinds \ allowed : Spoilt(s, c)
    BY <2>2, <2>3
  <2>5. s \in Seq(Lexeme) /\ allowed \subseteq Structure
    BY <1>1, <2>2
  <2> HIDE DEF s, allowed
  <2> QED
    BY <2>1, <2>4, <2>5, NextSigns
<1>3. /\ Push(s, m, Sign(RightBrace)) = Push(base, Kept(base, k, v, m), Sign(ObjectToken))
      /\ Push(s, m, Sign(Comma)) = Between(u, m)
  BY ObjectFrame DEF ObjectPushes
<1>4. RightBrace # Comma
  BY KindsAre
<1>5. Closes(line, e, RightBrace) = IF At(line, q, RightBrace) THEN {q + 1} ELSE {}
  BY DEF Closes
<1>6. NextItem(line, e) = IF At(line, q, Comma) THEN {SkipSpace(line, q + 1)} ELSE {}
  BY DEF NextItem
<1>7. /\ At(line, q, RightBrace) =>
           ids[e][Between(s, m)] = ids[q + 1][Push(base, Kept(base, k, v, m), Sign(ObjectToken))]
      /\ At(line, q, Comma) => ids[e][Between(s, m)] = ids[q + 1][Between(u, m)]
      /\ ~ At(line, q, RightBrace) /\ ~ At(line, q, Comma) => ids[e][Between(s, m)] = {}
  <2> HIDE DEF s, u
  <2> QED
    BY <1>2, <1>3 DEF NextSign
<1>8. ~ (At(line, q, RightBrace) /\ At(line, q, Comma))
  BY <1>4 DEF At
<1>9. At(line, q, Comma) => ids[q + 1][Between(u, m)] = ids[SkipSpace(line, q + 1)][Between(u, m)]
  <2> SUFFICES ASSUME At(line, q, Comma)
               PROVE  ids[q + 1][Between(u, m)] = ids[SkipSpace(line, q + 1)][Between(u, m)]
    OBVIOUS
  <2>1. q \in 0 .. Len(line)
    <3>1. q \in e .. Len(line)
      BY SpaceTwice
    <3> HIDE DEF q
    <3> QED
      BY <3>1
  <2> HIDE DEF q
  <2>2. q + 1 \in 0 .. Len(line)
    BY <2>1 DEF At
  <2> HIDE DEF u
  <2> QED
    BY <1>1, <2>2, JudgedSpace
<1> HIDE DEF s, u, q
<1>10. \A z : z \in ids[e][Between(s, m)] <=>
           \/ \E c \in Closes(line, e, RightBrace) :
                z \in ids[c][Push(base, Kept(base, k, v, m), Sign(ObjectToken))]
           \/ \E j \in NextItem(line, e) : z \in ids[j][Between(u, m)]
  <2>1. CASE At(line, q, RightBrace)
    BY <1>5, <1>6, <1>7, <1>8, <2>1
  <2>2. CASE At(line, q, Comma)
    BY <1>5, <1>6, <1>7, <1>8, <1>9, <2>2
  <2>3. CASE ~ At(line, q, RightBrace) /\ ~ At(line, q, Comma)
    BY <1>5, <1>6, <1>7, <2>3
  <2> QED
    BY <2>1, <2>2, <2>3
<1> QED
  BY <1>10 DEF MemberClosed, s, u

(* Behind an element of an array.                                            *)
ElementClosed(line, ids, base, v, m, e) ==
  \A z : z \in ids[e][Between(Bracketed(base, v), m)] <=>
           \/ \E c \in Closes(line, e, RightBracket) : z \in ids[c][Push(base, m, Sign(ValueToken))]
           \/ \E q \in NextItem(line, e) : z \in ids[q][Between(Resumed(base, v), m)]

(* Behind an element comes its bracket or a comma.                           *)
LEMMA ElementCloses ==
  ASSUME NEW line \in Seq(Byte), NEW field, NEW ids, Judged(line, field, ids),
         NEW base \in Seq(Lexeme), NEW v \in Lexeme, v.kind \in 256 .. 258,
         NEW m \in Seq(Member), NEW e \in 0 .. Len(line)
  PROVE  ElementClosed(line, ids, base, v, m, e)
<1> DEFINE s == Bracketed(base, v)
           u == Resumed(base, v)
           q == SkipSpace(line, e)
           allowed == {RightBracket, Comma}
<1>1. s \in Seq(Lexeme) /\ u \in Seq(Lexeme)
  BY FrameTypes
<1>2. NextSign(line, ids, s, m, e, allowed)
  <2>1. ~ IsRecord(s)
    BY FrameIsNoRecord
  <2>2. allowed \subseteq Structure /\ Kinds \ allowed \subseteq Kinds \ {93, 44}
    BY KindsAre
  <2>3. \A c \in Kinds : c \notin {93, 44} => Spoilt(s, c)
    <3>1. Item(StringToken, <<>>) \in Lexeme /\ Item(StringToken, <<>>).kind = 256
      BY SignType, KindsAre DEF Sign
    <3> QED
      BY <3>1, FrameSpoilt DEF Kinds
  <2>4. \A c \in Kinds \ allowed : Spoilt(s, c)
    BY <2>2, <2>3
  <2>5. s \in Seq(Lexeme) /\ allowed \subseteq Structure
    BY <1>1, <2>2
  <2> HIDE DEF s, allowed
  <2> QED
    BY <2>1, <2>4, <2>5, NextSigns
<1>3. /\ Push(s, m, Sign(RightBracket)) = Push(base, m, Sign(ValueToken))
      /\ Push(s, m, Sign(Comma)) = Between(u, m)
  BY ArrayFrame DEF ArrayPushes
<1>4. RightBracket # Comma
  BY KindsAre
<1>5. Closes(line, e, RightBracket) = IF At(line, q, RightBracket) THEN {q + 1} ELSE {}
  BY DEF Closes
<1>6. NextItem(line, e) = IF At(line, q, Comma) THEN {SkipSpace(line, q + 1)} ELSE {}
  BY DEF NextItem
<1>7. /\ At(line, q, RightBracket) =>
           ids[e][Between(s, m)] = ids[q + 1][Push(base, m, Sign(ValueToken))]
      /\ At(line, q, Comma) => ids[e][Between(s, m)] = ids[q + 1][Between(u, m)]
      /\ ~ At(line, q, RightBracket) /\ ~ At(line, q, Comma) => ids[e][Between(s, m)] = {}
  <2> HIDE DEF s, u
  <2> QED
    BY <1>2, <1>3 DEF NextSign
<1>8. ~ (At(line, q, RightBracket) /\ At(line, q, Comma))
  BY <1>4 DEF At
<1>9. At(line, q, Comma) => ids[q + 1][Between(u, m)] = ids[SkipSpace(line, q + 1)][Between(u, m)]
  <2> SUFFICES ASSUME At(line, q, Comma)
               PROVE  ids[q + 1][Between(u, m)] = ids[SkipSpace(line, q + 1)][Between(u, m)]
    OBVIOUS
  <2>1. q \in 0 .. Len(line)
    <3>1. q \in e .. Len(line)
      BY SpaceTwice
    <3> HIDE DEF q
    <3> QED
      BY <3>1
  <2> HIDE DEF q
  <2>2. q + 1 \in 0 .. Len(line)
    BY <2>1 DEF At
  <2> HIDE DEF u
  <2> QED
    BY <1>1, <2>2, JudgedSpace
<1> HIDE DEF s, u, q
<1>10. \A z : z \in ids[e][Between(s, m)] <=>
           \/ \E c \in Closes(line, e, RightBracket) : z \in ids[c][Push(base, m, Sign(ValueToken))]
           \/ \E j \in NextItem(line, e) : z \in ids[j][Between(u, m)]
  <2>1. CASE At(line, q, RightBracket)
    BY <1>5, <1>6, <1>7, <1>8, <2>1
  <2>2. CASE At(line, q, Comma)
    BY <1>5, <1>6, <1>7, <1>8, <1>9, <2>2
  <2>3. CASE ~ At(line, q, RightBracket) /\ ~ At(line, q, Comma)
    BY <1>5, <1>6, <1>7, <2>3
  <2> QED
    BY <2>1, <2>2, <2>3
<1> QED
  BY <1>10 DEF ElementClosed, s, u

(* Where a key is awaited: behind an opening brace, when it is not the end,  *)
(* or behind a comma; flush is what is kept by the time the key is there.    *)
KeyPlace(line, q, st, m, base, flush) ==
  \/ st = Entering(base) /\ flush = m /\ ~ At(line, q, RightBrace)
  \/ \E k, v \in Lexeme :
       /\ k.kind = 256 /\ v.kind \in 256 .. 258
       /\ st = NextKey(base, k, v) /\ flush = Kept(base, k, v, m)

KeyAwaited(line, q, st, m, base, flush) ==
  /\ st \in Seq(Lexeme) /\ flush \in Seq(Member) /\ ~ IsRecord(st)
  /\ \A w \in Lexeme : w.kind = 256 => Push(st, m, w) = Between(Keyed(base, w), flush)
  /\ q < Len(line) /\ line[q + 1] # Quote => Spoilt(st, TokenKind(line[q + 1]))

(* Where a key is awaited nothing but a string fits.                         *)
LEMMA KeyPlaceIs ==
  ASSUME NEW line \in Seq(Byte), NEW q \in 0 .. Len(line), NEW base \in Seq(Lexeme),
         NEW m \in Seq(Member), NEW st, NEW flush, KeyPlace(line, q, st, m, base, flush)
  PROVE  KeyAwaited(line, q, st, m, base, flush)
<1> DEFINE b == line[q + 1]
           c == TokenKind(line[q + 1])
           one == Item(StringToken, <<>>)
<1>1. Len(line) \in Nat
  OBVIOUS
<1>2. ASSUME q < Len(line), b # Quote
      PROVE  c \in Kinds /\ c # 256 /\ (c = 125 => At(line, q, RightBrace))
  <2>1. q + 1 \in 1 .. Len(line)
    BY <1>1, <1>2
  <2>2. b \in Byte
    BY <2>1
  <2>3. c \in Kinds /\ c # 256 /\ (c = RightBrace => b = RightBrace)
    BY <1>2, <2>2, TokenKindIs, KindsAre DEF Kinds
  <2> HIDE DEF c
  <2> QED
    BY <1>2, <2>3, KindsAre DEF At
<1> HIDE DEF c
<1>3. one \in Lexeme /\ one.kind = 256
  BY SignType, KindsAre DEF Sign
<1> HIDE DEF one
<1>4. CASE st = Entering(base) /\ flush = m /\ ~ At(line, q, RightBrace)
  <2>1. st \in Seq(Lexeme) /\ ~ IsRecord(st)
    BY <1>3, <1>4, FrameTypes, FrameIsNoRecord
  <2>2. ASSUME NEW w \in Lexeme, w.kind = 256
        PROVE  Push(st, m, w) = Between(Keyed(base, w), flush)
    <3>1. ObjectPushes(base, w, w, w, m)
      BY <2>2, ObjectFrame
    <3> QED
      BY <1>4, <3>1 DEF ObjectPushes
  <2>3. ASSUME q < Len(line), b # Quote PROVE Spoilt(st, c)
    <3>1. c \in Kinds /\ c # 256 /\ c # 125
      BY <1>2, <1>4, <2>3
    <3>2. \A x \in Kinds : x \notin {256, 125} => Spoilt(Entering(base), x)
      BY <1>3, FrameSpoilt DEF Kinds
    <3> QED
      BY <1>4, <3>1, <3>2
  <2> QED
    BY <1>4, <2>1, <2>2, <2>3 DEF KeyAwaited, c
<1>5. ASSUME NEW k \in Lexeme, NEW v \in Lexeme, k.kind = 256, v.kind \in 256 .. 258,
             st = NextKey(base, k, v), flush = Kept(base, k, v, m)
      PROVE  KeyAwaited(line, q, st, m, base, flush)
  <2>1. st \in Seq(Lexeme) /\ ~ IsRecord(st) /\ flush \in Seq(Member)
    <3>1. NextKey(base, k, v) \in Seq(Lexeme) /\ ~ IsRecord(NextKey(base, k, v))
      BY FrameTypes, FrameIsNoRecord
    <3>2. Kept(base, k, v, m) \in Seq(Member)
      BY KeptType
    <3> QED
      BY <1>5, <3>1, <3>2
  <2>2. ASSUME NEW w \in Lexeme, w.kind = 256
        PROVE  Push(st, m, w) = Between(Keyed(base, w), flush)
    <3>1. ObjectPushes(base, k, v, w, m)
      BY <1>5, <2>2, ObjectFrame
    <3> QED
      BY <1>5, <3>1 DEF ObjectPushes
  <2>3. ASSUME q < Len(line), b # Quote PROVE Spoilt(st, c)
    <3>1. c \in Kinds /\ c # 256
      BY <1>2, <2>3
    <3>2. \A x \in Kinds : x # 256 => Spoilt(NextKey(base, k, v), x)
      BY <1>5, FrameSpoilt DEF Kinds
    <3> QED
      BY <1>5, <3>1, <3>2
  <2> QED
    BY <2>1, <2>2, <2>3 DEF KeyAwaited, c
<1> QED
  BY <1>4, <1>5 DEF KeyPlace

(* Behind a key.                                                             *)
KeyClosed(line, ids, base, k, m, e) ==
  LET q == SkipSpace(line, e)
  IN /\ At(line, q, Colon) =>
          /\ ids[e][Between(Keyed(base, k), m)] =
               ids[SkipSpace(line, q + 1)][Between(Assigned(base, k), m)]
     /\ ~ At(line, q, Colon) => ids[e][Between(Keyed(base, k), m)] = {}

(* Behind a key comes its colon.                                             *)
LEMMA KeyCloses ==
  ASSUME NEW line \in Seq(Byte), NEW field, NEW ids, Judged(line, field, ids),
         NEW base \in Seq(Lexeme), NEW k \in Lexeme, k.kind = 256,
         NEW m \in Seq(Member), NEW e \in 0 .. Len(line)
  PROVE  KeyClosed(line, ids, base, k, m, e)
<1> DEFINE s == Keyed(base, k)
           u == Assigned(base, k)
           q == SkipSpace(line, e)
           allowed == {Colon}
<1>1. s \in Seq(Lexeme) /\ u \in Seq(Lexeme)
  BY FrameTypes
<1>2. NextSign(line, ids, s, m, e, allowed)
  <2>1. ~ IsRecord(s)
    BY FrameIsNoRecord
  <2>2. allowed \subseteq Structure /\ Kinds \ allowed \subseteq Kinds \ {58}
    BY KindsAre
  <2>3. \A c \in Kinds : c # 58 => Spoilt(s, c)
    BY FrameSpoilt DEF Kinds
  <2>4. \A c \in Kinds \ allowed : Spoilt(s, c)
    BY <2>2, <2>3
  <2>5. s \in Seq(Lexeme) /\ allowed \subseteq Structure
    BY <1>1, <2>2
  <2> HIDE DEF s, allowed
  <2> QED
    BY <2>1, <2>4, <2>5, NextSigns
<1>3. Push(s, m, Sign(Colon)) = Between(u, m)
  BY ObjectFrame DEF ObjectPushes
<1>4. /\ At(line, q, Colon) => ids[e][Between(s, m)] = ids[q + 1][Between(u, m)]
      /\ ~ At(line, q, Colon) => ids[e][Between(s, m)] = {}
  <2> HIDE DEF s, u
  <2> QED
    BY <1>2, <1>3 DEF NextSign
<1>5. At(line, q, Colon) => ids[q + 1][Between(u, m)] = ids[SkipSpace(line, q + 1)][Between(u, m)]
  <2> SUFFICES ASSUME At(line, q, Colon)
               PROVE  ids[q + 1][Between(u, m)] = ids[SkipSpace(line, q + 1)][Between(u, m)]
    OBVIOUS
  <2>1. q \in 0 .. Len(line)
    <3>1. q \in e .. Len(line)
      BY SpaceTwice
    <3> HIDE DEF q
    <3> QED
      BY <3>1
  <2> HIDE DEF q
  <2>2. q + 1 \in 0 .. Len(line)
    BY <2>1 DEF At
  <2> HIDE DEF u
  <2> QED
    BY <1>1, <2>2, JudgedSpace
<1> HIDE DEF s, u, q
<1>6. /\ At(line, q, Colon) => ids[e][Between(s, m)] = ids[SkipSpace(line, q + 1)][Between(u, m)]
      /\ ~ At(line, q, Colon) => ids[e][Between(s, m)] = {}
  BY <1>4, <1>5
<1> QED
  BY <1>6 DEF KeyClosed, s, u, q

(* Where a key is awaited, a key is read.                                    *)
KeyRead(line, ids, st, m, base, flush, q) ==
  \A z : z \in ids[q][Between(st, m)] <=>
           \E k \in Key(line, q) :
             z \in ids[k.value_at][Between(Assigned(base, Item(StringToken, k.name)), flush)]

(* A key and its colon read as Key finds them.                               *)
LEMMA KeyReads ==
  ASSUME NEW line \in Seq(Byte), NEW field, NEW ids, Judged(line, field, ids),
         NEW q \in 0 .. Len(line), SkipSpace(line, q) = q,
         NEW base \in Seq(Lexeme), NEW m \in Seq(Member), NEW st, NEW flush,
         KeyPlace(line, q, st, m, base, flush)
  PROVE  KeyRead(line, ids, st, m, base, flush, q)
<1> DEFINE n == Len(line)
           r == Between(st, m)
           TokenOf(y) == Item(StringToken, y.value)
           colon(y) == SkipSpace(line, y.end)
           after(y) == SkipSpace(line, colon(y) + 1)
           Then(y) == Between(Assigned(base, TokenOf(y)), flush)
<1>1. n \in Nat
  OBVIOUS
<1>2. KeyAwaited(line, q, st, m, base, flush)
  BY KeyPlaceIs
<1>3. st \in Seq(Lexeme) /\ flush \in Seq(Member) /\ ~ IsRecord(st)
  BY <1>2 DEF KeyAwaited
<1>4. Key(line, q) = {[name |-> y.value, value_at |-> after(y)] :
                        y \in {y \in ParseString(line, q) : At(line, colon(y), Colon)}}
  BY DEF Key
<1>5. CASE q < n /\ line[q + 1] = Quote
  <2>1. \A z : z \in ids[q][r] <=>
              \E y \in ParseString(line, q) : z \in ids[y.end][Push(st, m, TokenOf(y))]
    <3>1. StringAhead(line, ids, st, m, q)
      BY <1>3, TokenAhead
    <3> QED
      BY <1>5, <3>1 DEF StringAhead
  <2>2. ASSUME NEW y \in ParseString(line, q)
        PROVE  /\ At(line, colon(y), Colon) => ids[y.end][Push(st, m, TokenOf(y))] = ids[after(y)][Then(y)]
               /\ ~ At(line, colon(y), Colon) => ids[y.end][Push(st, m, TokenOf(y))] = {}
    <3> DEFINE t == TokenOf(y)
    <3>1. y.end \in q + 2 .. n /\ y.value \in Seq(Byte)
      BY PlacesAhead
    <3>2. y.end \in 0 .. n
      BY <1>1, <3>1
    <3>3. t \in Lexeme /\ t.kind = 256
      BY <3>1, KindsAre DEF Item, Lexeme
    <3>4. Push(st, m, t) = Between(Keyed(base, t), flush)
      <4> HIDE DEF t
      <4> QED
        BY <1>2, <3>3 DEF KeyAwaited
    <3>5. KeyClosed(line, ids, base, t, flush, y.end)
      <4> HIDE DEF t
      <4> QED
        BY <1>3, <3>2, <3>3, KeyCloses
    <3> HIDE DEF t
    <3>6. /\ At(line, colon(y), Colon) =>
               ids[y.end][Push(st, m, t)] = ids[after(y)][Between(Assigned(base, t), flush)]
          /\ ~ At(line, colon(y), Colon) => ids[y.end][Push(st, m, t)] = {}
      BY <3>4, <3>5 DEF KeyClosed
    <3> QED
      BY <3>6 DEF t
  <2>3. ASSUME NEW z
        PROVE  (\E k \in Key(line, q) :
                  z \in ids[k.value_at][Between(Assigned(base, Item(StringToken, k.name)), flush)])
               <=> \E y \in ParseString(line, q) : At(line, colon(y), Colon) /\ z \in ids[after(y)][Then(y)]
    <3> DEFINE KeyOf(y) == [name |-> y.value, value_at |-> after(y)]
               Leads(k) ==
                 z \in ids[k.value_at][Between(Assigned(base, Item(StringToken, k.name)), flush)]
    <3>1. \A y : Leads(KeyOf(y)) <=> z \in ids[after(y)][Then(y)]
      <4> HIDE DEF after
      <4> QED
        OBVIOUS
    <3>2. Key(line, q) = {KeyOf(y) : y \in {y \in ParseString(line, q) : At(line, colon(y), Colon)}}
      BY <1>4
    <3> HIDE DEF KeyOf, Leads, after, colon, Then
    <3>3. (\E k \in Key(line, q) : Leads(k)) <=>
            \E y \in ParseString(line, q) : At(line, colon(y), Colon) /\ z \in ids[after(y)][Then(y)]
      BY <3>1, <3>2
    <3> QED
      BY <3>3 DEF Leads
  <2> HIDE DEF r, TokenOf, colon, after, Then
  <2>4. \A z : z \in ids[q][r] <=>
               \E k \in Key(line, q) :
                  z \in ids[k.value_at][Between(Assigned(base, Item(StringToken, k.name)), flush)]
    BY <2>1, <2>2, <2>3
  <2> QED
    BY <2>4 DEF KeyRead, r
<1>6. CASE ~ (q < n /\ line[q + 1] = Quote)
  <2>1. ParseString(line, q) = {}
    <3>1. ~ At(line, q, Quote)
      BY <1>6 DEF At
    <3> QED
      BY <3>1, StringRuns
  <2>2. Key(line, q) = {}
    BY <1>4, <2>1
  <2>3. ids[q][r] = {}
    <3>1. q < n => Spoilt(st, TokenKind(line[q + 1]))
      BY <1>2, <1>6 DEF KeyAwaited
    <3> QED
      BY <1>3, <3>1, Stuck
  <2> QED
    BY <2>2, <2>3 DEF KeyRead
<1> QED
  BY <1>5, <1>6

-----------------------------------------------------------------------------
(* Values.                                                                   *)

(* The tokens a value that ends at e may be on a stack.                      *)
TokensOf(line, p, e) ==
  IF At(line, p, Quote)
  THEN {Item(StringToken, y.value) : y \in {y \in ParseString(line, p) : y.end = e}}
  ELSE IF At(line, p, LeftBrace) THEN {Sign(ObjectToken)}
  ELSE IF At(line, p, LeftBracket) THEN {Sign(ValueToken)}
  ELSE {Item(ValueToken, SubSeq(line, p + 1, e))}

(* They are values, strings exactly behind a quote.                          *)
LEMMA TokensOfType ==
  ASSUME NEW line \in Seq(Byte), NEW p \in 0 .. Len(line), NEW e \in p + 1 .. Len(line)
  PROVE  /\ \A t \in TokensOf(line, p, e) :
              /\ t \in Lexeme /\ t.kind \in 256 .. 258
              /\ t.kind = 256 <=> At(line, p, Quote)
         /\ ~ At(line, p, Quote) => TokensOf(line, p, e) # {}
<1>1. /\ Sign(ObjectToken) \in Lexeme /\ Sign(ObjectToken).kind = 258
      /\ Sign(ValueToken) \in Lexeme /\ Sign(ValueToken).kind = 257
  BY SignType, KindsAre
<1>2. ASSUME NEW y \in ParseString(line, p)
      PROVE  Item(StringToken, y.value) \in Lexeme /\ Item(StringToken, y.value).kind = 256
  <2>1. y.value \in Seq(Byte)
    BY PlacesAhead
  <2> QED
    BY <2>1, KindsAre DEF Item, Lexeme
<1>3. /\ Item(ValueToken, SubSeq(line, p + 1, e)) \in Lexeme
      /\ Item(ValueToken, SubSeq(line, p + 1, e)).kind = 257
  <2>1. SubSeq(line, p + 1, e) \in Seq(Byte)
    OBVIOUS
  <2> QED
    BY <2>1, KindsAre DEF Item, Lexeme
<1>4. CASE At(line, p, Quote)
  <2>1. TokensOf(line, p, e) =
          {Item(StringToken, y.value) : y \in {y \in ParseString(line, p) : y.end = e}}
    BY <1>4 DEF TokensOf
  <2>2. ASSUME NEW t \in TokensOf(line, p, e) PROVE t \in Lexeme /\ t.kind = 256
    <3>1. PICK y \in ParseString(line, p) : t = Item(StringToken, y.value)
      BY <2>1
    <3> QED
      BY <1>2, <3>1
  <2> QED
    BY <1>4, <2>2
<1>5. CASE ~ At(line, p, Quote)
  <2>1. \/ TokensOf(line, p, e) = {Sign(ObjectToken)} \/ TokensOf(line, p, e) = {Sign(ValueToken)}
        \/ TokensOf(line, p, e) = {Item(ValueToken, SubSeq(line, p + 1, e))}
    BY <1>5 DEF TokensOf
  <2>2. PICK x \in Lexeme : x.kind \in {257, 258} /\ TokensOf(line, p, e) = {x}
    BY <1>1, <1>3, <2>1
  <2> QED
    BY <1>5, <2>2
<1> QED
  BY <1>4, <1>5

(* No literal begins with a delimiter.                                       *)
LEMMA LiteralNone ==
  ASSUME NEW line \in Seq(Byte), NEW p \in 0 .. Len(line),
         p < Len(line) => line[p + 1] \in {58, 44, 125, 93}
  PROVE  Literal(line, p) = {}
<1> DEFINE n == Len(line)
           e == LiteralStop(line, p)
           y == SubSeq(line, p + 1, e)
<1>1. n \in Nat
  OBVIOUS
<1>2. Literal(line, p) = IF IsLiteral(y) THEN {e} ELSE {}
  BY DEF Literal, LiteralStop
<1>3. CASE p = n
  <2>1. Literal(line, p) \subseteq p + 1 .. n
    BY PlacesAhead
  <2> QED
    BY <1>1, <1>3, <2>1
<1>4. CASE p < n /\ line[p + 1] \in {44, 125, 93}
  <2>1. e = p
    BY <1>4, LiteralStops, KindsAre
  <2>2. y = <<>>
    <3> HIDE DEF e
    <3> QED
      BY <1>1, <2>1
  <2>3. ~ IsLiteral(<<>>)
    BY DEF IsLiteral, Words
  <2> HIDE DEF y
  <2> QED
    BY <1>2, <2>2, <2>3
<1>5. CASE p < n /\ line[p + 1] = 58
  <2>1. e \in p + 1 .. n
    <3>1. e = LiteralStop(line, p + 1) /\ p + 1 \in 0 .. n
      <4>1. 58 \notin {Comma, RightBrace, RightBracket} /\ p < n /\ p + 1 \in 0 .. n
        BY <1>1, <1>5, KindsAre
      <4>2. ~ ~ (p < n /\ line[p + 1] \notin {Comma, RightBrace, RightBracket})
        BY <1>5, <4>1
      <4> HIDE DEF n, e
      <4> QED
        BY <4>1, <4>2, LiteralStops DEF n, e
    <3>2. LiteralStop(line, p + 1) \in p + 1 .. n
      BY <3>1, LiteralStops
    <3> QED
      BY <3>1, <3>2
  <2>2. y[1] = 58 /\ y # <<>>
    <3> HIDE DEF e
    <3> QED
      BY <1>5, <2>1
  <2> HIDE DEF y
  <2>3. ~ IsLiteral(y)
    BY <2>2 DEF IsLiteral, Words, Digits
  <2> QED
    BY <1>2, <2>3
<1> QED
  BY <1>1, <1>3, <1>4, <1>5

(* What the scanner finds from a place is what the grammar finds there.      *)
ValuePlace(line, p, s) ==
  /\ SkipSpace(line, p) = p /\ Awaits(s)
  /\ ~ (KindAt(s, Len(s)) = 91 /\ At(line, p, RightBracket))
ElementPlace(line, p, st, base) ==
  \/ st = Begun(base) /\ ~ At(line, p, RightBracket)
  \/ \E v \in Lexeme : v.kind \in 256 .. 258 /\ st = Resumed(base, v)

EndsAs(line, ids, ends, p, s, m) ==
  \A z : z \in ids[p][Between(s, m)] <=>
           \E e \in ends : \E t \in TokensOf(line, p, e) : z \in ids[e][Push(s, m, t)]
EndsWith(ids, ends, p, st, base, m, token) ==
  \A z : z \in ids[p][Between(st, m)] <=> \E e \in ends : z \in ids[e][Push(base, m, token)]

ValueRead(line, ids, value, p) ==
  \A s \in Seq(Lexeme), m \in Seq(Member) :
    ValuePlace(line, p, s) => EndsAs(line, ids, value[p], p, s, m)
MemberRead(line, ids, member, p) ==
  \A base \in Seq(Lexeme), m \in Seq(Member) : \A st :
    SkipSpace(line, p) = p /\ base # <<>> /\ KeyPlace(line, p, st, m, base, m)
    => EndsWith(ids, member[p], p, st, base, m, Sign(ObjectToken))
ElementRead(line, ids, element, p) ==
  \A base \in Seq(Lexeme), m \in Seq(Member) : \A st :
    SkipSpace(line, p) = p /\ ElementPlace(line, p, st, base)
    => EndsWith(ids, element[p], p, st, base, m, Sign(ValueToken))

(* Behind an opening brace or bracket.                                       *)
LEMMA EnteredRead ==
  ASSUME NEW line \in Seq(Byte), NEW field, NEW ids, Judged(line, field, ids),
         NEW p \in 0 .. Len(line) - 1, NEW st \in Seq(Lexeme), NEW base \in Seq(Lexeme),
         NEW m \in Seq(Member), NEW closing \in Structure, NEW token, NEW rest,
         Push(st, m, Sign(closing)) = Push(base, m, token),
         ~ At(line, SkipSpace(line, p + 1), closing) =>
           EndsWith(ids, rest[SkipSpace(line, p + 1)], SkipSpace(line, p + 1), st, base, m, token)
  PROVE  EndsWith(ids, Entered(line, p, closing, rest), p + 1, st, base, m, token)
<1> DEFINE n == Len(line)
           q == SkipSpace(line, p + 1)
           r == Between(st, m)
<1>1. n \in Nat /\ p + 1 \in 0 .. n
  OBVIOUS
<1>2. q \in p + 1 .. n /\ SkipSpace(line, q) = q
  BY <1>1, SpaceTwice
<1>3. ids[p + 1][r] = ids[q][r]
  BY <1>1, JudgedSpace
<1>4. Closes(line, p + 1, closing) = IF At(line, q, closing) THEN {q + 1} ELSE {}
  BY DEF Closes
<1> HIDE DEF q
<1>5. CASE At(line, q, closing)
  <2>1. Entered(line, p, closing, rest) = {q + 1}
    BY <1>4, <1>5 DEF Entered
  <2>2. StructureAhead(line, ids, st, m, q)
    <3>1. q \in 0 .. n
      BY <1>1, <1>2
    <3> QED
      BY <1>2, <3>1, TokenAhead
  <2>3. ids[q][r] = ids[q + 1][Push(st, m, Sign(closing))]
    BY <1>5, <2>2 DEF StructureAhead, At
  <2> HIDE DEF r
  <2>4. \A z : z \in ids[p + 1][r] <=>
                 \E e \in Entered(line, p, closing, rest) : z \in ids[e][Push(base, m, token)]
    BY <1>3, <2>1, <2>3
  <2> QED
    BY <2>4 DEF EndsWith, r
<1>6. CASE ~ At(line, q, closing)
  <2>1. Entered(line, p, closing, rest) = rest[q]
    BY <1>4, <1>6 DEF Entered, q
  <2>2. EndsWith(ids, rest[q], q, st, base, m, token)
    BY <1>6 DEF q
  <2> QED
    BY <1>3, <2>1, <2>2 DEF EndsWith
<1> QED
  BY <1>5, <1>6

(* A value, given what is found behind an opening bracket.                   *)
LEMMA ValueReads ==
  ASSUME NEW line \in Seq(Byte), NEW field, NEW ids, Judged(line, field, ids),
         NEW value, NEW member, NEW element, Scanned(line, value, member, element),
         NEW p \in 0 .. Len(line),
         \A j \in p + 1 .. Len(line) : MemberRead(line, ids, member, j) /\ ElementRead(line, ids, element, j)
  PROVE  ValueRead(line, ids, value, p)
<1> DEFINE n == Len(line)
           b == line[p + 1]
<1>1. n \in Nat
  OBVIOUS
<1> SUFFICES ASSUME NEW s \in Seq(Lexeme), NEW m \in Seq(Member), ValuePlace(line, p, s)
             PROVE  EndsAs(line, ids, value[p], p, s, m)
  BY DEF ValueRead
<1> DEFINE r == Between(s, m)
<1>2. /\ SkipSpace(line, p) = p /\ Awaits(s)
      /\ ~ (KindAt(s, Len(s)) = 91 /\ At(line, p, RightBracket))
  BY DEF ValuePlace
<1>3. /\ ~ IsRecord(s) /\ s # <<>>
      /\ Spoilt(s, 58) /\ Spoilt(s, 44) /\ Spoilt(s, 125)
      /\ KindAt(s, Len(s)) # 91 => Spoilt(s, 93)
  BY <1>2, AwaitsValue
<1>4. value[p] = ValueStep(line, member, element, p)
  BY DEF Scanned
<1>5. /\ StructureAhead(line, ids, s, m, p)
      /\ StringAhead(line, ids, s, m, p)
      /\ LiteralAhead(line, ids, s, m, p)
  BY <1>2, TokenAhead
<1>6. CASE p < n => b \in {58, 44, 125, 93}
  <2>1. value[p] = {}
    <3>1. Literal(line, p) = {}
      BY <1>6, LiteralNone
    <3>2. ~ At(line, p, Quote) /\ ~ At(line, p, LeftBrace) /\ ~ At(line, p, LeftBracket)
      BY <1>6, KindsAre, SMTT(30) DEF At
    <3> QED
      BY <1>4, <3>1, <3>2 DEF ValueStep
  <2>2. ids[p][r] = {}
    <3>1. p < n => Spoilt(s, TokenKind(b))
      <4>1. ASSUME p < n PROVE TokenKind(b) = b
        <5> HIDE DEF b
        <5> QED
          BY <1>6, <4>1, KindsAre DEF TokenKind
      <4>2. b = 93 /\ p < n => KindAt(s, Len(s)) # 91
        BY <1>2, KindsAre DEF At
      <4> HIDE DEF b
      <4> QED
        BY <1>3, <1>6, <4>1, <4>2
    <3> QED
      BY <1>2, <1>3, <3>1, Stuck
  <2> QED
    BY <2>1, <2>2 DEF EndsAs
<1>7. CASE At(line, p, Quote)
  <2>1. p < n /\ b = Quote
    BY <1>7 DEF At
  <2>2. value[p] = {y.end : y \in ParseString(line, p)}
    BY <1>4, <1>7 DEF ValueStep
  <2>3. \A z : z \in ids[p][r] <=>
              \E y \in ParseString(line, p) : z \in ids[y.end][Push(s, m, Item(StringToken, y.value))]
    BY <1>5, <2>1 DEF StringAhead
  <2>4. \A e : TokensOf(line, p, e) =
          {Item(StringToken, y.value) : y \in {y \in ParseString(line, p) : y.end = e}}
    BY <1>7 DEF TokensOf
  <2> SUFFICES ASSUME NEW z
               PROVE  z \in ids[p][r] <=>
                        \E e \in value[p] : \E t \in TokensOf(line, p, e) : z \in ids[e][Push(s, m, t)]
    BY DEF EndsAs
  <2> DEFINE Leads(e, t) == z \in ids[e][Push(s, m, t)]
             TokenOf(y) == Item(StringToken, y.value)
             strings == ParseString(line, p)
  <2>5. z \in ids[p][r] <=> \E y \in strings : Leads(y.end, TokenOf(y))
    BY <2>3
  <2>6. \A e : TokensOf(line, p, e) = {TokenOf(y) : y \in {y \in strings : y.end = e}}
    BY <2>4
  <2>7. value[p] = {y.end : y \in strings}
    BY <2>2
  <2> HIDE DEF Leads, TokenOf, strings, r
  <2>8. (\E y \in strings : Leads(y.end, TokenOf(y))) <=>
          \E e \in value[p] : \E t \in TokensOf(line, p, e) : Leads(e, t)
    <3>1. ASSUME NEW y \in strings, Leads(y.end, TokenOf(y))
          PROVE  \E e \in value[p] : \E t \in TokensOf(line, p, e) : Leads(e, t)
      <4>1. y.end \in value[p]
        BY <2>7
      <4>2. TokenOf(y) \in TokensOf(line, p, y.end)
        BY <2>6
      <4> QED
        BY <3>1, <4>1, <4>2
    <3>2. ASSUME NEW e \in value[p], NEW t \in TokensOf(line, p, e), Leads(e, t)
          PROVE  \E y \in strings : Leads(y.end, TokenOf(y))
      <4>1. PICK y \in strings : y.end = e /\ t = TokenOf(y)
        BY <2>6
      <4> QED
        BY <3>2, <4>1
    <3> QED
      BY <3>1, <3>2
  <2> QED
    BY <2>5, <2>8 DEF Leads, r
<1>8. CASE At(line, p, LeftBrace)
  <2>1. p < n /\ b = LeftBrace /\ p \in 0 .. n - 1
    BY <1>1, <1>8 DEF At
  <2>2. ~ At(line, p, Quote)
    BY <2>1, KindsAre DEF At
  <2>3. value[p] = Entered(line, p, RightBrace, member)
    BY <1>4, <1>8, <2>2 DEF ValueStep
  <2>4. \A e : TokensOf(line, p, e) = {Sign(ObjectToken)}
    BY <1>8, <2>2 DEF TokensOf
  <2> DEFINE k == Item(StringToken, <<>>)
             o == Entering(s)
             q == SkipSpace(line, p + 1)
  <2>5. k \in Lexeme /\ k.kind = 256
    BY SignType, KindsAre DEF Sign
  <2>6. o \in Seq(Lexeme)
    BY <2>5, FrameTypes
  <2>7. Push(s, m, Sign(LeftBrace)) = Between(o, m) /\ Push(o, m, Sign(RightBrace)) = Push(s, m, Sign(ObjectToken))
    <3> HIDE DEF k
    <3>1. ObjectPushes(s, k, k, k, m)
      BY <2>5, ObjectFrame
    <3> QED
      BY <3>1 DEF ObjectPushes
  <2>8. ids[p][r] = ids[p + 1][Between(o, m)]
    <3>1. b \in Structure
      BY <2>1, KindsAre
    <3> QED
      BY <1>5, <2>1, <2>7, <3>1 DEF StructureAhead
  <2>9. ~ At(line, q, RightBrace) => EndsWith(ids, member[q], q, o, s, m, Sign(ObjectToken))
    <3>1. q \in p + 1 .. n /\ SkipSpace(line, q) = q
      <4>1. p + 1 \in 0 .. n
        BY <2>1
      <4> QED
        BY <4>1, SpaceTwice
    <3> HIDE DEF q
    <3>2. MemberRead(line, ids, member, q)
      BY <3>1
    <3>3. ~ At(line, q, RightBrace) => KeyPlace(line, q, o, m, s, m)
      BY DEF KeyPlace
    <3> QED
      BY <1>3, <3>1, <3>2, <3>3 DEF MemberRead
  <2>10. RightBrace \in Structure
    BY KindsAre
  <2>11. EndsWith(ids, Entered(line, p, RightBrace, member), p + 1, o, s, m, Sign(ObjectToken))
    <3> HIDE DEF o, n
    <3> QED
      BY <2>1, <2>6, <2>7, <2>9, <2>10, EnteredRead DEF n, q
  <2> HIDE DEF o, r
  <2>12. \A z : z \in ids[p][r] <=>
           \E e \in value[p] : \E t \in TokensOf(line, p, e) : z \in ids[e][Push(s, m, t)]
    BY <2>3, <2>4, <2>8, <2>11 DEF EndsWith
  <2> QED
    BY <2>12 DEF EndsAs, r
<1>9. CASE At(line, p, LeftBracket)
  <2>1. p < n /\ b = LeftBracket /\ p \in 0 .. n - 1
    BY <1>1, <1>9 DEF At
  <2>2. ~ At(line, p, Quote) /\ ~ At(line, p, LeftBrace)
    BY <2>1, KindsAre DEF At
  <2>3. value[p] = Entered(line, p, RightBracket, element)
    BY <1>4, <1>9, <2>2 DEF ValueStep
  <2>4. \A e : TokensOf(line, p, e) = {Sign(ValueToken)}
    BY <1>9, <2>2 DEF TokensOf
  <2> DEFINE k == Item(StringToken, <<>>)
             o == Begun(s)
             q == SkipSpace(line, p + 1)
  <2>5. k \in Lexeme /\ k.kind \in 256 .. 258
    BY SignType, KindsAre DEF Sign
  <2>6. o \in Seq(Lexeme)
    BY <2>5, FrameTypes
  <2>7. Push(s, m, Sign(LeftBracket)) = Between(o, m) /\ Push(o, m, Sign(RightBracket)) = Push(s, m, Sign(ValueToken))
    <3> HIDE DEF k
    <3>1. ArrayPushes(s, k, k, m)
      BY <2>5, ArrayFrame
    <3> QED
      BY <3>1 DEF ArrayPushes
  <2>8. ids[p][r] = ids[p + 1][Between(o, m)]
    <3>1. b \in Structure
      BY <2>1, KindsAre
    <3> QED
      BY <1>5, <2>1, <2>7, <3>1 DEF StructureAhead
  <2>9. ~ At(line, q, RightBracket) => EndsWith(ids, element[q], q, o, s, m, Sign(ValueToken))
    <3>1. q \in p + 1 .. n /\ SkipSpace(line, q) = q
      <4>1. p + 1 \in 0 .. n
        BY <2>1
      <4> QED
        BY <4>1, SpaceTwice
    <3> HIDE DEF q
    <3>2. ElementRead(line, ids, element, q)
      BY <3>1
    <3>3. ~ At(line, q, RightBracket) => ElementPlace(line, q, o, s)
      BY DEF ElementPlace
    <3> QED
      BY <3>1, <3>2, <3>3 DEF ElementRead
  <2>10. RightBracket \in Structure
    BY KindsAre
  <2>11. EndsWith(ids, Entered(line, p, RightBracket, element), p + 1, o, s, m, Sign(ValueToken))
    <3> HIDE DEF o, n
    <3> QED
      BY <2>1, <2>6, <2>7, <2>9, <2>10, EnteredRead DEF n, q
  <2> HIDE DEF o, r
  <2>12. \A z : z \in ids[p][r] <=>
           \E e \in value[p] : \E t \in TokensOf(line, p, e) : z \in ids[e][Push(s, m, t)]
    BY <2>3, <2>4, <2>8, <2>11 DEF EndsWith
  <2> QED
    BY <2>12 DEF EndsAs, r
<1>10. CASE /\ p < n /\ b \notin {58, 44, 125, 93}
            /\ ~ At(line, p, Quote) /\ ~ At(line, p, LeftBrace) /\ ~ At(line, p, LeftBracket)
  <2>1. value[p] = Literal(line, p)
    BY <1>4, <1>10 DEF ValueStep
  <2>2. \A e : TokensOf(line, p, e) = {Item(ValueToken, SubSeq(line, p + 1, e))}
    BY <1>10 DEF TokensOf
  <2>3. b \notin Structure \cup {Quote}
    BY <1>10, KindsAre DEF At
  <2>4. \A z : z \in ids[p][r] <=>
              \E e \in Literal(line, p) : z \in ids[e][Push(s, m, Item(ValueToken, SubSeq(line, p + 1, e)))]
    BY <1>5, <1>10, <2>3 DEF LiteralAhead
  <2> HIDE DEF r
  <2>5. \A z : z \in ids[p][r] <=>
           \E e \in value[p] : \E t \in TokensOf(line, p, e) : z \in ids[e][Push(s, m, t)]
    BY <2>1, <2>2, <2>4
  <2> QED
    BY <2>5 DEF EndsAs, r
<1> QED
  BY <1>6, <1>7, <1>8, <1>9, <1>10

-----------------------------------------------------------------------------
(* Members and elements.                                                     *)

(* A value and the next item begin behind space.                             *)
LEMMA ItemPlaces ==
  ASSUME NEW text \in Seq(Byte), NEW p \in 0 .. Len(text)
  PROVE  /\ \A q \in NextItem(text, p) : q \in p + 1 .. Len(text) /\ SkipSpace(text, q) = q
         /\ \A k \in Key(text, p) :
              /\ k.value_at \in p + 2 .. Len(text) /\ SkipSpace(text, k.value_at) = k.value_at
              /\ Item(StringToken, k.name) \in Lexeme /\ Item(StringToken, k.name).kind = 256
<1> DEFINE n == Len(text)
<1>1. n \in Nat
  OBVIOUS
<1>2. ASSUME NEW i \in 0 .. n, NEW c, At(text, SkipSpace(text, i), c)
      PROVE  SkipSpace(text, SkipSpace(text, SkipSpace(text, i) + 1)) = SkipSpace(text, SkipSpace(text, i) + 1)
  <2>1. SkipSpace(text, i) \in i .. n /\ SkipSpace(text, i) < n
    BY <1>2, SpaceTwice DEF At
  <2>2. SkipSpace(text, i) + 1 \in 0 .. n
    BY <1>1, <2>1
  <2> QED
    BY <2>2, SpaceTwice
<1>3. ASSUME NEW q \in NextItem(text, p) PROVE q \in p + 1 .. n /\ SkipSpace(text, q) = q
  <2>1. q \in p + 1 .. n
    BY PlacesAhead
  <2>2. At(text, SkipSpace(text, p), Comma) /\ q = SkipSpace(text, SkipSpace(text, p) + 1)
    BY DEF NextItem
  <2> QED
    BY <1>2, <2>1, <2>2
<1>4. ASSUME NEW k \in Key(text, p)
      PROVE  /\ k.value_at \in p + 2 .. n /\ SkipSpace(text, k.value_at) = k.value_at
             /\ Item(StringToken, k.name) \in Lexeme /\ Item(StringToken, k.name).kind = 256
  <2>1. k.value_at \in p + 2 .. n /\ k.name \in Seq(Byte)
    BY PlacesAhead
  <2>2. PICK s \in ParseString(text, p) :
          /\ At(text, SkipSpace(text, s.end), Colon)
          /\ k.value_at = SkipSpace(text, SkipSpace(text, s.end) + 1)
    BY DEF Key
  <2>3. s.end \in 0 .. n
    <3>1. s.end \in p + 2 .. n
      BY PlacesAhead
    <3> QED
      BY <1>1, <3>1
  <2>4. SkipSpace(text, k.value_at) = k.value_at
    BY <1>2, <2>2, <2>3
  <2>5. Item(StringToken, k.name) \in Lexeme /\ Item(StringToken, k.name).kind = 256
    BY <2>1, KindsAre DEF Item, Lexeme
  <2> QED
    BY <2>1, <2>4, <2>5
<1> QED
  BY <1>3, <1>4

(* There is a token for every value.                                         *)
LEMMA TokensExist ==
  ASSUME NEW line \in Seq(Byte), NEW value, NEW member, NEW element,
         Scanned(line, value, member, element),
         NEW p \in 0 .. Len(line), NEW e \in value[p]
  PROVE  /\ e \in p + 1 .. Len(line)
         /\ \E t \in TokensOf(line, p, e) : TRUE
         /\ \A t \in TokensOf(line, p, e) : t \in Lexeme /\ t.kind \in 256 .. 258
<1>1. e \in p + 1 .. Len(line)
  BY DEF Scanned
<1>2. CASE At(line, p, Quote)
  <2>1. value[p] = {y.end : y \in ParseString(line, p)}
    BY <1>2 DEF Scanned, ValueStep
  <2>2. PICK y \in ParseString(line, p) : y.end = e
    BY <2>1
  <2>3. TokensOf(line, p, e) = {Item(StringToken, x.value) : x \in {x \in ParseString(line, p) : x.end = e}}
    BY <1>2 DEF TokensOf
  <2>4. Item(StringToken, y.value) \in TokensOf(line, p, e)
    BY <2>2, <2>3
  <2> QED
    BY <1>1, <2>4, TokensOfType
<1>3. CASE ~ At(line, p, Quote)
  BY <1>1, <1>3, TokensOfType
<1> QED
  BY <1>2, <1>3

(* One member: its key, its value, and what is behind it.                    *)
MemberThen(line, ids, base, flush, key, t, e, z) ==
  \/ \E c \in Closes(line, e, RightBrace) :
       z \in ids[c][Push(base, Kept(base, key, t, flush), Sign(ObjectToken))]
  \/ \E j \in NextItem(line, e) : z \in ids[j][Between(NextKey(base, key, t), flush)]
MemberLed(line, ids, value, st, m, base, flush, p) ==
  \A z : z \in ids[p][Between(st, m)] <=>
           \E k \in Key(line, p) : \E e \in value[k.value_at] : \E t \in TokensOf(line, k.value_at, e) :
             MemberThen(line, ids, base, flush, Item(StringToken, k.name), t, e, z)

(* A member reads as Key and the scanner's values find it.                   *)
LEMMA MemberLeads ==
  ASSUME NEW line \in Seq(Byte), NEW field, NEW ids, Judged(line, field, ids),
         NEW value, NEW member, NEW element, Scanned(line, value, member, element),
         NEW p \in 0 .. Len(line), SkipSpace(line, p) = p,
         \A j \in p + 1 .. Len(line) : ValueRead(line, ids, value, j),
         NEW base \in Seq(Lexeme), NEW m \in Seq(Member), NEW st, NEW flush,
         KeyPlace(line, p, st, m, base, flush)
  PROVE  MemberLed(line, ids, value, st, m, base, flush, p)
<1> DEFINE n == Len(line)
           KeyOf(k) == Item(StringToken, k.name)
<1>1. n \in Nat
  OBVIOUS
<1>2. flush \in Seq(Member)
  BY KeyPlaceIs DEF KeyAwaited
<1>3. KeyRead(line, ids, st, m, base, flush, p)
  BY KeyReads
<1>4. ASSUME NEW k \in Key(line, p), NEW z
      PROVE  z \in ids[k.value_at][Between(Assigned(base, KeyOf(k)), flush)] <=>
               \E e \in value[k.value_at] : \E t \in TokensOf(line, k.value_at, e) :
                 MemberThen(line, ids, base, flush, KeyOf(k), t, e, z)
  <2> DEFINE key == KeyOf(k)
             a == k.value_at
             s == Assigned(base, key)
  <2>1. a \in p + 2 .. n /\ SkipSpace(line, a) = a /\ key \in Lexeme /\ key.kind = 256
    BY ItemPlaces
  <2>2. a \in 0 .. n /\ a \in p + 1 .. n
    BY <1>1, <2>1
  <2> HIDE DEF a, key
  <2>3. s \in Seq(Lexeme) /\ Awaits(s) /\ KindAt(s, Len(s)) = 58
    BY <2>1, FrameTypes, FrameAwaits
  <2>4. EndsAs(line, ids, value[a], a, s, flush)
    <3>1. ValuePlace(line, a, s)
      BY <2>1, <2>3 DEF ValuePlace
    <3>2. ValueRead(line, ids, value, a)
      BY <2>2
    <3> HIDE DEF s
    <3> QED
      BY <1>2, <2>3, <3>1, <3>2 DEF ValueRead
  <2>5. ASSUME NEW e \in value[a], NEW t \in TokensOf(line, a, e)
        PROVE  z \in ids[e][Push(s, flush, t)] <=> MemberThen(line, ids, base, flush, key, t, e, z)
    <3>1. e \in a + 1 .. n /\ t \in Lexeme /\ t.kind \in 256 .. 258
      BY <2>2, TokensExist
    <3>2. e \in 0 .. n
      BY <1>1, <2>2, <3>1
    <3>3. Push(s, flush, t) = Between(Filled(base, key, t), flush)
      <4>1. ObjectPushes(base, key, t, key, flush)
        BY <1>2, <2>1, <3>1, ObjectFrame
      <4> QED
        BY <4>1 DEF ObjectPushes
    <3>4. MemberClosed(line, ids, base, key, t, flush, e)
      BY <1>2, <2>1, <3>1, <3>2, MemberCloses
    <3> QED
      BY <3>3, <3>4 DEF MemberClosed, MemberThen
  <2> HIDE DEF s
  <2>6. z \in ids[a][Between(s, flush)] <=>
          \E e \in value[a] : \E t \in TokensOf(line, a, e) :
            MemberThen(line, ids, base, flush, key, t, e, z)
    BY <2>4, <2>5 DEF EndsAs
  <2> QED
    BY <2>6 DEF s, a, key
<1> SUFFICES ASSUME NEW z
             PROVE  z \in ids[p][Between(st, m)] <=>
                      \E k \in Key(line, p) : \E e \in value[k.value_at] :
                        \E t \in TokensOf(line, k.value_at, e) :
                          MemberThen(line, ids, base, flush, KeyOf(k), t, e, z)
  BY DEF MemberLed
<1> DEFINE Goes(k) == z \in ids[k.value_at][Between(Assigned(base, KeyOf(k)), flush)]
           Then(k) == \E e \in value[k.value_at] : \E t \in TokensOf(line, k.value_at, e) :
                        MemberThen(line, ids, base, flush, KeyOf(k), t, e, z)
<1>5. z \in ids[p][Between(st, m)] <=> \E k \in Key(line, p) : Goes(k)
  BY <1>3 DEF KeyRead
<1>6. \A k \in Key(line, p) : Goes(k) <=> Then(k)
  BY <1>4
<1> HIDE DEF Goes, Then, KeyOf
<1>7. z \in ids[p][Between(st, m)] <=> \E k \in Key(line, p) : Then(k)
  BY <1>5, <1>6
<1> QED
  BY <1>7 DEF Then

(* The members of an object within another.                                  *)
LEMMA MemberReads ==
  ASSUME NEW line \in Seq(Byte), NEW field, NEW ids, Judged(line, field, ids),
         NEW value, NEW member, NEW element, Scanned(line, value, member, element),
         NEW p \in 0 .. Len(line),
         \A j \in p + 1 .. Len(line) : ValueRead(line, ids, value, j) /\ MemberRead(line, ids, member, j)
  PROVE  MemberRead(line, ids, member, p)
<1> DEFINE n == Len(line)
<1>1. n \in Nat
  OBVIOUS
<1> SUFFICES ASSUME NEW base \in Seq(Lexeme), NEW m \in Seq(Member), NEW st,
                    SkipSpace(line, p) = p, base # <<>>, KeyPlace(line, p, st, m, base, m)
             PROVE  EndsWith(ids, member[p], p, st, base, m, Sign(ObjectToken))
  BY DEF MemberRead
<1>2. MemberLed(line, ids, value, st, m, base, m, p)
  BY MemberLeads
<1>3. \A k, t : Kept(base, k, t, m) = m
  BY DEF Kept
<1> SUFFICES ASSUME NEW z
             PROVE  z \in ids[p][Between(st, m)] <=>
                      \E e \in member[p] : z \in ids[e][Push(base, m, Sign(ObjectToken))]
  BY DEF EndsWith
<1> DEFINE Out(c) == z \in ids[c][Push(base, m, Sign(ObjectToken))]
           Goes(e) == \/ \E c \in Closes(line, e, RightBrace) : Out(c)
                      \/ \E j \in NextItem(line, e) : \E c \in member[j] : Out(c)
           Then(k, e) == \E t \in TokensOf(line, k.value_at, e) :
                           MemberThen(line, ids, base, m, Item(StringToken, k.name), t, e, z)
<1>4. z \in ids[p][Between(st, m)] <=>
        \E k \in Key(line, p) : \E e \in value[k.value_at] : Then(k, e)
  BY <1>2 DEF MemberLed
<1>5. ASSUME NEW k \in Key(line, p), NEW e \in value[k.value_at]
      PROVE  Then(k, e) <=> Goes(e)
  <2> DEFINE key == Item(StringToken, k.name)
             a == k.value_at
  <2>1. a \in p + 2 .. n /\ key \in Lexeme /\ key.kind = 256
    BY ItemPlaces
  <2>2. a \in 0 .. n
    BY <1>1, <2>1
  <2>3. /\ e \in a + 1 .. n
        /\ \E t \in TokensOf(line, a, e) : TRUE
        /\ \A t \in TokensOf(line, a, e) : t \in Lexeme /\ t.kind \in 256 .. 258
    BY <2>2, TokensExist
  <2>4. e \in 0 .. n /\ e \in p + 1 .. n
    BY <1>1, <2>1, <2>3
  <2>5. ASSUME NEW t \in TokensOf(line, a, e)
        PROVE  MemberThen(line, ids, base, m, key, t, e, z) <=> Goes(e)
    <3> DEFINE u == NextKey(base, key, t)
    <3>1. ASSUME NEW j \in NextItem(line, e)
          PROVE  z \in ids[j][Between(u, m)] <=> \E c \in member[j] : Out(c)
      <4>1. j \in e + 1 .. n /\ SkipSpace(line, j) = j
        BY <2>4, ItemPlaces
      <4>2. j \in p + 1 .. n
        BY <1>1, <2>4, <4>1
      <4>3. KeyPlace(line, j, u, m, base, m)
        <5>1. t \in Lexeme /\ t.kind \in 256 .. 258 /\ m = Kept(base, key, t, m)
          BY <1>3, <2>3
        <5> HIDE DEF key
        <5> QED
          BY <2>1, <5>1 DEF KeyPlace
      <4>4. MemberRead(line, ids, member, j)
        BY <4>2
      <4> HIDE DEF u
      <4>5. EndsWith(ids, member[j], j, u, base, m, Sign(ObjectToken))
        BY <4>1, <4>3, <4>4 DEF MemberRead
      <4> QED
        BY <4>5 DEF EndsWith
    <3>2. Kept(base, key, t, m) = m
      BY <1>3
    <3> HIDE DEF u, key
    <3>3. MemberThen(line, ids, base, m, key, t, e, z) <=>
            \/ \E c \in Closes(line, e, RightBrace) : Out(c)
            \/ \E j \in NextItem(line, e) : z \in ids[j][Between(u, m)]
      BY <3>2 DEF MemberThen, u
    <3> HIDE DEF Out
    <3> QED
      BY <3>1, <3>3
  <2> HIDE DEF Goes
  <2> QED
    BY <2>3, <2>5
<1>6. member[p] = UNION {Closes(line, v, RightBrace) \cup UNION {member[q] : q \in NextItem(line, v)} :
                           v \in UNION {value[k.value_at] : k \in Key(line, p)}}
  BY DEF Scanned, MemberStep, Listed
<1>7. (\E e \in member[p] : Out(e)) <=> \E k \in Key(line, p) : \E e \in value[k.value_at] : Goes(e)
  <2> DEFINE values == UNION {value[k.value_at] : k \in Key(line, p)}
             Next(v) == Closes(line, v, RightBrace) \cup UNION {member[q] : q \in NextItem(line, v)}
  <2>1. \A v : (\E e \in Next(v) : Out(e)) <=> Goes(v)
    <3> HIDE DEF Out
    <3> QED
      OBVIOUS
  <2>2. member[p] = UNION {Next(v) : v \in values}
    BY <1>6
  <2> HIDE DEF Next, Goes, Out
  <2>3. (\E e \in member[p] : Out(e)) <=> \E v \in values : Goes(v)
    BY <2>1, <2>2
  <2> QED
    BY <2>3
<1> HIDE DEF Then, Goes, Out
<1>8. z \in ids[p][Between(st, m)] <=> \E e \in member[p] : Out(e)
  BY <1>4, <1>5, <1>7
<1> QED
  BY <1>8 DEF Out

(* The elements of an array.                                                 *)
LEMMA ElementReads ==
  ASSUME NEW line \in Seq(Byte), NEW field, NEW ids, Judged(line, field, ids),
         NEW value, NEW member, NEW element, Scanned(line, value, member, element),
         NEW p \in 0 .. Len(line), ValueRead(line, ids, value, p),
         \A j \in p + 1 .. Len(line) : ElementRead(line, ids, element, j)
  PROVE  ElementRead(line, ids, element, p)
<1> DEFINE n == Len(line)
<1>1. n \in Nat
  OBVIOUS
<1> SUFFICES ASSUME NEW base \in Seq(Lexeme), NEW m \in Seq(Member), NEW st,
                    SkipSpace(line, p) = p, ElementPlace(line, p, st, base)
             PROVE  EndsWith(ids, element[p], p, st, base, m, Sign(ValueToken))
  BY DEF ElementRead
<1> DEFINE Holds == /\ st \in Seq(Lexeme) /\ ValuePlace(line, p, st)
                    /\ \A w \in Lexeme : w.kind \in 256 .. 258 => Push(st, m, w) = Between(Bracketed(base, w), m)
<1>2. Holds
  <2>1. CASE st = Begun(base) /\ ~ At(line, p, RightBracket)
    <3> DEFINE one == Sign(ValueToken)
    <3>1. one \in Lexeme /\ one.kind \in 256 .. 258
      BY SignType, KindsAre
    <3> HIDE DEF one
    <3>2. st \in Seq(Lexeme) /\ Awaits(st)
      BY <2>1, <3>1, FrameTypes, FrameAwaits
    <3>3. ASSUME NEW w \in Lexeme, w.kind \in 256 .. 258
          PROVE  Push(st, m, w) = Between(Bracketed(base, w), m)
      BY <2>1, <3>3, ArrayFrame DEF ArrayPushes
    <3> QED
      BY <2>1, <3>2, <3>3 DEF ValuePlace
  <2>2. ASSUME NEW v \in Lexeme, v.kind \in 256 .. 258, st = Resumed(base, v) PROVE Holds
    <3>1. st \in Seq(Lexeme) /\ Awaits(st) /\ KindAt(st, Len(st)) = 44
      BY <2>2, FrameTypes, FrameAwaits
    <3>2. ASSUME NEW w \in Lexeme, w.kind \in 256 .. 258
          PROVE  Push(st, m, w) = Between(Bracketed(base, w), m)
      BY <2>2, <3>2, ArrayFrame DEF ArrayPushes
    <3> QED
      BY <3>1, <3>2 DEF ValuePlace
  <2> HIDE DEF Holds
  <2> QED
    BY <2>1, <2>2 DEF ElementPlace
<1>3. EndsAs(line, ids, value[p], p, st, m)
  BY <1>2 DEF ValueRead
<1> SUFFICES ASSUME NEW z
             PROVE  z \in ids[p][Between(st, m)] <=>
                      \E e \in element[p] : z \in ids[e][Push(base, m, Sign(ValueToken))]
  BY DEF EndsWith
<1> DEFINE Out(c) == z \in ids[c][Push(base, m, Sign(ValueToken))]
           Goes(e) == \/ \E c \in Closes(line, e, RightBracket) : Out(c)
                      \/ \E j \in NextItem(line, e) : \E c \in element[j] : Out(c)
           Then(e) == \E t \in TokensOf(line, p, e) : z \in ids[e][Push(st, m, t)]
<1>4. z \in ids[p][Between(st, m)] <=> \E e \in value[p] : Then(e)
  BY <1>3 DEF EndsAs
<1>5. ASSUME NEW e \in value[p] PROVE Then(e) <=> Goes(e)
  <2>1. /\ e \in p + 1 .. n
        /\ \E t \in TokensOf(line, p, e) : TRUE
        /\ \A t \in TokensOf(line, p, e) : t \in Lexeme /\ t.kind \in 256 .. 258
    BY TokensExist
  <2>2. e \in 0 .. n
    BY <1>1, <2>1
  <2>3. ASSUME NEW t \in TokensOf(line, p, e)
        PROVE  z \in ids[e][Push(st, m, t)] <=> Goes(e)
    <3> DEFINE u == Resumed(base, t)
    <3>1. t \in Lexeme /\ t.kind \in 256 .. 258
      BY <2>1
    <3>2. ASSUME NEW j \in NextItem(line, e)
          PROVE  z \in ids[j][Between(u, m)] <=> \E c \in element[j] : Out(c)
      <4>1. j \in e + 1 .. n /\ SkipSpace(line, j) = j
        BY <2>2, ItemPlaces
      <4>2. j \in p + 1 .. n
        BY <1>1, <2>1, <4>1
      <4>3. ElementPlace(line, j, u, base)
        BY <3>1 DEF ElementPlace
      <4>4. ElementRead(line, ids, element, j)
        BY <4>2
      <4> HIDE DEF u
      <4>5. EndsWith(ids, element[j], j, u, base, m, Sign(ValueToken))
        BY <4>1, <4>3, <4>4 DEF ElementRead
      <4> QED
        BY <4>5 DEF EndsWith
    <3>3. Push(st, m, t) = Between(Bracketed(base, t), m)
      BY <1>2, <3>1
    <3>4. ElementClosed(line, ids, base, t, m, e)
      BY <2>2, <3>1, ElementCloses
    <3>5. z \in ids[e][Push(st, m, t)] <=>
            \/ \E c \in Closes(line, e, RightBracket) : Out(c)
            \/ \E j \in NextItem(line, e) : z \in ids[j][Between(u, m)]
      BY <3>3, <3>4 DEF ElementClosed
    <3> HIDE DEF Out, u
    <3> QED
      BY <3>2, <3>5
  <2> HIDE DEF Goes
  <2> QED
    BY <2>1, <2>3
<1>6. element[p] = UNION {Closes(line, v, RightBracket) \cup UNION {element[q] : q \in NextItem(line, v)} :
                            v \in value[p]}
  BY DEF Scanned, Listed
<1>7. (\E e \in element[p] : Out(e)) <=> \E e \in value[p] : Goes(e)
  <2> DEFINE Next(v) == Closes(line, v, RightBracket) \cup UNION {element[q] : q \in NextItem(line, v)}
  <2>1. \A v : (\E e \in Next(v) : Out(e)) <=> Goes(v)
    <3> HIDE DEF Out
    <3> QED
      OBVIOUS
  <2>2. element[p] = UNION {Next(v) : v \in value[p]}
    BY <1>6
  <2> HIDE DEF Next, Goes, Out
  <2> QED
    BY <2>1, <2>2
<1> HIDE DEF Then, Goes, Out
<1>8. z \in ids[p][Between(st, m)] <=> \E e \in element[p] : Out(e)
  BY <1>4, <1>5, <1>7
<1> QED
  BY <1>8 DEF Out

(* All three, from the end of the line back.                                 *)
LEMMA ScannedRead ==
  ASSUME NEW line \in Seq(Byte), NEW field, NEW ids, Judged(line, field, ids),
         NEW value, NEW member, NEW element, Scanned(line, value, member, element)
  PROVE  \A p \in 0 .. Len(line) :
           /\ ValueRead(line, ids, value, p) /\ MemberRead(line, ids, member, p)
           /\ ElementRead(line, ids, element, p)
<1> DEFINE n == Len(line)
           All(p) == /\ ValueRead(line, ids, value, p) /\ MemberRead(line, ids, member, p)
                     /\ ElementRead(line, ids, element, p)
           S == {p \in 0 .. n : All(p)}
<1>1. n \in Nat
  OBVIOUS
<1>2. ASSUME NEW p \in 0 .. n, \A j \in p + 1 .. n : j \in S PROVE p \in S
  <2>1. \A j \in p + 1 .. n : All(j)
    BY <1>2
  <2>2. ValueRead(line, ids, value, p)
    BY <2>1, ValueReads
  <2>3. MemberRead(line, ids, member, p)
    BY <2>1, MemberReads
  <2>4. ElementRead(line, ids, element, p)
    BY <2>1, <2>2, ElementReads
  <2> QED
    BY <2>2, <2>3, <2>4
<1> HIDE DEF S, n
<1>3. \A p \in 0 .. n : p \in S
  BY <1>1, <1>2, FromTheEnd
<1> QED
  BY <1>3 DEF S, n

-----------------------------------------------------------------------------
(* The id of a record.                                                       *)

(* What the members read so far and a later id come to.                      *)
Astray(members, field) ==
  \E k \in DOMAIN members :
    members[k].key = field /\ (members[k].value.kind # StringToken \/ members[k].value.text = <<>>)
Told(members, field, id) ==
  IF Astray(members, field) THEN {}
  ELSE IF field = <<>> THEN {<<>>}
  ELSE IF id # <<>> THEN {id}
  ELSE FieldIds(members, field)

(* Without a later id it is what the members tell.                           *)
LEMMA ToldNone ==
  ASSUME NEW m, NEW field
  PROVE  Told(m, field, <<>>) = FieldIds(m, field)
BY DEF Told, Astray, FieldIds

Recent(members, field) ==
  LET fields == {k \in DOMAIN members : members[k].key = field}
  IN {members[k].value.text : k \in {k \in fields : \A j \in fields : j <= k}}

(* The last field alone decides, when none is astray.                        *)
LEMMA ToldIs ==
  ASSUME NEW m, NEW field, NEW id
  PROVE  Told(m, field, id) =
           IF Astray(m, field) THEN {} ELSE IF field = <<>> THEN {<<>>}
           ELSE IF id # <<>> THEN {id} ELSE Recent(m, field)
BY DEF Told, Astray, FieldIds, Recent

MemberTold(a, m, name, t, field) ==
  /\ Astray(a, field) <=>
       \/ Astray(m, field)
       \/ name = field /\ (t.kind # StringToken \/ t.text = <<>>)
  /\ Recent(a, field) = IF name = field THEN {t.text} ELSE Recent(m, field)

(* What one more member changes.                                             *)
LEMMA OneMoreMember ==
  ASSUME NEW m \in Seq(Member), NEW name \in Seq(Byte), NEW t \in Lexeme, NEW field,
         NEW a, a = Append(m, [key |-> name, value |-> t])
  PROVE  MemberTold(a, m, name, t, field)
<1> DEFINE x == [key |-> name, value |-> t]
           n == Len(m)
<1>1. x \in Member /\ x.key = name /\ x.value = t /\ a = Append(m, x)
  BY DEF Member
<1> HIDE DEF x
<1>2. /\ n \in Nat /\ Len(a) = n + 1 /\ DOMAIN a = 1 .. n + 1 /\ DOMAIN m = 1 .. n
      /\ a[n + 1] = x /\ \A i \in 1 .. n : a[i] = m[i]
  BY <1>1, AppendProperties
<1> HIDE DEF n
<1>3. DOMAIN a = DOMAIN m \cup {n + 1} /\ n + 1 \notin DOMAIN m /\ \A i \in DOMAIN m : i <= n + 1 /\ ~ n + 1 <= i
  BY <1>2
<1>4. Astray(a, field) <=>
         \/ Astray(m, field)
         \/ name = field /\ (t.kind # StringToken \/ t.text = <<>>)
  BY <1>1, <1>2, <1>3 DEF Astray
<1>5. Recent(a, field) = IF name = field THEN {t.text} ELSE Recent(m, field)
  <2> DEFINE fields(l) == {k \in DOMAIN l : l[k].key = field}
             last(l) == {k \in fields(l) : \A j \in fields(l) : j <= k}
  <2>1. /\ Recent(a, field) = {a[k].value.text : k \in last(a)}
        /\ Recent(m, field) = {m[k].value.text : k \in last(m)}
    BY DEF Recent
  <2>2. CASE name = field
    <3>1. last(a) = {n + 1}
      <4>1. n + 1 \in fields(a) /\ fields(a) \subseteq DOMAIN m \cup {n + 1}
        BY <1>1, <1>2, <1>3, <2>2
      <4> HIDE DEF fields
      <4>2. n + 1 <= n + 1
        BY <1>2
      <4> QED
        BY <1>3, <4>1, <4>2
    <3> HIDE DEF last
    <3>2. Recent(a, field) = {a[k].value.text : k \in {n + 1}}
      BY <2>1, <3>1, Zenon
    <3>3. a[n + 1].value.text = t.text
      BY <1>1, <1>2
    <3>4. {a[k].value.text : k \in {n + 1}} = {a[n + 1].value.text}
      OBVIOUS
    <3>5. Recent(a, field) = {t.text}
      BY <3>2, <3>3, <3>4, Zenon
    <3> QED
      BY <2>2, <3>5, Zenon
  <2>3. CASE name # field
    <3>1. fields(a) = fields(m)
      BY <1>1, <1>2, <1>3, <2>3
    <3>2. last(a) = last(m) /\ last(m) \subseteq DOMAIN m
      <4> HIDE DEF fields
      <4>1. last(a) = last(m) /\ last(m) \subseteq fields(m)
        BY <3>1
      <4> QED
        BY <4>1 DEF fields
    <3>3. \A k \in last(m) : a[k] = m[k]
      BY <1>2, <3>2
    <3> HIDE DEF last
    <3>4. /\ Recent(a, field) = {a[k].value.text : k \in last(m)}
          /\ Recent(m, field) = {m[k].value.text : k \in last(m)}
      BY <2>1, <3>2, Zenon
    <3>5. {a[k].value.text : k \in last(m)} = {m[k].value.text : k \in last(m)}
      BY <3>3
    <3> QED
      BY <2>3, <3>4, <3>5, Zenon
  <2> QED
    BY <2>2, <2>3
<1> QED
  BY <1>4, <1>5 DEF MemberTold

(* A member is told before what comes behind it.                             *)
LEMMA ToldNext ==
  ASSUME NEW m \in Seq(Member), NEW name \in Seq(Byte), NEW t \in Lexeme, NEW field, NEW id
  PROVE  LET a == Append(m, [key |-> name, value |-> t])
             string == t.kind = StringToken /\ t.text # <<>>
         IN /\ name # field => Told(a, field, id) = Told(m, field, id)
            /\ name = field /\ string =>
                 Told(a, field, id) = Told(m, field, IF id = <<>> THEN t.text ELSE id)
            /\ name = field /\ ~ string => Told(a, field, id) = {}
<1> DEFINE a == Append(m, [key |-> name, value |-> t])
<1>0. a = Append(m, [key |-> name, value |-> t])
  OBVIOUS
<1> HIDE DEF a
<1>1. MemberTold(a, m, name, t, field)
  BY <1>0, OneMoreMember
<1>2. name # field => Told(a, field, id) = Told(m, field, id)
  BY <1>1, ToldIs DEF MemberTold
<1>3. name = field /\ ~ (t.kind = StringToken /\ t.text # <<>>) => Told(a, field, id) = {}
  BY <1>1, ToldIs DEF MemberTold
<1>4. name = field /\ t.kind = StringToken /\ t.text # <<>> =>
        Told(a, field, id) = Told(m, field, IF id = <<>> THEN t.text ELSE id)
  BY <1>1, ToldIs DEF MemberTold
<1> QED
  BY <1>2, <1>3, <1>4 DEF a

(* What is behind a member, given the id w it has told.                      *)
ToldTail(line, objects, members, field, e, w, z) ==
  \/ \E c \in Closes(line, e, RightBrace) :
       SkipSpace(line, c) = Len(line) /\ z \in Told(members, field, w)
  \/ \E j \in NextItem(line, e) : \E o \in objects[j] :
       /\ SkipSpace(line, o.end) = Len(line)
       /\ z \in Told(members, field, IF o.id = <<>> THEN w ELSE o.id)

(* The same for all that is behind a member.                                 *)
LEMMA TailShift ==
  ASSUME NEW m \in Seq(Member), NEW name \in Seq(Byte), NEW t \in Lexeme, NEW field,
         NEW line, NEW objects, NEW e, NEW z
  PROVE  LET Behind(w) == ToldTail(line, objects, m, field, e, w, z)
             told == ToldTail(line, objects, Append(m, [key |-> name, value |-> t]), field, e, <<>>, z)
             string == t.kind = StringToken /\ t.text # <<>>
         IN /\ name # field => (told <=> Behind(<<>>))
            /\ name = field /\ string => (told <=> Behind(t.text))
            /\ name = field /\ ~ string => ~ told
<1> DEFINE a == Append(m, [key |-> name, value |-> t])
           string == t.kind = StringToken /\ t.text # <<>>
<1>1. \A id : /\ name # field => Told(a, field, id) = Told(m, field, id)
              /\ name = field /\ string =>
                   Told(a, field, id) = Told(m, field, IF id = <<>> THEN t.text ELSE id)
              /\ name = field /\ ~ string => Told(a, field, id) = {}
  BY ToldNext
<1> HIDE DEF a
<1>2. name # field => (ToldTail(line, objects, a, field, e, <<>>, z) <=> ToldTail(line, objects, m, field, e, <<>>, z))
  BY <1>1 DEF ToldTail
<1>3. ASSUME name = field, string
      PROVE  ToldTail(line, objects, a, field, e, <<>>, z) <=> ToldTail(line, objects, m, field, e, t.text, z)
  <2> HIDE DEF string
  <2>1. \A id : Told(a, field, id) = Told(m, field, IF id = <<>> THEN t.text ELSE id)
    BY <1>1, <1>3
  <2>2. Told(a, field, <<>>) = Told(m, field, t.text)
    BY <2>1
  <2>3. \A id : Told(a, field, IF id = <<>> THEN <<>> ELSE id) = Told(m, field, IF id = <<>> THEN t.text ELSE id)
    BY <2>1
  <2> QED
    BY <2>2, <2>3 DEF ToldTail
<1>4. name = field /\ ~ string => ~ ToldTail(line, objects, a, field, e, <<>>, z)
  <2> HIDE DEF string
  <2> QED
    BY <1>1 DEF ToldTail
<1> QED
  BY <1>2, <1>3, <1>4 DEF a

-----------------------------------------------------------------------------
(* The members of a record.                                                  *)

(* Behind the object nothing but space is left.                              *)
LEMMA RecordEnds ==
  ASSUME NEW line \in Seq(Byte), NEW field, NEW ids, Judged(line, field, ids),
         NEW m \in Seq(Member), NEW c \in 0 .. Len(line)
  PROVE  ids[c][Push(<<>>, m, Sign(ObjectToken))] =
           IF SkipSpace(line, c) = Len(line) THEN FieldIds(m, field) ELSE {}
<1> DEFINE n == Len(line)
           q == SkipSpace(line, c)
           o == Sign(ObjectToken)
           s == Append(<<>>, o)
<1>1. n \in Nat
  OBVIOUS
<1>2. o \in Lexeme /\ o.kind = 258
  BY SignType, KindsAre
<1> HIDE DEF o
<1>3. s \in Seq(Lexeme) /\ Len(s) = 1 /\ s[1] = o
  BY <1>2
<1>4. Push(<<>>, m, o) = Between(s, m)
  <2>1. <<>> \in Seq(Lexeme) /\ o.kind \in 256 .. 258
    BY <1>2
  <2> QED
    BY <1>2, <2>1, PushQuiet
<1> HIDE DEF s
<1>5. IsRecord(s)
  BY <1>2, <1>3, KindsAre DEF IsRecord
<1>6. q \in 0 .. n /\ SkipSpace(line, q) = q /\ ids[c][Between(s, m)] = ids[q][Between(s, m)]
  <2>1. q \in c .. n /\ SkipSpace(line, q) = q
    BY SpaceTwice
  <2>2. ids[c][Between(s, m)] = ids[q][Between(s, m)]
    BY <1>3, JudgedSpace
  <2> QED
    BY <1>1, <2>1, <2>2
<1> HIDE DEF q
<1>7. CASE q = n
  <2>1. ids[n][Between(s, m)] = FieldIds(m, field)
    BY <1>3, <1>5, JudgedEnd
  <2> QED
    BY <1>4, <1>6, <1>7, <2>1 DEF o, q
<1>8. CASE q # n
  <2> DEFINE b == line[q + 1]
  <2>1. b \in Byte
    <3>1. q + 1 \in 1 .. n
      BY <1>1, <1>6, <1>8
    <3> QED
      BY <3>1
  <2> HIDE DEF b
  <2>2. TokenKind(b) \in Kinds
    BY <2>1, TokenKindIs DEF Kinds
  <2>3. \A x \in Kinds : ~ Fit(0, 0, 258, x)
    BY DEF Kinds, Fit, Slot
  <2>4. KindAt(s, Len(s)) = 258 /\ KindAt(s, Len(s) - 1) = 0 /\ KindAt(s, Len(s) - 2) = 0
    BY <1>2, <1>3 DEF KindAt
  <2>5. Spoilt(s, TokenKind(b))
    BY <1>3, <2>2, <2>3, <2>4, SpoiltBy, ZenonT(40)
  <2>6. ids[q][Between(s, m)] = {}
    BY <1>3, <1>6, <1>8, <2>5, Stuck DEF b
  <2> QED
    BY <1>4, <1>6, <1>8, <2>6 DEF o, q
<1> QED
  BY <1>7, <1>8

(* What the scanner finds from a key on, and what the grammar finds there.   *)
TopAs(line, ids, field, objects, p, st, m, flush) ==
  \A z : z \in ids[p][Between(st, m)] <=>
           \E o \in objects[p] :
             SkipSpace(line, o.end) = Len(line) /\ z \in Told(flush, field, o.id)
TopRead(line, ids, field, objects, p) ==
  \A m \in Seq(Member) : \A st, flush :
    SkipSpace(line, p) = p /\ KeyPlace(line, p, st, m, <<>>, flush)
    => TopAs(line, ids, field, objects, p, st, m, flush)

(* Behind a member of the record: its end, or the next key.                  *)
LEMMA MemberTails ==
  ASSUME NEW line \in Seq(Byte), NEW field, NEW ids, Judged(line, field, ids), NEW objects,
         NEW e \in 0 .. Len(line),
         \A j \in e + 1 .. Len(line) : TopRead(line, ids, field, objects, j),
         NEW flush \in Seq(Member), NEW name \in Seq(Byte), NEW t \in Lexeme, t.kind \in 256 .. 258,
         NEW z
  PROVE  MemberThen(line, ids, <<>>, flush, Item(StringToken, name), t, e, z) <=>
           ToldTail(line, objects, Append(flush, [key |-> name, value |-> t]), field, e, <<>>, z)
<1> DEFINE n == Len(line)
           x == [key |-> name, value |-> t]
           a == Append(flush, x)
           key == Item(StringToken, name)
           u == NextKey(<<>>, key, t)
           Out(c) == z \in ids[c][Push(<<>>, a, Sign(ObjectToken))]
           Goes(j) == z \in ids[j][Between(u, flush)]
           Over(c) == SkipSpace(line, c) = n /\ z \in Told(a, field, <<>>)
           On(j) == \E o \in objects[j] :
                      SkipSpace(line, o.end) = n /\ z \in Told(a, field, o.id)
<1>1. n \in Nat
  OBVIOUS
<1>2. key \in Lexeme /\ key.kind = 256 /\ key.text = name
  BY KindsAre DEF Item, Lexeme
<1>3. x \in Member
  BY DEF Member
<1>4. Kept(<<>>, key, t, flush) = a
  BY <1>2 DEF Kept
<1> HIDE DEF key, x
<1>5. a \in Seq(Member)
  BY <1>3
<1> HIDE DEF a
<1>6. ASSUME NEW c \in Closes(line, e, RightBrace) PROVE Out(c) <=> Over(c)
  <2>1. c \in 0 .. n
    <3>1. c \in e + 1 .. n
      BY PlacesAhead
    <3> QED
      BY <1>1, <3>1
  <2>2. ids[c][Push(<<>>, a, Sign(ObjectToken))] =
          IF SkipSpace(line, c) = n THEN FieldIds(a, field) ELSE {}
    BY <1>5, <2>1, RecordEnds
  <2>3. Told(a, field, <<>>) = FieldIds(a, field)
    BY ToldNone
  <2> QED
    BY <2>2, <2>3
<1>7. ASSUME NEW j \in NextItem(line, e) PROVE Goes(j) <=> On(j)
  <2>1. j \in e + 1 .. n /\ SkipSpace(line, j) = j
    BY ItemPlaces
  <2>2. KeyPlace(line, j, u, flush, <<>>, a)
    BY <1>2, <1>4 DEF KeyPlace
  <2>3. TopRead(line, ids, field, objects, j)
    BY <2>1
  <2> HIDE DEF u
  <2>4. TopAs(line, ids, field, objects, j, u, flush, a)
    BY <2>1, <2>2, <2>3 DEF TopRead
  <2> QED
    BY <2>4 DEF TopAs
<1>8. MemberThen(line, ids, <<>>, flush, key, t, e, z) <=>
        \/ \E c \in Closes(line, e, RightBrace) : Out(c)
        \/ \E j \in NextItem(line, e) : Goes(j)
  BY <1>4 DEF MemberThen
<1>9. ToldTail(line, objects, a, field, e, <<>>, z) <=>
        \/ \E c \in Closes(line, e, RightBrace) : Over(c)
        \/ \E j \in NextItem(line, e) : On(j)
  <2>1. \A id : (IF id = <<>> THEN <<>> ELSE id) = id
    OBVIOUS
  <2> QED
    BY <2>1 DEF ToldTail
<1> HIDE DEF Out, Goes, Over, On
<1>10. MemberThen(line, ids, <<>>, flush, key, t, e, z) <=> ToldTail(line, objects, a, field, e, <<>>, z)
  BY <1>6, <1>7, <1>8, <1>9
<1> QED
  BY <1>10 DEF key, a, x

(* Behind a member, for the scanner.                                         *)
LEMMA RestTold ==
  ASSUME NEW line, NEW objects, NEW members, NEW field, NEW v, NEW z, NEW Ends, NEW Texts,
         \A j \in NextItem(line, v.end) : objects[j] \subseteq [end : Ends, id : Texts]
  PROVE  (\E o \in MemberRest(line, objects, v) :
            SkipSpace(line, o.end) = Len(line) /\ z \in Told(members, field, o.id))
         <=> ToldTail(line, objects, members, field, v.end, v.value, z)
<1> DEFINE Over(end, id) == SkipSpace(line, end) = Len(line) /\ z \in Told(members, field, id)
           Turned(o) == [o EXCEPT !.id = IF @ = <<>> THEN v.value ELSE @]
           C == Closes(line, v.end, RightBrace)
           N == NextItem(line, v.end)
<1>1. \A j \in N : \A o \in objects[j] :
        /\ Turned(o).end = o.end
        /\ Turned(o).id = IF o.id = <<>> THEN v.value ELSE o.id
  <2> SUFFICES ASSUME NEW j \in N, NEW o \in objects[j]
               PROVE  /\ Turned(o).end = o.end
                      /\ Turned(o).id = IF o.id = <<>> THEN v.value ELSE o.id
    OBVIOUS
  <2>1. o \in [end : Ends, id : Texts]
    OBVIOUS
  <2> QED
    BY <2>1
<1>2. MemberRest(line, objects, v) =
        {[end |-> e, id |-> v.value] : e \in C} \cup UNION {{Turned(o) : o \in objects[j]} : j \in N}
  BY DEF MemberRest, Later
<1> HIDE DEF Turned, C, N
<1>3. (\E o \in MemberRest(line, objects, v) : Over(o.end, o.id)) <=>
        \/ \E e \in C : Over(e, v.value)
        \/ \E j \in N : \E o \in objects[j] : Over(o.end, IF o.id = <<>> THEN v.value ELSE o.id)
  <2> HIDE DEF Over
  <2>1. ASSUME NEW x \in MemberRest(line, objects, v), Over(x.end, x.id)
        PROVE  \/ \E e \in C : Over(e, v.value)
               \/ \E j \in N : \E o \in objects[j] : Over(o.end, IF o.id = <<>> THEN v.value ELSE o.id)
    <3>1. CASE \E e \in C : x = [end |-> e, id |-> v.value]
      BY <2>1, <3>1
    <3>2. CASE \E j \in N : \E o \in objects[j] : x = Turned(o)
      <4>0. PICK j \in N : \E o \in objects[j] : x = Turned(o)
        BY <3>2
      <4>1. PICK o \in objects[j] : x = Turned(o)
        BY <4>0
      <4>2. x.end = o.end /\ x.id = IF o.id = <<>> THEN v.value ELSE o.id
        BY <1>1, <4>1
      <4>3. Over(o.end, IF o.id = <<>> THEN v.value ELSE o.id)
        BY <2>1, <4>2
      <4> QED
        BY <4>3
    <3> QED
      BY <1>2, <3>1, <3>2
  <2>2. ASSUME NEW e \in C, Over(e, v.value)
        PROVE  \E o \in MemberRest(line, objects, v) : Over(o.end, o.id)
    <3> DEFINE x == [end |-> e, id |-> v.value]
    <3>1. x \in MemberRest(line, objects, v)
      BY <1>2
    <3>2. Over(x.end, x.id)
      BY <2>2
    <3> QED
      BY <3>1, <3>2
  <2>3. ASSUME NEW j \in N, NEW o \in objects[j], Over(o.end, IF o.id = <<>> THEN v.value ELSE o.id)
        PROVE  \E x \in MemberRest(line, objects, v) : Over(x.end, x.id)
    <3>1. Turned(o) \in MemberRest(line, objects, v)
      BY <1>2
    <3>2. Over(Turned(o).end, Turned(o).id)
      BY <1>1, <2>3
    <3> QED
      BY <3>1, <3>2
  <2> QED
    BY <2>1, <2>2, <2>3
<1> QED
  BY <1>3 DEF ToldTail, C, N

(* What a key and its value tell, by the grammar and by the scanner.         *)
LEMMA KeyTold ==
  ASSUME NEW line \in Seq(Byte), NEW field, NEW objects, NEW flush \in Seq(Member), NEW z,
         NEW value, NEW member, NEW element, Scanned(line, value, member, element),
         \A from \in 0 .. Len(line) : SkipValue(line, from) = value[from],
         NEW p \in 0 .. Len(line), NEW k \in Key(line, p)
  PROVE  (\E e \in value[k.value_at] : \E t \in TokensOf(line, k.value_at, e) :
            ToldTail(line, objects, Append(flush, [key |-> k.name, value |-> t]), field, e, <<>>, z))
         <=> (\E v \in WantedValue(line, field, k) :
                ToldTail(line, objects, flush, field, v.end, v.value, z))
<1> DEFINE n == Len(line)
           a == k.value_at
           V == value[a]
           T(e) == TokensOf(line, a, e)
           Behind(e, w) == ToldTail(line, objects, flush, field, e, w, z)
           Follows(t, e) == ToldTail(line, objects, Append(flush, [key |-> k.name, value |-> t]), field, e, <<>>, z)
           string(t) == t.kind = StringToken /\ t.text # <<>>
<1>1. a \in 0 .. n /\ k.name \in Seq(Byte)
  <2>1. n \in Nat /\ a \in p + 2 .. n /\ k.name \in Seq(Byte)
    BY PlacesAhead
  <2> QED
    BY <2>1
<1>2. ASSUME NEW e \in V
      PROVE  /\ \E t \in T(e) : TRUE
             /\ \A t \in T(e) : t \in Lexeme /\ (t.kind = 256 <=> At(line, a, Quote))
  <2>1. /\ e \in a + 1 .. n
        /\ \E t \in T(e) : TRUE
        /\ \A t \in T(e) : t \in Lexeme /\ t.kind \in 256 .. 258
    BY <1>1, TokensExist
  <2> QED
    BY <1>1, <2>1, TokensOfType
<1>3. ASSUME NEW e \in V, NEW t \in T(e)
      PROVE  /\ k.name # field => (Follows(t, e) <=> Behind(e, <<>>))
             /\ k.name = field /\ string(t) => (Follows(t, e) <=> Behind(e, t.text))
             /\ k.name = field /\ ~ string(t) => ~ Follows(t, e)
  <2>1. t \in Lexeme
    BY <1>2
  <2> QED
    BY <1>1, <2>1, TailShift
<1> HIDE DEF Follows, T, Behind
<1>4. CASE k.name # field
  <2>1. SkipValue(line, a) = V
    BY <1>1
  <2>2. WantedValue(line, field, k) = {[end |-> e, value |-> <<>>] : e \in V}
    BY <1>4, <2>1 DEF WantedValue
  <2>3. (\E v \in WantedValue(line, field, k) : Behind(v.end, v.value)) <=> \E e \in V : Behind(e, <<>>)
    <3> HIDE DEF V
    <3>1. ASSUME NEW v \in WantedValue(line, field, k), Behind(v.end, v.value)
          PROVE  \E e \in V : Behind(e, <<>>)
      <4>1. PICK e \in V : v = [end |-> e, value |-> <<>>]
        BY <2>2
      <4>2. v.end = e /\ v.value = <<>>
        BY <4>1
      <4> QED
        BY <3>1, <4>2
    <3>2. ASSUME NEW e \in V, Behind(e, <<>>)
          PROVE  \E v \in WantedValue(line, field, k) : Behind(v.end, v.value)
      <4> DEFINE v == [end |-> e, value |-> <<>>]
      <4>1. v \in WantedValue(line, field, k) /\ v.end = e /\ v.value = <<>>
        BY <2>2
      <4> HIDE DEF v
      <4> QED
        BY <3>2, <4>1
    <3> QED
      BY <3>1, <3>2
  <2> HIDE DEF V
  <2>4. (\E e \in V : \E t \in T(e) : Follows(t, e)) <=> \E e \in V : Behind(e, <<>>)
    BY <1>2, <1>3, <1>4
  <2> QED
    BY <2>3, <2>4 DEF Follows, T, Behind, V
<1>5. CASE k.name = field /\ At(line, a, Quote)
  <2> DEFINE P == ParseString(line, a)
             Full == {y \in P : y.value # <<>>}
  <2>1. V = {y.end : y \in P}
    BY <1>1, <1>5 DEF Scanned, ValueStep
  <2>2. \A e : T(e) = {Item(StringToken, y.value) : y \in {y \in P : y.end = e}}
    BY <1>5 DEF TokensOf, T
  <2>3. WantedValue(line, field, k) = Full
    BY <1>5 DEF WantedValue
  <2> HIDE DEF V, P
  <2>4. ASSUME NEW e \in V, NEW t \in T(e), Follows(t, e)
        PROVE  \E y \in Full : Behind(y.end, y.value)
    <3>1. PICK y \in P : y.end = e /\ t = Item(StringToken, y.value)
      BY <2>2
    <3>2. t.kind = StringToken /\ t.text = y.value
      BY <3>1 DEF Item
    <3>3. string(t)
      BY <1>3, <1>5, <2>4
    <3>4. Behind(e, t.text)
      BY <1>3, <1>5, <2>4, <3>3
    <3> QED
      BY <3>1, <3>2, <3>3, <3>4
  <2>5. ASSUME NEW y \in Full, Behind(y.end, y.value)
        PROVE  \E e \in V : \E t \in T(e) : Follows(t, e)
    <3> DEFINE t == Item(StringToken, y.value)
               e == y.end
    <3>1. e \in V /\ t \in T(e)
      BY <2>1, <2>2
    <3>2. string(t) /\ t.text = y.value
      BY DEF Item
    <3> HIDE DEF t
    <3>3. Follows(t, e)
      BY <1>3, <1>5, <2>5, <3>1, <3>2
    <3> QED
      BY <3>1, <3>3
  <2> HIDE DEF Full
  <2>6. (\E e \in V : \E t \in T(e) : Follows(t, e)) <=> \E v \in Full : Behind(v.end, v.value)
    BY <2>4, <2>5
  <2> QED
    BY <2>3, <2>6 DEF Follows, T, Behind, V
<1>6. CASE k.name = field /\ ~ At(line, a, Quote)
  <2>1. ParseString(line, a) = {}
    BY <1>6 DEF ParseString
  <2>2. WantedValue(line, field, k) = {}
    BY <1>6, <2>1 DEF WantedValue
  <2>3. \A e \in V : \A t \in T(e) : ~ Follows(t, e)
    BY <1>2, <1>3, <1>6, KindsAre
  <2> QED
    BY <2>2, <2>3 DEF Follows, T, Behind, V
<1> QED
  BY <1>4, <1>5, <1>6

(* The members of a record, from the end of the line back.                   *)
LEMMA TopReads ==
  ASSUME NEW line \in Seq(Byte), NEW field \in Seq(Byte), NEW ids, Judged(line, field, ids)
  PROVE  \A p \in 0 .. Len(line) : TopRead(line, ids, field, Objects(line, field), p)
<1> DEFINE n == Len(line)
           objects == Objects(line, field)
           S == {p \in 0 .. n : TopRead(line, ids, field, objects, p)}
<1>1. n \in Nat
  OBVIOUS
<1>2. PICK value, member, element :
        /\ Scanned(line, value, member, element)
        /\ \A from \in 0 .. n : SkipValue(line, from) = value[from]
  BY ScanRuns
<1>3. \A p \in 0 .. n : ValueRead(line, ids, value, p)
  BY <1>2, ScannedRead
<1>4. \A p \in 0 .. n :
        /\ objects[p] = UNION {UNION {MemberRest(line, objects, v) : v \in WantedValue(line, field, k)} :
                                 k \in Key(line, p)}
        /\ objects[p] \subseteq [end : p + 1 .. n, id : Seq(Byte)]
  BY ObjectRuns, ObjectStepIs
<1> HIDE DEF objects
<1>5. ASSUME NEW p \in 0 .. n, \A j \in p + 1 .. n : TopRead(line, ids, field, objects, j)
      PROVE  TopRead(line, ids, field, objects, p)
  <2> SUFFICES ASSUME NEW m \in Seq(Member), NEW st, NEW flush, SkipSpace(line, p) = p,
                      KeyPlace(line, p, st, m, <<>>, flush)
               PROVE  TopAs(line, ids, field, objects, p, st, m, flush)
    BY DEF TopRead
  <2> SUFFICES ASSUME NEW z
               PROVE  z \in ids[p][Between(st, m)] <=>
                        \E o \in objects[p] : SkipSpace(line, o.end) = n /\ z \in Told(flush, field, o.id)
    BY DEF TopAs
  <2>1. flush \in Seq(Member) /\ <<>> \in Seq(Lexeme)
    <3>1. <<>> \in Seq(Lexeme)
      OBVIOUS
    <3> QED
      BY <3>1, KeyPlaceIs DEF KeyAwaited
  <2>2. MemberLed(line, ids, value, st, m, <<>>, flush, p)
    <3>1. \A j \in p + 1 .. n : ValueRead(line, ids, value, j)
      BY <1>1, <1>3
    <3> QED
      BY <1>2, <2>1, <3>1, MemberLeads
  <2> DEFINE Over(o) == SkipSpace(line, o.end) = n /\ z \in Told(flush, field, o.id)
             Then(k) == \E e \in value[k.value_at] : \E t \in TokensOf(line, k.value_at, e) :
                          MemberThen(line, ids, <<>>, flush, Item(StringToken, k.name), t, e, z)
             Values(k) == WantedValue(line, field, k)
             Rest(v) == MemberRest(line, objects, v)
             Follows(v) == ToldTail(line, objects, flush, field, v.end, v.value, z)
  <2>3. z \in ids[p][Between(st, m)] <=> \E k \in Key(line, p) : Then(k)
    BY <2>2 DEF MemberLed
  <2>4. ASSUME NEW k \in Key(line, p)
        PROVE  Then(k) <=> \E v \in Values(k) : Follows(v)
    <3> DEFINE a == k.value_at
               To(t, e) == ToldTail(line, objects, Append(flush, [key |-> k.name, value |-> t]), field, e, <<>>, z)
    <3>1. a \in p + 2 .. n /\ a \in 0 .. n /\ k.name \in Seq(Byte)
      <4>1. a \in p + 2 .. n /\ k.name \in Seq(Byte)
        BY PlacesAhead
      <4> QED
        BY <1>1, <4>1
    <3>2. ASSUME NEW e \in value[a], NEW t \in TokensOf(line, a, e)
          PROVE  MemberThen(line, ids, <<>>, flush, Item(StringToken, k.name), t, e, z) <=> To(t, e)
      <4>1. e \in a + 1 .. n /\ t \in Lexeme /\ t.kind \in 256 .. 258
        BY <1>2, <3>1, TokensExist
      <4>2. e \in 0 .. n /\ \A j \in e + 1 .. n : j \in p + 1 .. n
        BY <1>1, <3>1, <4>1
      <4>3. \A j \in e + 1 .. n : TopRead(line, ids, field, objects, j)
        BY <1>5, <4>2
      <4> QED
        BY <2>1, <3>1, <4>1, <4>2, <4>3, MemberTails
    <3>3. Then(k) <=> \E e \in value[a] : \E t \in TokensOf(line, a, e) : To(t, e)
      <4> HIDE DEF To
      <4> QED
        BY <3>2
    <3>4. (\E e \in value[a] : \E t \in TokensOf(line, a, e) : To(t, e)) <=> \E v \in Values(k) : Follows(v)
      BY <1>2, <2>1, KeyTold
    <3> QED
      BY <3>3, <3>4
  <2>5. ASSUME NEW k \in Key(line, p), NEW v \in Values(k)
        PROVE  (\E o \in Rest(v) : Over(o)) <=> Follows(v)
    <3> DEFINE Texts == Seq(Byte)
    <3>1. NextItem(line, v.end) \subseteq p + 1 .. n
      BY WantedValueType
    <3>2. \A j \in NextItem(line, v.end) : objects[j] \subseteq [end : 0 .. n, id : Texts]
      <4> SUFFICES ASSUME NEW j \in NextItem(line, v.end), NEW o \in objects[j]
                   PROVE  o \in [end : 0 .. n, id : Texts]
        OBVIOUS
      <4>1. j \in p + 1 .. n /\ j \in 0 .. n
        BY <1>1, <3>1
      <4>2. o \in [end : j + 1 .. n, id : Texts]
        BY <1>4, <4>1
      <4> HIDE DEF Texts
      <4>3. j + 1 .. n \subseteq 0 .. n
        BY <1>1, <4>1
      <4> QED
        BY <4>2, <4>3
    <3> HIDE DEF Texts
    <3> QED
      BY <3>2, RestTold
  <2>6. (\E o \in objects[p] : Over(o)) <=>
          \E k \in Key(line, p) : \E v \in Values(k) : \E o \in Rest(v) : Over(o)
    <3>1. objects[p] = UNION {UNION {Rest(v) : v \in Values(k)} : k \in Key(line, p)}
      BY <1>4
    <3> HIDE DEF Rest, Values, Over
    <3> QED
      BY <3>1
  <2> HIDE DEF Rest, Values, Follows, Then, Over
  <2>7. (\E k \in Key(line, p) : Then(k)) <=>
          \E k \in Key(line, p) : \E v \in Values(k) : \E o \in Rest(v) : Over(o)
    BY <2>4, <2>5
  <2>8. z \in ids[p][Between(st, m)] <=> \E o \in objects[p] : Over(o)
    BY <2>3, <2>6, <2>7
  <2> QED
    BY <2>8 DEF Over
<1>6. ASSUME NEW p \in 0 .. n, \A j \in p + 1 .. n : j \in S PROVE p \in S
  BY <1>5, <1>6
<1> HIDE DEF S, n
<1>7. \A p \in 0 .. n : p \in S
  BY <1>1, <1>6, FromTheEnd
<1> QED
  BY <1>7 DEF S, n, objects

-----------------------------------------------------------------------------
(* A line.                                                                   *)

(* The grammar finds the object parse_object does, and the id it has.        *)
LEMMA StartReads ==
  ASSUME NEW line \in Seq(Byte), NEW field \in Seq(Byte), NEW ids, Judged(line, field, ids), NEW z
  PROVE  z \in ids[0][Between(<<>>, <<>>)] <=>
           \E o \in ParseObject(line, field) :
             SkipSpace(line, o.end) = Len(line) /\ z \in Told(<<>>, field, o.id)
<1> DEFINE n == Len(line)
           first == SkipSpace(line, 0)
           q == SkipSpace(line, first + 1)
           none == <<>>
           brace == Sign(LeftBrace)
           s == Entering(none)
           objects == Objects(line, field)
           Over(o) == SkipSpace(line, o.end) = n /\ z \in Told(none, field, o.id)
           Out == z \in ids[0][Between(none, none)]
           Agreed == \E o \in ParseObject(line, field) : Over(o)
<1>1. n \in Nat /\ 0 \in 0 .. n
  OBVIOUS
<1>2. none \in Seq(Lexeme) /\ none \in Seq(Member)
  OBVIOUS
<1>3. PICK k \in Lexeme : k.kind = 256
  <2>1. Sign(StringToken) \in Lexeme /\ Sign(StringToken).kind = 256
    BY SignType, KindsAre
  <2> QED
    BY <2>1
<1>4. ObjectPushes(none, k, k, k, none)
  <2> HIDE DEF none
  <2> QED
    BY <1>2, <1>3, ObjectFrame
<1>5. s \in Seq(Lexeme)
  BY <1>2, <1>3, FrameTypes
<1>6. ParseObject(line, field) =
        IF ~ At(line, first, LeftBrace) THEN {}
        ELSE IF Closes(line, first + 1, RightBrace) # {}
        THEN {[end |-> e, id |-> <<>>] : e \in Closes(line, first + 1, RightBrace)}
        ELSE objects[q]
  BY ObjectRuns
<1>7. NextSign(line, ids, none, none, 0, {LeftBrace})
  <2>1. \A c \in Kinds \ {LeftBrace} : ~ Fit(0, 0, 0, c)
    BY KindsAre DEF Kinds, Fit, Slot
  <2>2. ~ IsRecord(none) /\ KindAt(none, Len(none)) = 0 /\ KindAt(none, Len(none) - 1) = 0
        /\ KindAt(none, Len(none) - 2) = 0
    BY DEF IsRecord, KindAt
  <2> HIDE DEF none
  <2>3. \A c \in Kinds \ {LeftBrace} : Spoilt(none, c)
    BY <1>2, <2>1, <2>2, SpoiltBy
  <2>4. {LeftBrace} \subseteq Structure
    BY KindsAre
  <2> QED
    BY <1>1, <1>2, <2>2, <2>3, <2>4, NextSigns
<1>8. first \in 0 .. n
  BY <1>1, SpaceTwice
<1>9. CASE ~ At(line, first, LeftBrace)
  <2>1. ids[0][Between(none, none)] = {}
    BY <1>7, <1>9 DEF NextSign
  <2> QED
    BY <1>6, <1>9, <2>1
<1>10. CASE At(line, first, LeftBrace)
  <2>1. first < n /\ first + 1 \in 0 .. n
    BY <1>1, <1>8, <1>10 DEF At
  <2>2. ids[0][Between(none, none)] = ids[first + 1][Between(s, none)]
    <3>1. ids[0][Between(none, none)] = ids[first + 1][Push(none, none, brace)]
      BY <1>7, <1>10 DEF NextSign
    <3>2. Push(none, none, brace) = Between(s, none)
      BY <1>4 DEF ObjectPushes
    <3> HIDE DEF none, s, brace, first
    <3> QED
      BY <3>1, <3>2
  <2>3. q \in 0 .. n /\ SkipSpace(line, q) = q
    <3>1. q \in first + 1 .. n /\ SkipSpace(line, q) = q
      BY <2>1, SpaceTwice
    <3> QED
      BY <1>1, <1>8, <3>1
  <2>4. ids[first + 1][Between(s, none)] = ids[q][Between(s, none)]
    <3> HIDE DEF none, s, first
    <3> QED
      BY <1>2, <1>5, <2>1, JudgedSpace DEF first
  <2>5. Closes(line, first + 1, RightBrace) = IF At(line, q, RightBrace) THEN {q + 1} ELSE {}
    BY DEF Closes
  <2> HIDE DEF first, q
  <2>6. CASE At(line, q, RightBrace)
    <3>1. q + 1 \in 0 .. n
      BY <1>1, <2>3, <2>6 DEF At
    <3>2. StructureAhead(line, ids, s, none, q)
      <4> HIDE DEF none, s
      <4> QED
        BY <1>2, <1>5, <2>3, TokenAhead
    <3>3. ids[q][Between(s, none)] = ids[q + 1][Push(s, none, Sign(RightBrace))]
      <4>1. q < n /\ line[q + 1] = RightBrace /\ RightBrace \in Structure
        BY <2>6, KindsAre DEF At
      <4> QED
        BY <3>2, <4>1 DEF StructureAhead
    <3>4. Push(s, none, Sign(RightBrace)) = Push(none, none, Sign(ObjectToken))
      BY <1>4 DEF ObjectPushes
    <3>5. ids[q + 1][Push(none, none, Sign(ObjectToken))] =
            IF SkipSpace(line, q + 1) = n THEN Told(none, field, <<>>) ELSE {}
      <4>1. ids[q + 1][Push(<<>>, none, Sign(ObjectToken))] =
              IF SkipSpace(line, q + 1) = n THEN FieldIds(none, field) ELSE {}
        BY <1>2, <3>1, RecordEnds
      <4>2. Told(none, field, <<>>) = FieldIds(none, field)
        BY ToldNone
      <4> QED
        BY <4>1, <4>2
    <3>6. ids[0][Between(none, none)] =
            IF SkipSpace(line, q + 1) = n THEN Told(none, field, <<>>) ELSE {}
      <4> HIDE DEF none, s
      <4> QED
        BY <2>2, <2>4, <3>3, <3>4, <3>5
    <3>7. ParseObject(line, field) = {[end |-> q + 1, id |-> <<>>]}
      <4>1. Closes(line, first + 1, RightBrace) = {q + 1}
        BY <2>5, <2>6
      <4> QED
        BY <1>6, <1>10, <4>1
    <3>8. Agreed <=> SkipSpace(line, q + 1) = n /\ z \in Told(none, field, <<>>)
      <4> DEFINE o == [end |-> q + 1, id |-> <<>>]
      <4>1. o.end = q + 1 /\ o.id = <<>> /\ ParseObject(line, field) = {o}
        BY <3>7
      <4> HIDE DEF o
      <4>2. Agreed <=> Over(o)
        BY <4>1
      <4> QED
        BY <4>1, <4>2
    <3>9. Out <=> Agreed
      BY <3>6, <3>8
    <3> QED
      BY <3>9
  <2>7. CASE ~ At(line, q, RightBrace)
    <3>1. KeyPlace(line, q, s, none, none, none)
      BY <2>7 DEF KeyPlace
    <3>2. TopRead(line, ids, field, objects, q)
      BY <2>3, TopReads
    <3>3. TopAs(line, ids, field, objects, q, s, none, none)
      <4> HIDE DEF s, objects
      <4> QED
        BY <1>2, <2>3, <3>1, <3>2 DEF TopRead
    <3>4. z \in ids[q][Between(s, none)] <=> \E o \in objects[q] : Over(o)
      BY <3>3 DEF TopAs
    <3>5. ParseObject(line, field) = objects[q]
      BY <1>6, <1>10, <2>5, <2>7
    <3> HIDE DEF objects, s, Over
    <3>6. Out <=> Agreed
      <4> HIDE DEF none
      <4> QED
        BY <2>2, <2>4, <3>4, <3>5
    <3> QED
      BY <3>6 DEF Over
  <2> QED
    BY <2>6, <2>7
<1> QED
  BY <1>9, <1>10

(* The scanner's ids are those the grammar finds from the start.             *)
LEMMA StartIds ==
  ASSUME NEW line \in Seq(Byte), NEW field \in Seq(Byte), NEW ids, Judged(line, field, ids)
  PROVE  RecordIds(line, field) = ids[0][Between(<<>>, <<>>)]
<1> DEFINE n == Len(line)
           Ended(o) == SkipSpace(line, o.end) = n
           P == ParseObject(line, field)
           Good == {o \in P : Ended(o) /\ (field # <<>> => o.id # <<>>)}
           Id(o) == IF field = <<>> THEN <<>> ELSE o.id
<1>1. RecordIds(line, field) = {Id(o) : o \in Good}
  BY DEF RecordIds
<1>2. \A id : Told(<<>>, field, id) =
                IF field = <<>> THEN {<<>>} ELSE IF id # <<>> THEN {id} ELSE {}
  <2>1. DOMAIN (<<>>) = {}
    OBVIOUS
  <2>2. ~ Astray(<<>>, field)
    BY <2>1 DEF Astray
  <2>3. Recent(<<>>, field) = {}
    BY <2>1 DEF Recent
  <2> QED
    BY <2>2, <2>3, ToldIs
<1>3. ASSUME NEW o
      PROVE  \A z : (Ended(o) /\ z \in Told(<<>>, field, o.id)) <=>
                    (Ended(o) /\ (field # <<>> => o.id # <<>>) /\ z = Id(o))
  <2> HIDE DEF Ended
  <2> QED
    BY <1>2
<1>4. ASSUME NEW z
      PROVE  z \in RecordIds(line, field) <=> z \in ids[0][Between(<<>>, <<>>)]
  <2>1. z \in ids[0][Between(<<>>, <<>>)] <=>
          \E o \in P : Ended(o) /\ z \in Told(<<>>, field, o.id)
    BY StartReads
  <2> HIDE DEF P, Ended, Id
  <2>2. z \in ids[0][Between(<<>>, <<>>)] <=>
          \E o \in P : Ended(o) /\ (field # <<>> => o.id # <<>>) /\ z = Id(o)
    BY <1>3, <2>1
  <2>3. z \in RecordIds(line, field) <=>
          \E o \in P : Ended(o) /\ (field # <<>> => o.id # <<>>) /\ z = Id(o)
    BY <1>1
  <2> QED
    BY <2>2, <2>3
<1>5. ids[0][Between(<<>>, <<>>)] \subseteq Seq(Byte)
  <2>1. <<>> \in Seq(Lexeme) /\ <<>> \in Seq(Member) /\ 0 \in 0 .. n
    OBVIOUS
  <2>2. Between(<<>>, <<>>) \in Readings
    BY <2>1, BetweenType
  <2> QED
    BY <2>1, <2>2 DEF Judged
<1>6. \A z : z \in RecordIds(line, field) <=> z \in ids[0][Between(<<>>, <<>>)]
  BY <1>4
<1> QED
  BY <1>6

(* The start is a reading.                                                   *)
LEMMA StartIsReading == Start = Between(<<>>, <<>>) /\ Start \in Readings
<1>1. <<>> \in Seq(Lexeme) /\ <<>> \in Seq(Member)
  OBVIOUS
<1>2. Between(<<>>, <<>>) \in Readings
  BY <1>1, BetweenType
<1> QED
  BY <1>2 DEF Between, In, Start

(* Readings byte by byte, whatever a byte makes of a reading.                *)
Steps(line, next, f) ==
  /\ f \in [0 .. Len(line) -> SUBSET Readings]
  /\ f[0] = {Start}
  /\ \A p \in 1 .. Len(line) : f[p] = UNION {next[r][line[p]] : r \in f[p - 1]}

(* There are such readings.                                                  *)
LEMMA ReadingsExist ==
  ASSUME NEW line \in Seq(Byte), NEW next \in [Readings -> [Byte -> SUBSET Readings]]
  PROVE  \E f : Steps(line, next, f)
<1> DEFINE n == Len(line)
           V == SUBSET Readings
           Then(v, b) == UNION {next[r][b] : r \in v}
           base == {Start}
           step == [i \in 0 .. n - 1 |-> [v \in V |-> Then(v, line[n - i])]]
           further == [i \in 0 .. n - 1 |-> i + 1]
<1>1. n \in Nat /\ \A i \in 0 .. n - 1 : i + 1 \in i + 1 .. n /\ n - i \in 1 .. n
  OBVIOUS
<1>2. Start \in Readings
  BY StartIsReading
<1>3. ASSUME NEW i \in 0 .. n - 1, NEW v \in V
      PROVE  step[i][v] = Then(v, line[n - i]) /\ step[i][v] \in V
  <2>1. step[i][v] = Then(v, line[n - i])
    OBVIOUS
  <2>2. line[n - i] \in Byte
    BY <1>1
  <2>3. \A r \in v : next[r][line[n - i]] \subseteq Readings
    BY <2>2
  <2> HIDE DEF step
  <2> QED
    BY <2>1, <2>3
<1>4. PICK h \in [0 .. n -> V] :
        h = [i \in 0 .. n |-> IF i = n THEN base ELSE step[i][h[further[i]]]]
  <2>1. \A i \in 0 .. n - 1 : further[i] \in i + 1 .. n
    BY <1>1
  <2>2. base \in V
    BY <1>2
  <2>3. \A i \in 0 .. n - 1 : \A v \in V : step[i][v] \in V
    BY <1>3
  <2> HIDE DEF n, V, base, step, further
  <2>4. Computable(n, V, base, further, step)
    BY <1>1, <2>1, <2>2, <2>3, BackwardRecursion
  <2> QED
    BY <2>4 DEF Computable
<1> DEFINE f == [p \in 0 .. n |-> h[n - p]]
<1>5. f \in [0 .. n -> SUBSET Readings]
  <2>1. \A p \in 0 .. n : n - p \in 0 .. n
    BY <1>1
  <2> QED
    BY <2>1
<1>6. f[0] = {Start}
  <2>1. 0 \in 0 .. n /\ n - 0 = n /\ n \in 0 .. n
    BY <1>1
  <2>2. h[n] = {Start}
    BY <1>4, <2>1
  <2> QED
    BY <2>1, <2>2
<1>7. ASSUME NEW p \in 1 .. n
      PROVE  f[p] = Then(f[p - 1], line[p])
  <2> DEFINE i == n - p
  <2>1. /\ i \in 0 .. n - 1 /\ i \in 0 .. n /\ i # n /\ n - i = p /\ i + 1 = n - (p - 1)
        /\ p \in 0 .. n /\ p - 1 \in 0 .. n /\ i + 1 \in 0 .. n
    BY <1>1
  <2>2. f[p] = h[i] /\ f[p - 1] = h[i + 1]
    BY <2>1
  <2> HIDE DEF i, f
  <2>3. h[i] = step[i][h[further[i]]]
    BY <1>4, <2>1
  <2>4. further[i] = i + 1 /\ h[i + 1] \in V
    BY <2>1
  <2> HIDE DEF step, further, Then
  <2>5. h[i] = Then(h[i + 1], line[p])
    BY <1>3, <2>1, <2>3, <2>4
  <2> QED
    BY <2>2, <2>5
<1> HIDE DEF f
<1> QED
  BY <1>5, <1>6, <1>7 DEF Steps

(* The dialect's readings, each from the one before.                         *)
LEMMA DialectReads ==
  ASSUME NEW line \in Seq(Byte)
  PROVE  /\ DialectReadings(line) \in [0 .. Len(line) -> SUBSET Readings]
         /\ DialectReadings(line)[0] = {Start}
         /\ \A p \in 1 .. Len(line) :
              DialectReadings(line)[p] = ReadByte(DialectReadings(line)[p - 1], line[p])
<1> DEFINE n == Len(line)
           next == [r \in Readings |-> [b \in Byte |-> Read(r, b)]]
           Solves(f) == f = [p \in 0 .. n |-> IF p = 0 THEN {Start} ELSE ReadByte(f[p - 1], line[p])]
<1>1. n \in Nat
  OBVIOUS
<1>2. next \in [Readings -> [Byte -> SUBSET Readings]]
  <2>1. \A r \in Readings : \A b \in Byte : Read(r, b) \subseteq Readings
    BY ReadOne
  <2> QED
    BY <2>1
<1>3. PICK f : Steps(line, next, f)
  <2> HIDE DEF next
  <2> QED
    BY <1>2, ReadingsExist
<1>4. ASSUME NEW p \in 1 .. n
      PROVE  f[p] = ReadByte(f[p - 1], line[p])
  <2>1. p - 1 \in 0 .. n /\ line[p] \in Byte
    BY <1>1
  <2>2. \A r \in f[p - 1] : next[r][line[p]] = Read(r, line[p])
    BY <1>3, <2>1 DEF Steps
  <2>3. f[p] = UNION {next[r][line[p]] : r \in f[p - 1]}
    BY <1>3 DEF Steps
  <2> HIDE DEF next
  <2> QED
    BY <2>2, <2>3 DEF ReadByte
<1>5. Solves(f)
  <2>1. \A p \in 0 .. n : f[p] = IF p = 0 THEN {Start} ELSE ReadByte(f[p - 1], line[p])
    BY <1>1, <1>3, <1>4 DEF Steps
  <2>2. f = [p \in 0 .. n |-> f[p]]
    BY <1>3 DEF Steps
  <2> QED
    BY <2>1, <2>2
<1>6. Solves(DialectReadings(line))
  <2>1. DialectReadings(line) = CHOOSE g : Solves(g)
    BY DEF DialectReadings
  <2> HIDE DEF Solves
  <2> QED
    BY <1>5, <2>1
<1> DEFINE g == DialectReadings(line)
<1>7. /\ g[0] = {Start}
      /\ \A p \in 1 .. n : g[p] = ReadByte(g[p - 1], line[p])
      /\ g = [p \in 0 .. n |-> g[p]]
  <2>1. 0 \in 0 .. n /\ \A p \in 1 .. n : p \in 0 .. n /\ p # 0
    BY <1>1
  <2> HIDE DEF g
  <2>2. Solves(g)
    BY <1>6 DEF g
  <2> QED
    BY <2>1, <2>2
<1>8. \A p \in 0 .. n : g[p] \in SUBSET Readings
  <2> DEFINE T == {p \in 0 .. n : ~ g[p] \in SUBSET Readings}
  <2> HIDE DEF g
  <2> SUFFICES ASSUME T # {} PROVE FALSE
    OBVIOUS
  <2>1. T \subseteq Nat
    OBVIOUS
  <2>2. PICK m \in T : \A k \in T : m <= k
    <3> HIDE DEF T
    <3> QED
      BY <2>1, LeastNatural
  <2>3. g[0] \in SUBSET Readings
    BY <1>7, StartIsReading
  <2>4. m \in 1 .. n /\ ~ g[m] \in SUBSET Readings
    BY <2>3
  <2>5. m - 1 \in 0 .. n /\ m - 1 \notin T
    BY <2>2, <2>4
  <2>6. g[m - 1] \subseteq Readings /\ line[m] \in Byte
    BY <2>4, <2>5
  <2>7. \A r \in g[m - 1] : Read(r, line[m]) \subseteq Readings
    BY <2>6, ReadOne
  <2>8. g[m] = UNION {Read(r, line[m]) : r \in g[m - 1]}
    BY <1>7, <2>4 DEF ReadByte
  <2> QED
    BY <2>4, <2>7, <2>8
<1> HIDE DEF g
<1> QED
  BY <1>7, <1>8 DEF g

(* The dialect's ids, reading by reading.                                    *)
LEMMA DialectIdsAre ==
  ASSUME NEW line \in Seq(Byte), NEW field
  PROVE  DialectIds(line, field) = UNION {IdsIn(r, field) : r \in DialectReadings(line)[Len(line)]}
<1> DEFINE R == DialectReadings(line)[Len(line)]
<1>1. DialectIds(line, field) = UNION {FieldIds(r.members, field) : r \in {r \in R : IsObject(r)}}
  BY DEF DialectIds, IdsOf
<1> HIDE DEF R
<1>2. UNION {FieldIds(r.members, field) : r \in {r \in R : IsObject(r)}} = UNION {IdsIn(r, field) : r \in R}
  BY DEF IdsIn
<1> QED
  BY <1>1, <1>2 DEF R

(* What is found at the end is what the start comes to.                      *)
LEMMA GrammarFromStart ==
  ASSUME NEW line \in Seq(Byte), NEW field, NEW ids, Judged(line, field, ids)
  PROVE  DialectIds(line, field) = ids[0][Between(<<>>, <<>>)]
<1> DEFINE n == Len(line)
           read == DialectReadings(line)
           All(p) == UNION {ids[p][r] : r \in read[p]}
           Same(p) == read[p] \subseteq Readings /\ All(p) = ids[0][Start]
           T == {p \in 0 .. n : ~ Same(p)}
<1>1. n \in Nat /\ 0 \in 0 .. n /\ n \in 0 .. n
  OBVIOUS
<1>2. /\ DialectIds(line, field) = UNION {IdsIn(r, field) : r \in read[n]}
      /\ read[0] = {Start}
      /\ \A p \in 1 .. n : read[p] = ReadByte(read[p - 1], line[p])
  BY DialectReads, DialectIdsAre
<1> HIDE DEF read
<1>3. Start = Between(<<>>, <<>>) /\ Start \in Readings
  BY StartIsReading
<1>4. Same(0)
  BY <1>2, <1>3
<1>5. ASSUME NEW p \in 1 .. n, Same(p - 1) PROVE Same(p)
  <2> DEFINE q == p - 1
             b == line[p]
  <2>1. q \in 0 .. n - 1 /\ q + 1 = p /\ b \in Byte
    BY <1>1
  <2>2. read[p] = UNION {Read(r, b) : r \in read[q]}
    BY <1>2 DEF ReadByte
  <2>3. read[q] \subseteq Readings /\ All(q) = ids[0][Start]
    BY <1>5
  <2>4. ASSUME NEW r \in read[q]
        PROVE  Read(r, b) \subseteq Readings /\ ids[q][r] = UNION {ids[p][x] : x \in Read(r, b)}
    <3>1. r \in Readings
      BY <2>3
    <3>2. Read(r, b) \subseteq Readings
      BY <2>1, <3>1, ReadOne
    <3>3. ids[q][r] = UNION {ids[q + 1][x] : x \in Read(r, line[q + 1])}
      BY <2>1, <3>1 DEF Judged
    <3> HIDE DEF q
    <3> QED
      BY <2>1, <3>2, <3>3
  <2> HIDE DEF q, b
  <2>5. read[p] \subseteq Readings
    BY <2>2, <2>4
  <2>6. All(p) = All(q)
    <3> DEFINE Of(r) == {ids[p][x] : x \in Read(r, b)}
    <3>1. \A z : z \in All(p) <=> \E r \in read[q] : \E x \in Read(r, b) : z \in ids[p][x]
      BY <2>2
    <3>2. \A r \in read[q] : \A z : z \in ids[q][r] <=> \E x \in Read(r, b) : z \in ids[p][x]
      BY <2>4
    <3>3. \A z : z \in All(q) <=> \E r \in read[q] : z \in ids[q][r]
      OBVIOUS
    <3> HIDE DEF All
    <3> QED
      BY <3>1, <3>2, <3>3
  <2> QED
    BY <2>3, <2>5, <2>6
<1>6. T = {}
  <2> SUFFICES ASSUME T # {} PROVE FALSE
    OBVIOUS
  <2>1. T \subseteq Nat
    OBVIOUS
  <2>2. PICK m \in T : \A k \in T : m <= k
    <3> HIDE DEF T
    <3> QED
      BY <2>1, LeastNatural
  <2> HIDE DEF Same
  <2>3. m \in 1 .. n /\ ~ Same(m)
    BY <1>4
  <2>4. m - 1 \in 0 .. n /\ m - 1 \notin T
    BY <2>2, <2>3
  <2>5. Same(m - 1)
    BY <2>4
  <2> QED
    BY <1>5, <2>3, <2>5
<1>7. Same(n)
  <2> HIDE DEF Same
  <2> QED
    BY <1>1, <1>6
<1>8. \A r \in read[n] : ids[n][r] = IdsIn(r, field)
  BY <1>7 DEF Judged
<1>9. DialectIds(line, field) = All(n)
  BY <1>2, <1>8
<1> QED
  BY <1>3, <1>7, <1>9

(* Here JSON's reading goes on, and that of the dialect fails.               *)
RefusedHere(r, byte) ==
  /\ r.mode = "literal" /\ byte \in Delimiter
  /\ JsonLiteral(r.text) /\ ~ DialectLiteral(r.text)

(* JSON: a byte leaves at most one reading, and that of the dialect but for  *)
(* the literals the dialect refuses.                                         *)
LEMMA JsonReadOne ==
  ASSUME NEW r \in Readings, NEW b \in Byte
  PROVE  /\ JsonRead(r, b) = {} \/ \E q \in Readings : JsonRead(r, b) = {q}
         /\ RefusedHere(r, b) => Read(r, b) = {}
         /\ ~ RefusedHere(r, b) => JsonRead(r, b) = {} \/ JsonRead(r, b) = Read(r, b)
<1>1. Read(r, b) = {} \/ \E q \in Readings : Read(r, b) = {q}
  BY ReadOne
<1>2. CASE ~ (r.mode = "literal" /\ b \in Delimiter)
  <2>1. JsonRead(r, b) = {} \/ JsonRead(r, b) = Read(r, b)
    BY <1>2 DEF JsonRead
  <2>2. ~ RefusedHere(r, b)
    BY <1>2 DEF RefusedHere
  <2> QED
    BY <1>1, <2>1, <2>2
<1>3. CASE r.mode = "literal" /\ b \in Delimiter
  <2>1. JsonRead(r, b) = IF JsonLiteral(r.text) THEN EndLiteral(r, b) ELSE {}
    BY <1>3 DEF JsonRead
  <2>2. Read(r, b) = IF DialectLiteral(r.text) THEN EndLiteral(r, b) ELSE {}
    BY <1>3 DEF Read
  <2>3. \E q \in Readings : EndLiteral(r, b) = {q}
    <3> DEFINE x == r.text
               s == r.stack
               m == r.members
               v == Item(ValueToken, x)
    <3>1. /\ r = In("literal", x, 0, s, m) /\ x \in Seq(Byte)
          /\ s \in Seq(Lexeme) /\ m \in Seq(Member)
      BY <1>3, InType
    <3> HIDE DEF x, s, m
    <3>2. v \in Lexeme
      BY <3>1 DEF Item, Lexeme, AnyValue
    <3>3. PICK s2 \in Seq(Lexeme), m2 \in Seq(Member) : Push(s, m, v) = Between(s2, m2)
      BY <3>1, <3>2, PushType
    <3>4. Shift({r}, v) = {Between(s2, m2)}
      <4> HIDE DEF v
      <4>1. Shifted(x, s, m, v)
        BY ShiftLiteral
      <4> QED
        BY <3>1, <3>3, <4>1 DEF Shifted
    <3>5. Shift({Between(s2, m2)}, Item(b, <<>>)) = {Push(s2, m2, Sign(b))}
      BY ShiftOne DEF Between, Sign
    <3>6. b \in Structure
      BY <1>3, KindsAre DEF Delimiter
    <3>7. \E q \in Readings : Push(s2, m2, Sign(b)) = q
      BY <3>6, SignType, PushType, BetweenType
    <3>8. EndLiteral(r, b) = Shift(Shift({r}, v), Item(b, <<>>))
      BY DEF EndLiteral, x
    <3> QED
      BY <3>4, <3>5, <3>7, <3>8
  <2> QED
    BY <1>3, <2>1, <2>2, <2>3 DEF RefusedHere
<1> QED
  BY <1>2, <1>3

(* JSON's readings, each from the one before.                                *)
LEMMA JsonReads ==
  ASSUME NEW line \in Seq(Byte)
  PROVE  /\ JsonReadings(line) \in [0 .. Len(line) -> SUBSET Readings]
         /\ JsonReadings(line)[0] = {Start}
         /\ \A p \in 1 .. Len(line) :
              JsonReadings(line)[p] = JsonReadByte(JsonReadings(line)[p - 1], line[p])
<1> DEFINE n == Len(line)
           next == [r \in Readings |-> [b \in Byte |-> JsonRead(r, b)]]
           Solves(f) == f = [p \in 0 .. n |-> IF p = 0 THEN {Start} ELSE JsonReadByte(f[p - 1], line[p])]
<1>1. n \in Nat
  OBVIOUS
<1>2. next \in [Readings -> [Byte -> SUBSET Readings]]
  <2>1. \A r \in Readings : \A b \in Byte : JsonRead(r, b) \subseteq Readings
    BY JsonReadOne
  <2> QED
    BY <2>1
<1>3. PICK f : Steps(line, next, f)
  <2> HIDE DEF next
  <2> QED
    BY <1>2, ReadingsExist
<1>4. ASSUME NEW p \in 1 .. n
      PROVE  f[p] = JsonReadByte(f[p - 1], line[p])
  <2>1. p - 1 \in 0 .. n /\ line[p] \in Byte
    BY <1>1
  <2>2. \A r \in f[p - 1] : next[r][line[p]] = JsonRead(r, line[p])
    BY <1>3, <2>1 DEF Steps
  <2>3. f[p] = UNION {next[r][line[p]] : r \in f[p - 1]}
    BY <1>3 DEF Steps
  <2> HIDE DEF next
  <2> QED
    BY <2>2, <2>3 DEF JsonReadByte
<1>5. Solves(f)
  <2>1. \A p \in 0 .. n : f[p] = IF p = 0 THEN {Start} ELSE JsonReadByte(f[p - 1], line[p])
    BY <1>1, <1>3, <1>4 DEF Steps
  <2>2. f = [p \in 0 .. n |-> f[p]]
    BY <1>3 DEF Steps
  <2> QED
    BY <2>1, <2>2
<1>6. Solves(JsonReadings(line))
  <2>1. JsonReadings(line) = CHOOSE g : Solves(g)
    BY DEF JsonReadings
  <2> HIDE DEF Solves
  <2> QED
    BY <1>5, <2>1
<1> DEFINE g == JsonReadings(line)
<1>7. /\ g[0] = {Start}
      /\ \A p \in 1 .. n : g[p] = JsonReadByte(g[p - 1], line[p])
      /\ g = [p \in 0 .. n |-> g[p]]
  <2>1. 0 \in 0 .. n /\ \A p \in 1 .. n : p \in 0 .. n /\ p # 0
    BY <1>1
  <2> HIDE DEF g
  <2>2. Solves(g)
    BY <1>6 DEF g
  <2> QED
    BY <2>1, <2>2
<1>8. \A p \in 0 .. n : g[p] \in SUBSET Readings
  <2> DEFINE T == {p \in 0 .. n : ~ g[p] \in SUBSET Readings}
  <2> HIDE DEF g
  <2> SUFFICES ASSUME T # {} PROVE FALSE
    OBVIOUS
  <2>1. T \subseteq Nat
    OBVIOUS
  <2>2. PICK m \in T : \A k \in T : m <= k
    <3> HIDE DEF T
    <3> QED
      BY <2>1, LeastNatural
  <2>3. g[0] \in SUBSET Readings
    BY <1>7, StartIsReading
  <2>4. m \in 1 .. n /\ ~ g[m] \in SUBSET Readings
    BY <2>3
  <2>5. m - 1 \in 0 .. n /\ m - 1 \notin T
    BY <2>2, <2>4
  <2>6. g[m - 1] \subseteq Readings /\ line[m] \in Byte
    BY <2>4, <2>5
  <2>7. \A r \in g[m - 1] : JsonRead(r, line[m]) \subseteq Readings
    BY <2>6, JsonReadOne
  <2>8. g[m] = UNION {JsonRead(r, line[m]) : r \in g[m - 1]}
    BY <1>7, <2>4 DEF JsonReadByte
  <2> QED
    BY <2>4, <2>7, <2>8
<1> HIDE DEF g
<1> QED
  BY <1>7, <1>8 DEF g

(* JSON's readings are the dialect's, up to the first literal that the       *)
(* dialect refuses.                                                          *)
LEMMA ReadingsAgree ==
  ASSUME NEW line \in Seq(Byte)
  PROVE  LET json == JsonReadings(line)[Len(line)]
             dialect == DialectReadings(line)[Len(line)]
         IN json # {} => IF HasRefusedLiteral(line) THEN dialect = {} ELSE dialect = json
<1> DEFINE n == Len(line)
           j == JsonReadings(line)
           d == DialectReadings(line)
           Refuses(k) == \E r \in j[k - 1] : RefusedHere(r, line[k])
           Before(p) == \E k \in 1 .. p : Refuses(k)
           Agrees(p) == \/ j[p] = {}
                        \/ ~ Before(p) /\ d[p] = j[p] /\ \E r \in Readings : j[p] = {r}
                        \/ Before(p) /\ d[p] = {} /\ \E r \in Readings : j[p] = {r}
           T == {p \in 0 .. n : ~ Agrees(p)}
<1>1. n \in Nat /\ 0 \in 0 .. n /\ n \in 0 .. n
  OBVIOUS
<1>2. /\ j[0] = {Start} /\ d[0] = {Start}
      /\ \A p \in 1 .. n : /\ j[p] = UNION {JsonRead(r, line[p]) : r \in j[p - 1]}
                           /\ d[p] = UNION {Read(r, line[p]) : r \in d[p - 1]}
  BY JsonReads, DialectReads DEF JsonReadByte, ReadByte
<1>3. HasRefusedLiteral(line) <=> Before(n)
  BY DEF HasRefusedLiteral, RefusedHere
<1> HIDE DEF j, d
<1>4. Agrees(0)
  <2>1. 1 .. 0 = {} /\ Start \in Readings
    BY StartIsReading
  <2> QED
    BY <1>2, <2>1
<1>5. ASSUME NEW p \in 1 .. n, Agrees(p - 1) PROVE Agrees(p)
  <2> DEFINE b == line[p]
  <2>1. b \in Byte /\ 1 .. p = 1 .. p - 1 \cup {p} /\ p \in 1 .. p
    BY <1>1
  <2>2. Before(p) <=> Before(p - 1) \/ Refuses(p)
    <3> HIDE DEF Refuses
    <3> QED
      BY <2>1
  <2>3. /\ j[p] = UNION {JsonRead(r, b) : r \in j[p - 1]}
        /\ d[p] = UNION {Read(r, b) : r \in d[p - 1]}
    BY <1>2
  <2>4. CASE j[p - 1] = {}
    BY <2>3, <2>4
  <2>5. CASE j[p - 1] # {}
    <3>1. PICK r \in Readings : j[p - 1] = {r}
      BY <1>5, <2>5
    <3>2. /\ JsonRead(r, b) = {} \/ \E q \in Readings : JsonRead(r, b) = {q}
          /\ RefusedHere(r, b) => Read(r, b) = {}
          /\ ~ RefusedHere(r, b) => JsonRead(r, b) = {} \/ JsonRead(r, b) = Read(r, b)
      BY <2>1, JsonReadOne
    <3>3. j[p] = JsonRead(r, b) /\ (Refuses(p) <=> RefusedHere(r, b))
      BY <2>3, <3>1
    <3>4. CASE Before(p - 1)
      <4>1. d[p - 1] = {}
        <5> HIDE DEF Before
        <5> QED
          BY <1>5, <2>5, <3>4
      <4>2. d[p] = {} /\ Before(p)
        BY <2>2, <2>3, <3>4, <4>1
      <4> HIDE DEF Before, Refuses
      <4> QED
        BY <3>2, <3>3, <4>2
    <3>5. CASE ~ Before(p - 1)
      <4>1. d[p - 1] = {r}
        <5> HIDE DEF Before
        <5> QED
          BY <1>5, <2>5, <3>1, <3>5
      <4>2. d[p] = Read(r, b)
        BY <2>3, <4>1
      <4>3. Before(p) <=> RefusedHere(r, b)
        <5> HIDE DEF Before, Refuses
        <5> QED
          BY <2>2, <3>3, <3>5
      <4> HIDE DEF Before, Refuses
      <4> QED
        BY <3>2, <3>3, <4>2, <4>3
    <3> QED
      BY <3>4, <3>5
  <2> QED
    BY <2>4, <2>5
<1>6. T = {}
  <2> SUFFICES ASSUME T # {} PROVE FALSE
    OBVIOUS
  <2>1. T \subseteq Nat
    OBVIOUS
  <2>2. PICK m \in T : \A k \in T : m <= k
    <3> HIDE DEF T
    <3> QED
      BY <2>1, LeastNatural
  <2> HIDE DEF Agrees
  <2>3. m \in 1 .. n /\ ~ Agrees(m)
    BY <1>4
  <2>4. m - 1 \in 0 .. n /\ m - 1 \notin T
    BY <2>2, <2>3
  <2> QED
    BY <1>5, <2>3, <2>4
<1>7. Agrees(n)
  <2> HIDE DEF Agrees
  <2> QED
    BY <1>1, <1>6
<1>8. j[n] # {} => IF HasRefusedLiteral(line) THEN d[n] = {} ELSE d[n] = j[n]
  <2> HIDE DEF Before
  <2> QED
    BY <1>3, <1>7
<1> QED
  BY <1>8 DEF j, d

(* The scanner finds an id in a line exactly when the line is one object of  *)
(* the dialect with a usable id, and it finds that one.  Of a line that is   *)
(* an object of JSON it finds the id that stands there, unless a literal in  *)
(* the line is one of those the dialect refuses.                             *)
(* Code: lines 28-215 of include/ndjson_parser.h.                            *)
THEOREM ScannerFollowsGrammar ==
  ASSUME NEW line \in Seq(Byte), NEW field \in Seq(Byte)
  PROVE  /\ RecordIds(line, field) = DialectIds(line, field)
         /\ \A one, other \in RecordIds(line, field) : one = other
         /\ JsonObjects(line) # {} =>
              RecordIds(line, field) =
                IF HasRefusedLiteral(line) THEN {} ELSE IdsOf(JsonObjects(line), field)
<1>1. PICK ids : Judged(line, field, ids)
  BY JudgedExists
<1>2. RecordIds(line, field) = ids[0][Between(<<>>, <<>>)]
  BY <1>1, StartIds
<1>3. DialectIds(line, field) = ids[0][Between(<<>>, <<>>)]
  BY <1>1, GrammarFromStart
<1>4. AtMostOne(ids[0][Between(<<>>, <<>>)])
  <2>1. 0 \in 0 .. Len(line) /\ Between(<<>>, <<>>) \in Readings
    BY StartIsReading
  <2> QED
    BY <1>1, <2>1 DEF Judged
<1>5. ASSUME JsonObjects(line) # {}
      PROVE  DialectIds(line, field) =
               IF HasRefusedLiteral(line) THEN {} ELSE IdsOf(JsonObjects(line), field)
  <2> DEFINE json == JsonReadings(line)[Len(line)]
             dialect == DialectReadings(line)[Len(line)]
  <2>1. JsonObjects(line) = {r \in json : IsObject(r)} /\ DialectIds(line, field) = IdsOf(dialect, field)
    BY DEF JsonObjects, DialectIds
  <2>2. json # {} => IF HasRefusedLiteral(line) THEN dialect = {} ELSE dialect = json
    BY ReadingsAgree
  <2> HIDE DEF json, dialect
  <2>3. json # {}
    BY <1>5, <2>1
  <2>4. IdsOf({}, field) = {}
    BY DEF IdsOf
  <2>5. IdsOf({r \in json : IsObject(r)}, field) = IdsOf(json, field)
    <3>1. {r \in {r \in json : IsObject(r)} : IsObject(r)} = {r \in json : IsObject(r)}
      OBVIOUS
    <3> QED
      BY <3>1 DEF IdsOf
  <2> QED
    BY <2>1, <2>2, <2>3, <2>4, <2>5
<1> QED
  BY <1>2, <1>3, <1>4, <1>5 DEF AtMostOne

=============================================================================
