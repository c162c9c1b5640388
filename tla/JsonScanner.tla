----------------------------- MODULE JsonScanner -----------------------------
(***************************************************************************)
(* JsonScanner (include/ndjson_parser.h): whether a line is a JSON object, *)
(* and the id it has under a key.  A position is the number of bytes       *)
(* scanned.  A function of the scanner is the set of the places it may     *)
(* stop at: empty when it fails.                                           *)
(***************************************************************************)
EXTENDS Integers, Sequences, FiniteSetsExt, Functions

Quote == 34
Comma == 44
Colon == 58
LeftBracket == 91
Backslash == 92
RightBracket == 93
LetterU == 117
LeftBrace == 123
RightBrace == 125

Space == {32} \cup 9 .. 13
Digits == 48 .. 57
Words == {<<116, 114, 117, 101>>, <<102, 97, 108, 115, 101>>, <<110, 117, 108, 108>>}

(* The character behind a backslash and what it stands for.                 *)
Escapes ==
  LET same == {Quote, Backslash, 47}
      controls == [c \in {98, 102, 110, 114, 116} |->
                     CASE c = 98 -> 8 [] c = 102 -> 12 [] c = 110 -> 10 [] c = 114 -> 13
                       [] c = 116 -> 9]
  IN [c \in same \cup DOMAIN controls |-> IF c \in same THEN c ELSE controls[c]]

At(text, p, byte) == p < Len(text) /\ text[p + 1] = byte

SkipSpace(text, p) ==
  Min({q \in p .. Len(text) : q < Len(text) => text[q + 1] \notin Space})

(* A string, its escapes undone; \u and the four bytes behind it, whatever  *)
(* they are, stay as they are written.                                      *)
ParseString(text, from) ==
  LET rest[p \in 0 .. Len(text)] ==
        LET Then(width, adds) == {[r EXCEPT !.value = adds \o @] : r \in rest[p + width]}
        IN IF p = Len(text) THEN {}
           ELSE IF text[p + 1] = Quote THEN {[end |-> p + 1, value |-> <<>>]}
           ELSE IF text[p + 1] < 32 THEN {}
           ELSE IF text[p + 1] # Backslash THEN Then(1, <<text[p + 1]>>)
           ELSE IF p + 1 < Len(text) /\ text[p + 2] \in DOMAIN Escapes
           THEN Then(2, <<Escapes[text[p + 2]]>>)
           ELSE IF At(text, p + 1, LetterU) /\ p + 6 <= Len(text)
           THEN Then(6, SubSeq(text, p + 1, p + 6))
           ELSE {}
  IN IF At(text, from, Quote) THEN rest[from + 1] ELSE {}

(* A word of JSON, or anything that begins with a digit.                    *)
IsLiteral(bytes) == bytes \in Words \/ (bytes # <<>> /\ bytes[1] \in Digits)

(* A literal runs up to the next delimiter, over spaces too.                *)
Literal(text, from) ==
  LET end == Min({q \in from .. Len(text) :
                    q < Len(text) => text[q + 1] \in {Comma, RightBrace, RightBracket}})
  IN IF IsLiteral(SubSeq(text, from + 1, end)) THEN {end} ELSE {}

(* A key and its colon: the key, and where its value begins.                *)
Key(text, from) ==
  {[name |-> s.value, value_at |-> SkipSpace(text, SkipSpace(text, s.end) + 1)] :
     s \in {s \in ParseString(text, from) : At(text, SkipSpace(text, s.end), Colon)}}

(* Behind an item: the closing bracket, or a comma and where the next item  *)
(* begins.                                                                  *)
Closes(text, p, closing) ==
  LET q == SkipSpace(text, p) IN IF At(text, q, closing) THEN {q + 1} ELSE {}
NextItem(text, p) ==
  LET q == SkipSpace(text, p) IN IF At(text, q, Comma) THEN {SkipSpace(text, q + 1)} ELSE {}

(* Mutation: the end of an array or object is not told from the other's.    *)
SkipValueAnyBracket(text, from) ==
  LET Ends(p) == Closes(text, p, RightBrace) \cup Closes(text, p, RightBracket)
      scan[p \in 0 .. Len(text)] == [what \in {"value", "member", "element"} |->
        LET values == IF what = "element" THEN scan[p]["value"]
                      ELSE UNION {scan[k.value_at]["value"] : k \in Key(text, p)}
            first == SkipSpace(text, p + 1)
            Inside(item) == IF Ends(p + 1) # {} THEN Ends(p + 1) ELSE scan[first][item]
        IN IF what # "value"
           THEN UNION {Ends(v) \cup UNION {scan[q][what] : q \in NextItem(text, v)} : v \in values}
           ELSE IF At(text, p, Quote) THEN {s.end : s \in ParseString(text, p)}
           ELSE IF At(text, p, LeftBrace) THEN Inside("member")
           ELSE IF At(text, p, LeftBracket) THEN Inside("element")
           ELSE Literal(text, p)]
  IN scan[from]["value"]

(* skip_value: a value of any kind, with the loops over members and over    *)
(* elements.                                                                *)
SkipValue(text, from) ==
  LET closing == [member |-> RightBrace, element |-> RightBracket]
      scan[p \in 0 .. Len(text)] == [what \in {"value", "member", "element"} |->
        LET values == IF what = "element" THEN scan[p]["value"]
                      ELSE UNION {scan[k.value_at]["value"] : k \in Key(text, p)}
            Inside(item) ==
              IF Closes(text, p + 1, closing[item]) # {}
              THEN Closes(text, p + 1, closing[item])
              ELSE scan[SkipSpace(text, p + 1)][item]
        IN IF what # "value"
           THEN UNION {Closes(text, v, closing[what])
                         \cup UNION {scan[q][what] : q \in NextItem(text, v)} : v \in values}
           ELSE IF At(text, p, Quote) THEN {s.end : s \in ParseString(text, p)}
           ELSE IF At(text, p, LeftBrace) THEN Inside("member")
           ELSE IF At(text, p, LeftBracket) THEN Inside("element")
           ELSE Literal(text, p)]
  IN scan[from]["value"]

(* parse_object: the value of the wanted key has to be a string that is not *)
(* empty, and the last one is the id; without the key it is empty.          *)
ParseObject(text, wanted) ==
  LET first == SkipSpace(text, 0)
      member[p \in 0 .. Len(text)] ==
        LET Value(k) ==
              IF k.name = wanted
              THEN {s \in ParseString(text, k.value_at) : s.value # <<>>}
              ELSE {[end |-> e, value |-> <<>>] : e \in SkipValue(text, k.value_at)}
            Rest(v) ==
              {[end |-> e, id |-> v.value] : e \in Closes(text, v.end, RightBrace)}
                \cup UNION {{[m EXCEPT !.id = IF @ = <<>> THEN v.value ELSE @] : m \in member[q]} :
                              q \in NextItem(text, v.end)}
        IN UNION {UNION {Rest(v) : v \in Value(k)} : k \in Key(text, p)}
  IN IF ~ At(text, first, LeftBrace) THEN {}
     ELSE IF Closes(text, first + 1, RightBrace) # {}
     THEN {[end |-> e, id |-> <<>>] : e \in Closes(text, first + 1, RightBrace)}
     ELSE member[SkipSpace(text, first + 1)]

(* The id of a line that is a record, or none.  Without a field it is made  *)
(* of the record's place, and empty here.                                   *)
RecordIds(line, record_id_field) ==
  LET Objects(text) ==
        {o \in ParseObject(text, record_id_field) :
           /\ SkipSpace(text, o.end) = Len(text)
           /\ record_id_field # <<>> => o.id # <<>>}
  IN {IF record_id_field = <<>> THEN <<>> ELSE o.id :
        o \in UNION {Objects(text) : text \in {line}}}

=============================================================================
