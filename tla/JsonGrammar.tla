----------------------------- MODULE JsonGrammar -----------------------------
(***************************************************************************)
(* JSON, to judge JsonScanner by, defined from the other end: the bytes    *)
(* are read once from left to right, each token goes on a stack, and       *)
(* whatever is complete at its top is reduced.  Of the scanner only the    *)
(* names of the bytes are used.  Where FastChunk's lines and RFC 8259      *)
(* differ, the difference has a name here: Tolerated and Refused.  JSON is *)
(* the lexis without them, the dialect the lexis with them.                *)
(***************************************************************************)
EXTENDS JsonScanner

(* A token is a byte of Structure or one of these.                          *)
StringToken == 256
ValueToken == 257
ObjectToken == 258
Structure == {LeftBrace, RightBrace, LeftBracket, RightBracket, Colon, Comma}
AnyValue == {StringToken, ValueToken, ObjectToken}

Delimiter == {Comma, RightBrace, RightBracket}

-----------------------------------------------------------------------------
(* The lexis of JSON.                                                       *)

JsonSpace == {9, 10, 13, 32}
JsonDigit == 48 .. 57
Minus == 45
JsonWords == {<<116, 114, 117, 101>>, <<102, 97, 108, 115, 101>>, <<110, 117, 108, 108>>}

(* What may stand behind a backslash, u apart, and what it stands for.      *)
Escaped == {<<34, 34>>, <<92, 92>>, <<47, 47>>, <<98, 8>>, <<102, 12>>, <<110, 10>>,
            <<114, 13>>, <<116, 9>>}

AllDigits(t) == t # <<>> /\ \A k \in DOMAIN t : t[k] \in JsonDigit

(* A sign, an integer without leading zeros, a fraction and an exponent.    *)
JsonNumber(t) ==
  \E a, b, c \in 0 .. Len(t) :
    LET integer == SubSeq(t, a + 1, b)
        fraction == SubSeq(t, b + 1, c)
        exponent == SubSeq(t, c + 1, Len(t))
        digits == IF Len(exponent) > 1 /\ exponent[2] \in {43, Minus} THEN 3 ELSE 2
    IN /\ a <= b /\ b <= c
       /\ SubSeq(t, 1, a) \in {<<>>, <<Minus>>}
       /\ AllDigits(integer) /\ (integer[1] = 48 => Len(integer) = 1)
       /\ fraction # <<>> => fraction[1] = 46 /\ AllDigits(SubSeq(fraction, 2, Len(fraction)))
       /\ exponent # <<>> =>
            exponent[1] \in {69, 101} /\ AllDigits(SubSeq(exponent, digits, Len(exponent)))

(* A word or a number, and the space up to the delimiter.                   *)
JsonLiteral(t) ==
  \E n \in 0 .. Len(t) :
    /\ SubSeq(t, 1, n) \in JsonWords \/ JsonNumber(SubSeq(t, 1, n))
    /\ \A k \in n + 1 .. Len(t) : t[k] \in JsonSpace

(* No JSON, and accepted: two more bytes as space, and anything that begins *)
(* with a digit as a literal.                                               *)
ToleratedSpace == {11, 12}
ToleratedLiteral(t) == t # <<>> /\ t[1] \in JsonDigit

(* JSON, and refused: a number with a sign, and a word with space behind it.*)
RefusedLiteral(t) ==
  \/ t # <<>> /\ t[1] = Minus
  \/ \E w \in JsonWords : Len(w) < Len(t) /\ SubSeq(t, 1, Len(w)) = w

DialectLiteral(t) == (JsonLiteral(t) /\ ~ RefusedLiteral(t)) \/ ToleratedLiteral(t)

-----------------------------------------------------------------------------
(* Tokens.                                                                  *)

Item(kind, text) == [kind |-> kind, text |-> text]

Whole ==
  {<<{LeftBrace}, {RightBrace}>>,
   <<{LeftBrace}, {StringToken}, {Colon}, AnyValue, {RightBrace}>>,
   <<{LeftBracket}, {RightBracket}>>,
   <<{LeftBracket}, AnyValue, {RightBracket}>>}
Continued ==
  {<<{LeftBrace}, {StringToken}, {Colon}, AnyValue, {Comma}, {StringToken}>>,
   <<{LeftBracket}, AnyValue, {Comma}, AnyValue>>}

(* A whole object or array becomes one token; of two neighbouring items the *)
(* first goes.  The members of the outermost object are kept.               *)
Reduce(reading) ==
  LET stack == reading.stack
      Top(n) == SubSeq(stack, Len(stack) - n + 1, Len(stack))
      Ends(rule) ==
        Len(rule) <= Len(stack) /\ \A k \in DOMAIN rule : Top(Len(rule))[k].kind \in rule[k]
      rules == {rule \in Whole \cup Continued : Ends(rule)}
  IN IF rules = {} THEN reading
     ELSE LET rule == CHOOSE r \in rules : TRUE
              top == Top(Len(rule))
              below == SubSeq(stack, 1, Len(stack) - Len(rule))
              becomes ==
                IF rule \in Continued THEN <<top[1], top[Len(top)]>>
                ELSE <<Item(IF top[1].kind = LeftBrace THEN ObjectToken ELSE ValueToken, <<>>)>>
          IN [reading EXCEPT
                !.stack = below \o becomes,
                !.members = IF below = <<>> /\ Len(top) >= 5
                            THEN Append(@, [key |-> top[2].text, value |-> top[4]]) ELSE @]

(* A reading that fails is in no set.                                       *)
Reduced(readings) == {Reduce(r) : r \in readings}

(* An item that completes an array or object may be the next of another.    *)
Shift(readings, token) ==
  Reduced(Reduced({[r EXCEPT !.stack = Append(@, token), !.mode = "between", !.text = <<>>] :
                     r \in readings}))

(* A literal, and the delimiter that ends it.                               *)
EndLiteral(r, byte) == Shift(Shift({r}, Item(ValueToken, r.text)), Item(byte, <<>>))

(* The next byte of the dialect.  \u stays as it is written, with the four  *)
(* bytes behind it, whatever they are.                                      *)
Read(r, byte) ==
  LET Adds(bytes, mode) == {[r EXCEPT !.text = @ \o bytes, !.mode = mode]}
  IN CASE r.mode = "between" ->
            IF byte \in JsonSpace \cup ToleratedSpace THEN {r}
            ELSE IF byte \in Structure THEN Shift({r}, Item(byte, <<>>))
            ELSE IF byte = Quote THEN Adds(<<>>, "string") ELSE Adds(<<byte>>, "literal")
       [] r.mode = "literal" ->
            IF byte \notin Delimiter THEN Adds(<<byte>>, "literal")
            ELSE IF DialectLiteral(r.text) THEN EndLiteral(r, byte) ELSE {}
       [] r.mode = "string" ->
            IF byte = Quote THEN Shift({r}, Item(StringToken, r.text))
            ELSE IF byte < 32 THEN {}
            ELSE IF byte = Backslash THEN Adds(<<>>, "escape") ELSE Adds(<<byte>>, "string")
       [] r.mode = "escape" ->
            IF byte = LetterU
            THEN {[q EXCEPT !.left = 4] : q \in Adds(<<Backslash, LetterU>>, "unicode")}
            ELSE UNION {Adds(<<e[2]>>, "string") : e \in {e \in Escaped : e[1] = byte}}
       [] r.mode = "unicode" ->
            {[q EXCEPT !.left = @ - 1] :
               q \in Adds(<<byte>>, IF r.left = 1 THEN "string" ELSE "unicode")}

(* The next byte of JSON.  Texts with \u are left out: what JSON says of    *)
(* their keys and ids is not what stands in the line.                       *)
JsonRead(r, byte) ==
  IF r.mode = "literal" /\ byte \in Delimiter
  THEN IF JsonLiteral(r.text) THEN EndLiteral(r, byte) ELSE {}
  ELSE IF \/ r.mode = "between" /\ byte \in ToleratedSpace
          \/ r.mode = "escape" /\ byte = LetterU
  THEN {}
  ELSE Read(r, byte)

ReadByte(readings, byte) == UNION {Read(r, byte) : r \in readings}
JsonReadByte(readings, byte) == UNION {JsonRead(r, byte) : r \in readings}

-----------------------------------------------------------------------------
(* Lines.                                                                   *)

Start == [mode |-> "between", text |-> <<>>, left |-> 0, stack |-> <<>>, members |-> <<>>]

(* The readings of a line up to each of its bytes.                          *)
DialectReadings(line) ==
  LET read[p \in 0 .. Len(line)] == IF p = 0 THEN {Start} ELSE ReadByte(read[p - 1], line[p])
  IN read
JsonReadings(line) ==
  LET read[p \in 0 .. Len(line)] == IF p = 0 THEN {Start} ELSE JsonReadByte(read[p - 1], line[p])
  IN read

(* A line is one object.                                                    *)
IsObject(r) == r.mode = "between" /\ [k \in DOMAIN r.stack |-> r.stack[k].kind] = <<ObjectToken>>

(* The id under a key that may stand there more than once: each of its      *)
(* values is a string that is not empty, and the last is the id.            *)
FieldIds(members, record_id_field) ==
  LET fields == {k \in DOMAIN members : members[k].key = record_id_field}
  IN IF \E k \in fields : members[k].value.kind # StringToken \/ members[k].value.text = <<>>
     THEN {}
     ELSE IF record_id_field = <<>> THEN {<<>>}
     ELSE {members[k].value.text : k \in {k \in fields : \A j \in fields : j <= k}}

(* The ids of the objects among the readings of a whole line.  Without a    *)
(* field that is empty, and the dialect then asks of a key that is empty    *)
(* what it asks of the field.                                               *)
IdsOf(readings, record_id_field) ==
  UNION {FieldIds(r.members, record_id_field) : r \in {r \in readings : IsObject(r)}}
DialectIds(line, record_id_field) == IdsOf(DialectReadings(line)[Len(line)], record_id_field)
JsonObjects(line) == {r \in JsonReadings(line)[Len(line)] : IsObject(r)}

(* JSON reads a literal in the line that the dialect refuses.               *)
HasRefusedLiteral(line) ==
  LET read == JsonReadings(line)
  IN \E p \in 1 .. Len(line) : \E r \in read[p - 1] :
       /\ r.mode = "literal" /\ line[p] \in Delimiter
       /\ JsonLiteral(r.text) /\ ~ DialectLiteral(r.text)

=============================================================================
