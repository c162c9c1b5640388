------------------------------ MODULE AbiProofs ------------------------------
(***************************************************************************)
(* Theorems of the handles of the C ABI.                                   *)
(*                                                                         *)
(*   AbiReader: for every sequence of bytes, every pool of descriptors and *)
(*   addresses and every sequence of calls, the scan stops at the first    *)
(*   malformed byte, a repair touches those bytes and no others, nothing   *)
(*   of the operating system is lost, an active handle shows what its      *)
(*   policy promises, and its records are the lines of what it shows.      *)
(*   AbiStream: for every list of records, every valid pair of sizes and   *)
(*   every moment at which the token is set, the stream handle delivers    *)
(*   the windows of the records in order and says the end after the last   *)
(*   one, its final answers stay, and chunker_run holds whole records.     *)
(*                                                                         *)
(* The two have no state in common: a stream's reader stays as it is.      *)
(***************************************************************************)
EXTENDS AbiReader, AbiStream, JsonProofs, FiniteSetTheorems

-----------------------------------------------------------------------------
(* The reader handle: the length test and what it accepts.                  *)

(* The payload of a continuation byte.                                      *)
Six(bytes, i) == ByteAt(bytes, i) - 128

(* The code point a sequence of each length spells.                         *)
LEMMA CodePoints ==
  ASSUME NEW bytes, NEW i \in Int
  PROVE  /\ CodePoint(bytes, i, 1) = ByteAt(bytes, i)
         /\ CodePoint(bytes, i, 2) = (ByteAt(bytes, i) - 192) * 64 + Six(bytes, i + 1)
         /\ CodePoint(bytes, i, 3) =
              ((ByteAt(bytes, i) - 224) * 64 + Six(bytes, i + 1)) * 64 + Six(bytes, i + 2)
         /\ CodePoint(bytes, i, 4) =
              (((ByteAt(bytes, i) - 240) * 64 + Six(bytes, i + 1)) * 64 + Six(bytes, i + 2)) * 64
                + Six(bytes, i + 3)
<1> DEFINE top(n) == CASE n = 1 -> ByteAt(bytes, i) [] n = 2 -> ByteAt(bytes, i) - 192
                       [] n = 3 -> ByteAt(bytes, i) - 224 [] n = 4 -> ByteAt(bytes, i) - 240
           Values(f, n) == f = [k \in 0 .. n - 1 |->
                                  IF k = 0 THEN top(n) ELSE f[k - 1] * 64 + (ByteAt(bytes, i + k) - 128)]
           b == [k \in 0 .. 3 |-> ByteAt(bytes, i + k)]
<1>1. ASSUME NEW n \in 1 .. 4
      PROVE  \E f : Values(f, n) /\ CodePoint(bytes, i, n) = f[n - 1]
  <2> DEFINE v1 == top(n) * 64 + (ByteAt(bytes, i + 1) - 128)
             v2 == v1 * 64 + (ByteAt(bytes, i + 2) - 128)
             v3 == v2 * 64 + (ByteAt(bytes, i + 3) - 128)
             f == [k \in 0 .. n - 1 |->
                     IF k = 0 THEN top(n) ELSE IF k = 1 THEN v1 ELSE IF k = 2 THEN v2 ELSE v3]
  <2>1. ASSUME NEW k \in 0 .. n - 1
        PROVE  f[k] = IF k = 0 THEN top(n) ELSE f[k - 1] * 64 + (ByteAt(bytes, i + k) - 128)
    <3>1. k = 0 \/ k = 1 \/ k = 2 \/ k = 3
      OBVIOUS
    <3>2. k # 0 => k - 1 \in 0 .. n - 1
      OBVIOUS
    <3> HIDE DEF top
    <3> QED
      BY <3>1, <3>2
  <2>2. Values(f, n)
    <3>1. f = [k \in 0 .. n - 1 |-> f[k]]
      OBVIOUS
    <3> HIDE DEF f, top
    <3> QED
      BY <2>1, <3>1
  <2>3. \E g : Values(g, n)
    <3> HIDE DEF Values, f
    <3> QED
      BY <2>2
  <2>4. CodePoint(bytes, i, n) = (CHOOSE g : Values(g, n))[n - 1]
    BY DEF CodePoint
  <2> HIDE DEF Values
  <2> QED
    BY <2>3, <2>4
<1>2. ASSUME NEW n \in 1 .. 4, NEW f, Values(f, n)
      PROVE  /\ f[0] = top(n)
             /\ \A k \in 1 .. n - 1 : f[k] = f[k - 1] * 64 + Six(bytes, i + k)
  <2>1. 0 \in 0 .. n - 1 /\ \A k \in 1 .. n - 1 : k \in 0 .. n - 1 /\ k # 0
    OBVIOUS
  <2> HIDE DEF top
  <2> QED
    BY <1>2, <2>1 DEF Six
<1> HIDE DEF Values
<1>3. /\ top(1) = ByteAt(bytes, i) /\ top(2) = ByteAt(bytes, i) - 192
      /\ top(3) = ByteAt(bytes, i) - 224 /\ top(4) = ByteAt(bytes, i) - 240
  OBVIOUS
<1> HIDE DEF top
<1>4. CodePoint(bytes, i, 1) = ByteAt(bytes, i)
  <2>1. PICK f : Values(f, 1) /\ CodePoint(bytes, i, 1) = f[1 - 1]
    BY <1>1
  <2> QED
    BY <1>2, <1>3, <2>1
<1>5. CodePoint(bytes, i, 2) = (ByteAt(bytes, i) - 192) * 64 + Six(bytes, i + 1)
  <2>1. PICK f : Values(f, 2) /\ CodePoint(bytes, i, 2) = f[2 - 1]
    BY <1>1
  <2>2. f[0] = top(2) /\ f[1] = f[1 - 1] * 64 + Six(bytes, i + 1)
    BY <1>2, <2>1
  <2> QED
    BY <1>3, <2>1, <2>2
<1>6. CodePoint(bytes, i, 3) =
        ((ByteAt(bytes, i) - 224) * 64 + Six(bytes, i + 1)) * 64 + Six(bytes, i + 2)
  <2>1. PICK f : Values(f, 3) /\ CodePoint(bytes, i, 3) = f[3 - 1]
    BY <1>1
  <2>2. /\ f[0] = top(3) /\ f[1] = f[1 - 1] * 64 + Six(bytes, i + 1)
        /\ f[2] = f[2 - 1] * 64 + Six(bytes, i + 2)
    BY <1>2, <2>1
  <2> QED
    BY <1>3, <2>1, <2>2
<1>7. CodePoint(bytes, i, 4) =
        (((ByteAt(bytes, i) - 240) * 64 + Six(bytes, i + 1)) * 64 + Six(bytes, i + 2)) * 64
          + Six(bytes, i + 3)
  <2>1. PICK f : Values(f, 4) /\ CodePoint(bytes, i, 4) = f[4 - 1]
    BY <1>1
  <2>2. /\ f[0] = top(4) /\ f[1] = f[1 - 1] * 64 + Six(bytes, i + 1)
        /\ f[2] = f[2 - 1] * 64 + Six(bytes, i + 2) /\ f[3] = f[3 - 1] * 64 + Six(bytes, i + 3)
    BY <1>2, <2>1
  <2> QED
    BY <1>3, <2>1, <2>2
<1> QED
  BY <1>4, <1>5, <1>6, <1>7

(* What is accepted of each length, byte by byte: where the limits of       *)
(* the code points lie.                                                     *)
Form1(a) == a \in 0 .. 127
Form2(a, b) == a \in 194 .. 223 /\ b \in 128 .. 191
Form3(a, b, c) ==
  a \in 224 .. 239 /\ b \in 128 .. 191 /\ c \in 128 .. 191 /\ ~ (a = 237 /\ b >= 160)
Form4(a, b, c, d) ==
  /\ a \in 240 .. 244 /\ b \in 128 .. 191 /\ c \in 128 .. 191 /\ d \in 128 .. 191
  /\ ~ (a = 244 /\ b > 143)

(* What is accepted: a sequence of the right bytes whose code point is      *)
(* within the limits of its length.                                         *)
LEMMA AcceptedPoints ==
  ASSUME NEW bytes, NEW i \in Nat, NEW n \in 1 .. 4
  PROVE  /\ Accepted(bytes, i, n) => Sequence(bytes, i, n)
         /\ Sequence(bytes, i, n) /\ CodePoint(bytes, i, n) \in Nat =>
              /\ n = 1 /\ CodePoint(bytes, i, n) <= 127 => Accepted(bytes, i, n)
              /\ n = 2 /\ CodePoint(bytes, i, n) <= 2047 =>
                   (Accepted(bytes, i, n) <=> CodePoint(bytes, i, n) >= 128)
              /\ n = 3 /\ CodePoint(bytes, i, n) <= 65535 =>
                   (Accepted(bytes, i, n) <=> ~ Surrogate(CodePoint(bytes, i, n)))
              /\ n = 4 => (Accepted(bytes, i, n) <=> CodePoint(bytes, i, n) <= 1114111)
<1> DEFINE point == CodePoint(bytes, i, n)
           first == First(n)
           shape == Sequence(bytes, i, n)
           WithinLimits ==
             \/ first <= point /\ point <= 1114111 /\ ~ Surrogate(point)
             \/ n \in {3, 4} /\ point < first
<1>1. /\ n = 1 => first = 0
      /\ n = 2 => first = 128
      /\ n = 3 => first = 2048
      /\ n = 4 => first = 65536
  BY DEF First
<1>2. /\ Accepted(bytes, i, n) => shape
      /\ shape => (Accepted(bytes, i, n) <=> WithinLimits)
  BY DEF Accepted, Character, Tolerated
<1> HIDE DEF point, first, shape
<1>3. ASSUME shape, point \in Nat, n = 1, point <= 127
      PROVE  WithinLimits
  BY <1>1, <1>3 DEF Surrogate
<1>4. ASSUME shape, point \in Nat, n = 2, point <= 2047
      PROVE  WithinLimits <=> point >= 128
  BY <1>1, <1>4 DEF Surrogate
<1>5. ASSUME shape, point \in Nat, n = 3, point <= 65535
      PROVE  WithinLimits <=> ~ Surrogate(point)
  BY <1>1, <1>5 DEF Surrogate
<1>6. ASSUME shape, point \in Nat, n = 4
      PROVE  WithinLimits <=> point <= 1114111
  BY <1>1, <1>6 DEF Surrogate
<1> HIDE DEF WithinLimits
<1>7. /\ Accepted(bytes, i, n) => shape
      /\ shape /\ point \in Nat =>
           /\ n = 1 /\ point <= 127 => Accepted(bytes, i, n)
           /\ n = 2 /\ point <= 2047 => (Accepted(bytes, i, n) <=> point >= 128)
           /\ n = 3 /\ point <= 65535 => (Accepted(bytes, i, n) <=> ~ Surrogate(point))
           /\ n = 4 => (Accepted(bytes, i, n) <=> point <= 1114111)
  BY <1>2, <1>3, <1>4, <1>5, <1>6
<1> QED
  BY <1>7 DEF point, shape

(* The accepted sequences of each length, by their bytes.                   *)
LEMMA OneByte ==
  ASSUME NEW bytes, NEW i \in Nat, Len(bytes) \in Nat
  PROVE  Accepted(bytes, i, 1) <=>
           /\ i < Len(bytes)
           /\ Form1(ByteAt(bytes, i))
<1> DEFINE a == ByteAt(bytes, i)
           point == CodePoint(bytes, i, 1)
           shape == a \in 0 .. 127
<1>1. Sequence(bytes, i, 1) <=> i < Len(bytes) /\ shape
  <2>1. 1 .. 1 - 1 = {} /\ (i + 1 <= Len(bytes) <=> i < Len(bytes))
    OBVIOUS
  <2> QED
    BY <2>1, SMT DEF Sequence
<1>2. point = a
  BY CodePoints
<1> HIDE DEF a, point
<1>3. shape => point \in Nat /\ point <= 127
  BY <1>2, SMT
<1>4. shape => (TRUE <=> Form1(a))
  BY <1>2, SMT DEF Form1
<1>5. Form1(a) => shape
  BY DEF Form1
<1>6. Accepted(bytes, i, 1) <=> i < Len(bytes) /\ shape
  <2> HIDE DEF shape
  <2>1. Sequence(bytes, i, 1) => point \in Nat /\ point <= 127
    BY <1>1, <1>3
  <2> QED
    BY <1>1, <2>1, AcceptedPoints DEF point
<1>7. Accepted(bytes, i, 1) <=> i < Len(bytes) /\ Form1(a)
  <2> HIDE DEF shape
  <2> QED
    BY <1>4, <1>5, <1>6
<1> QED
  BY <1>7 DEF a

(* Two bytes.                                                               *)
LEMMA TwoBytes ==
  ASSUME NEW bytes, NEW i \in Nat, Len(bytes) \in Nat
  PROVE  Accepted(bytes, i, 2) <=>
           /\ i + 1 < Len(bytes)
           /\ Form2(ByteAt(bytes, i), ByteAt(bytes, i + 1))
<1> DEFINE a == ByteAt(bytes, i)
           b == ByteAt(bytes, i + 1)
           point == CodePoint(bytes, i, 2)
           shape == a \in 192 .. 223 /\ b \in 128 .. 191
<1>1. Sequence(bytes, i, 2) <=> i + 1 < Len(bytes) /\ shape
  <2>1. 1 .. 2 - 1 = {1} /\ (i + 2 <= Len(bytes) <=> i + 1 < Len(bytes))
    OBVIOUS
  <2> QED
    BY <2>1, SMT DEF Sequence
<1>2. point = (a - 192) * 64 + (b - 128)
  BY CodePoints DEF Six
<1> HIDE DEF a, b, point
<1>3. shape => point \in Nat /\ point <= 2047
  BY <1>2, SMT
<1>4. shape => (point >= 128 <=> Form2(a, b))
  BY <1>2, SMT DEF Form2
<1>5. Form2(a, b) => shape
  BY DEF Form2
<1>6. Accepted(bytes, i, 2) <=> i + 1 < Len(bytes) /\ shape /\ point >= 128
  <2> HIDE DEF shape
  <2>1. Sequence(bytes, i, 2) => point \in Nat /\ point <= 2047
    BY <1>1, <1>3
  <2> QED
    BY <1>1, <2>1, AcceptedPoints DEF point
<1>7. Accepted(bytes, i, 2) <=> i + 1 < Len(bytes) /\ Form2(a, b)
  <2> HIDE DEF shape
  <2> QED
    BY <1>4, <1>5, <1>6
<1> QED
  BY <1>7 DEF a, b

(* Three bytes.                                                             *)
LEMMA ThreeBytes ==
  ASSUME NEW bytes, NEW i \in Nat, Len(bytes) \in Nat
  PROVE  Accepted(bytes, i, 3) <=>
           /\ i + 2 < Len(bytes)
           /\ Form3(ByteAt(bytes, i), ByteAt(bytes, i + 1), ByteAt(bytes, i + 2))
<1> DEFINE a == ByteAt(bytes, i)
           b == ByteAt(bytes, i + 1)
           c == ByteAt(bytes, i + 2)
           point == CodePoint(bytes, i, 3)
           shape == a \in 224 .. 239 /\ b \in 128 .. 191 /\ c \in 128 .. 191
<1>1. Sequence(bytes, i, 3) <=> i + 2 < Len(bytes) /\ shape
  <2>1. 1 .. 3 - 1 = {1, 2} /\ (i + 3 <= Len(bytes) <=> i + 2 < Len(bytes))
    OBVIOUS
  <2> QED
    BY <2>1, SMT DEF Sequence
<1>2. point = ((a - 224) * 64 + (b - 128)) * 64 + (c - 128)
  BY CodePoints, SMTT(30) DEF Six
<1> HIDE DEF a, b, c, point
<1>3. shape => point \in Nat /\ point <= 65535
  BY <1>2, SMT
<1>4. shape => (~ Surrogate(point) <=> Form3(a, b, c))
  BY <1>2, SMT DEF Form3, Surrogate
<1>5. Form3(a, b, c) => shape
  BY DEF Form3
<1>6. Accepted(bytes, i, 3) <=> i + 2 < Len(bytes) /\ shape /\ ~ Surrogate(point)
  <2> HIDE DEF shape
  <2>1. Sequence(bytes, i, 3) => point \in Nat /\ point <= 65535
    BY <1>1, <1>3
  <2> QED
    BY <1>1, <2>1, AcceptedPoints DEF point
<1>7. Accepted(bytes, i, 3) <=> i + 2 < Len(bytes) /\ Form3(a, b, c)
  <2> HIDE DEF shape
  <2> QED
    BY <1>4, <1>5, <1>6
<1> QED
  BY <1>7 DEF a, b, c

(* Four bytes.                                                              *)
LEMMA FourBytes ==
  ASSUME NEW bytes, NEW i \in Nat, Len(bytes) \in Nat
  PROVE  Accepted(bytes, i, 4) <=>
           /\ i + 3 < Len(bytes)
           /\ Form4(ByteAt(bytes, i), ByteAt(bytes, i + 1), ByteAt(bytes, i + 2), ByteAt(bytes, i + 3))
<1> DEFINE a == ByteAt(bytes, i)
           b == ByteAt(bytes, i + 1)
           c == ByteAt(bytes, i + 2)
           d == ByteAt(bytes, i + 3)
           point == CodePoint(bytes, i, 4)
           shape == /\ a \in 240 .. 247 /\ b \in 128 .. 191 /\ c \in 128 .. 191
                    /\ d \in 128 .. 191
<1>1. Sequence(bytes, i, 4) <=> i + 3 < Len(bytes) /\ shape
  <2>1. 1 .. 4 - 1 = {1, 2, 3} /\ (i + 4 <= Len(bytes) <=> i + 3 < Len(bytes))
    OBVIOUS
  <2> QED
    BY <2>1, SMT DEF Sequence
<1>2. point = (((a - 240) * 64 + (b - 128)) * 64 + (c - 128)) * 64 + (d - 128)
  BY CodePoints DEF Six
<1> HIDE DEF a, b, c, d, point
<1>3. shape => point \in Nat /\ point <= 2097151
  BY <1>2, SMT
<1>4. shape => (point <= 1114111 <=> Form4(a, b, c, d))
  BY <1>2, SMT DEF Form4
<1>5. Form4(a, b, c, d) => shape
  BY DEF Form4
<1>6. Accepted(bytes, i, 4) <=> i + 3 < Len(bytes) /\ shape /\ point <= 1114111
  <2> HIDE DEF shape
  <2>1. Sequence(bytes, i, 4) => point \in Nat /\ point <= 2097151
    BY <1>1, <1>3
  <2> QED
    BY <1>1, <2>1, AcceptedPoints DEF point
<1>7. Accepted(bytes, i, 4) <=> i + 3 < Len(bytes) /\ Form4(a, b, c, d)
  <2> HIDE DEF shape
  <2> QED
    BY <1>4, <1>5, <1>6
<1> QED
  BY <1>7 DEF a, b, c, d

(* The length test of the code takes exactly the accepted sequences (the     *)
(* validate_utf8_sequence (include/simd_utf8.h, lines 69-117) advances by n *)
(* just when n bytes form a character or a tolerated form there.            *)
THEOREM LengthIsAccepted ==
  ASSUME NEW bytes \in Seq(Byte), NEW i \in 0 .. Len(bytes) - 1
  PROVE  /\ SequenceLength(bytes, i) \in 0 .. 4
         /\ \A n \in 1 .. 4 : SequenceLength(bytes, i) = n <=> Accepted(bytes, i, n)
<1> DEFINE l == ByteAt(bytes, i)
           Nth(k) == ByteAt(bytes, i + k)
           c == [n \in 1 .. 3 |-> ContinuesFor(bytes, i, n)]
<1>1. l \in 0 .. 255
  <2>1. l \in Byte
    BY DEF ByteAt
  <2> QED
    BY <2>1 DEF Byte
<1>2. ASSUME NEW k \in 1 .. 3, i + k < Len(bytes)
      PROVE  Nth(k) \in 0 .. 255
  <2>1. (i + k) + 1 \in 1 .. Len(bytes)
    BY <1>2
  <2>2. Nth(k) \in Byte
    BY <2>1 DEF ByteAt
  <2> QED
    BY <2>2 DEF Byte
<1>3. ContinuesFor(bytes, i, 1) <=> i + 1 < Len(bytes) /\ Nth(1) \in 128 .. 191
  BY DEF ContinuesFor, Continuation
<1>4. ContinuesFor(bytes, i, 2) <=>
        i + 2 < Len(bytes) /\ Nth(1) \in 128 .. 191 /\ Nth(2) \in 128 .. 191
  <2>1. 1 .. 2 = {1, 2}
    OBVIOUS
  <2> QED
    BY <2>1 DEF ContinuesFor, Continuation
<1>5. ContinuesFor(bytes, i, 3) <=>
        /\ i + 3 < Len(bytes) /\ Nth(1) \in 128 .. 191 /\ Nth(2) \in 128 .. 191
        /\ Nth(3) \in 128 .. 191
  <2>1. 1 .. 3 = {1, 2, 3}
    OBVIOUS
  <2> QED
    BY <2>1 DEF ContinuesFor, Continuation
<1> HIDE DEF l, Nth
<1>6. Accepted(bytes, i, 1) <=> l <= 127
  <2>1. Accepted(bytes, i, 1) <=> i < Len(bytes) /\ l \in 0 .. 127
    BY OneByte DEF l, Form1
  <2> QED
    BY <1>1, <2>1
<1>7. Accepted(bytes, i, 2) <=> l \in 194 .. 223 /\ ContinuesFor(bytes, i, 1)
  BY <1>3, TwoBytes DEF l, Nth, Form2
<1>8. Accepted(bytes, i, 3) <=>
        /\ l \in 224 .. 239 /\ ContinuesFor(bytes, i, 2)
        /\ ~ (l = 237 /\ Nth(1) >= 160)
  BY <1>4, ThreeBytes DEF l, Nth, Form3
<1>9. Accepted(bytes, i, 4) <=>
        /\ l \in 240 .. 244 /\ ContinuesFor(bytes, i, 3)
        /\ ~ (l = 244 /\ Nth(1) > 143)
  BY <1>5, FourBytes DEF l, Nth, Form4
<1>10. SequenceLength(bytes, i) =
         CASE l <= 127 -> 1
           [] Lead2(l) /\ ContinuesFor(bytes, i, 1) /\ l >= 194 -> 2
           [] Lead3(l) /\ ContinuesFor(bytes, i, 2) /\ ~ (l = 237 /\ Nth(1) >= 160) -> 3
           [] Lead4(l) /\ ContinuesFor(bytes, i, 3) /\ ~ (l > 244 \/ (l = 244 /\ Nth(1) > 143)) -> 4
           [] OTHER -> 0
  BY DEF SequenceLength, l, At
<1>11. /\ Lead2(l) <=> l \in 192 .. 223
       /\ Lead3(l) <=> l \in 224 .. 239
       /\ Lead4(l) <=> l \in 240 .. 247
  BY DEF Lead2, Lead3, Lead4
<1>12. SequenceLength(bytes, i) =
         IF Accepted(bytes, i, 1) THEN 1
         ELSE IF Accepted(bytes, i, 2) THEN 2
         ELSE IF Accepted(bytes, i, 3) THEN 3
         ELSE IF Accepted(bytes, i, 4) THEN 4
         ELSE 0
  <2>1. /\ Accepted(bytes, i, 1) => l <= 127
        /\ Accepted(bytes, i, 2) => l \in 194 .. 223
        /\ Accepted(bytes, i, 3) => l \in 224 .. 239
        /\ Accepted(bytes, i, 4) => l \in 240 .. 244
    BY <1>6, <1>7, <1>8, <1>9, ZenonT(40)
  <2>2. /\ Lead2(l) /\ ContinuesFor(bytes, i, 1) /\ l >= 194 <=> Accepted(bytes, i, 2)
        /\ Lead3(l) /\ ContinuesFor(bytes, i, 2) /\ ~ (l = 237 /\ Nth(1) >= 160) <=> Accepted(bytes, i, 3)
        /\ Lead4(l) /\ ContinuesFor(bytes, i, 3) /\ ~ (l > 244 \/ (l = 244 /\ Nth(1) > 143)) <=> Accepted(bytes, i, 4)
    <3>1. l \in 194 .. 223 <=> l \in 192 .. 223 /\ l >= 194
      BY <1>1
    <3>2. l \in 240 .. 244 /\ ~ (l = 244 /\ Nth(1) > 143) <=>
            l \in 240 .. 247 /\ ~ (l > 244 \/ (l = 244 /\ Nth(1) > 143))
      BY <1>1
    <3>3. Lead2(l) /\ ContinuesFor(bytes, i, 1) /\ l >= 194 <=> Accepted(bytes, i, 2)
      BY <1>7, <1>11, <3>1, Zenon
    <3>4. Lead3(l) /\ ContinuesFor(bytes, i, 2) /\ ~ (l = 237 /\ Nth(1) >= 160)
            <=> Accepted(bytes, i, 3)
      BY <1>8, <1>11, Zenon
    <3>5. Lead4(l) /\ ContinuesFor(bytes, i, 3) /\ ~ (l > 244 \/ (l = 244 /\ Nth(1) > 143))
            <=> Accepted(bytes, i, 4)
      BY <1>9, <1>11, <3>2, ZenonT(40)
    <3> QED
      BY <3>3, <3>4, <3>5
  <2>3. /\ l <= 127 => ~ Accepted(bytes, i, 2) /\ ~ Accepted(bytes, i, 3) /\ ~ Accepted(bytes, i, 4)
        /\ Accepted(bytes, i, 2) => ~ Accepted(bytes, i, 3) /\ ~ Accepted(bytes, i, 4)
        /\ Accepted(bytes, i, 3) => ~ Accepted(bytes, i, 4)
    BY <1>1, <2>1
  <2> QED
    BY <1>6, <1>10, <2>2, <2>3
<1>13. \A m, n \in 1 .. 4 : Accepted(bytes, i, m) /\ Accepted(bytes, i, n) => m = n
  <2>1. /\ Accepted(bytes, i, 1) => l <= 127
        /\ Accepted(bytes, i, 2) => l \in 194 .. 223
        /\ Accepted(bytes, i, 3) => l \in 224 .. 239
        /\ Accepted(bytes, i, 4) => l \in 240 .. 244
    BY <1>6, <1>7, <1>8, <1>9
  <2>2. 1 .. 4 = {1, 2, 3, 4}
    OBVIOUS
  <2> QED
    BY <1>1, <2>1, <2>2
<1>14. SequenceLength(bytes, i) \in 0 .. 4
  BY <1>12
<1>15. ASSUME NEW n \in 1 .. 4
       PROVE  SequenceLength(bytes, i) = n <=> Accepted(bytes, i, n)
  <2>1. n = 1 \/ n = 2 \/ n = 3 \/ n = 4
    OBVIOUS
  <2> QED
    BY <1>12, <1>13, <2>1
<1> QED
  BY <1>14, <1>15

(* The copies of the test in the two repairs differ only in their order.    *)
LEMMA SameLengths ==
  ASSUME NEW bytes \in Seq(Byte), NEW i \in 0 .. Len(bytes) - 1
  PROVE  /\ MmapLength(bytes, i) = SequenceLength(bytes, i)
         /\ AbiLength(bytes, i) = SequenceLength(bytes, i)
<1>1. ByteAt(bytes, i) \in 0 .. 255
  <2>1. ByteAt(bytes, i) \in Byte
    BY DEF ByteAt
  <2> QED
    BY <2>1 DEF Byte
<1> QED
  BY <1>1 DEF MmapLength, AbiLength, SequenceLength, Lead2, Lead3, Lead4

-----------------------------------------------------------------------------
(* The scan of validate, and repairs.                                       *)

(* An accepted sequence begins with a byte that continues none.             *)
LEMMA AcceptedBytes ==
  ASSUME NEW bytes, Len(bytes) \in Nat, NEW i \in Nat, NEW n \in 1 .. 4, Accepted(bytes, i, n)
  PROVE  /\ i + n <= Len(bytes) /\ i \in 0 .. Len(bytes) - 1
         /\ ByteAt(bytes, i) \notin 128 .. 191
         /\ \A k \in 1 .. n - 1 : ByteAt(bytes, i + k) \in 128 .. 191
<1> DEFINE a == ByteAt(bytes, i)
           follows == \A k \in 1 .. n - 1 : ByteAt(bytes, i + k) \in 128 .. 191
<1>1. ASSUME n = 1
      PROVE  i + n <= Len(bytes) /\ a \in 0 .. 127 /\ follows
  <2>1. i < Len(bytes) /\ a \in 0 .. 127
    BY <1>1, OneByte DEF Form1
  <2>2. 1 .. n - 1 = {} /\ (i < Len(bytes) => i + n <= Len(bytes))
    BY <1>1
  <2> HIDE DEF a
  <2> QED
    BY <2>1, <2>2
<1>2. ASSUME n = 2
      PROVE  i + n <= Len(bytes) /\ a \in 194 .. 223 /\ follows
  <2>1. i + 1 < Len(bytes) /\ a \in 194 .. 223 /\ ByteAt(bytes, i + 1) \in 128 .. 191
    BY <1>2, TwoBytes DEF Form2
  <2>2. 1 .. n - 1 = {1} /\ (i + 1 < Len(bytes) => i + n <= Len(bytes))
    BY <1>2
  <2> HIDE DEF a
  <2> QED
    BY <2>1, <2>2
<1>3. ASSUME n = 3
      PROVE  i + n <= Len(bytes) /\ a \in 224 .. 239 /\ follows
  <2>1. /\ i + 2 < Len(bytes) /\ a \in 224 .. 239
        /\ ByteAt(bytes, i + 1) \in 128 .. 191 /\ ByteAt(bytes, i + 2) \in 128 .. 191
    BY <1>3, ThreeBytes DEF Form3
  <2>2. 1 .. n - 1 = {1, 2} /\ (i + 2 < Len(bytes) => i + n <= Len(bytes))
    BY <1>3
  <2> HIDE DEF a
  <2> QED
    BY <2>1, <2>2
<1>4. ASSUME n = 4
      PROVE  i + n <= Len(bytes) /\ a \in 240 .. 244 /\ follows
  <2>1. /\ i + 3 < Len(bytes) /\ a \in 240 .. 244
        /\ ByteAt(bytes, i + 1) \in 128 .. 191 /\ ByteAt(bytes, i + 2) \in 128 .. 191
        /\ ByteAt(bytes, i + 3) \in 128 .. 191
    BY <1>4, FourBytes DEF Form4
  <2>2. 1 .. n - 1 = {1, 2, 3} /\ (i + 3 < Len(bytes) => i + n <= Len(bytes))
    BY <1>4
  <2> HIDE DEF a
  <2> QED
    BY <2>1, <2>2
<1>5. n = 1 \/ n = 2 \/ n = 3 \/ n = 4
  OBVIOUS
<1> HIDE DEF a, follows
<1>6. a \notin 128 .. 191
  <2>1. a \in 0 .. 127 \/ a \in 194 .. 223 \/ a \in 224 .. 239 \/ a \in 240 .. 244
    BY <1>1, <1>2, <1>3, <1>4, <1>5
  <2>2. a \in 0 .. 127 => a \notin 128 .. 191
    OBVIOUS
  <2>3. a \in 194 .. 223 => a \notin 128 .. 191
    OBVIOUS
  <2>4. a \in 224 .. 239 => a \notin 128 .. 191
    OBVIOUS
  <2>5. a \in 240 .. 244 => a \notin 128 .. 191
    OBVIOUS
  <2> QED
    BY <2>1, <2>2, <2>3, <2>4, <2>5
<1>7. i + n <= Len(bytes) /\ follows
  BY <1>1, <1>2, <1>3, <1>4, <1>5
<1>8. i \in 0 .. Len(bytes) - 1
  BY <1>7
<1> QED
  BY <1>6, <1>7, <1>8 DEF a, follows

(* No accepted sequence goes across offset i.                               *)
Boundary(bytes, i) ==
  \A j \in 0 .. i - 1 : \A n \in 1 .. 4 : Accepted(bytes, j, n) => j + n <= i

(* From one boundary the length test leads to the next, past bytes that     *)
(* belong to an accepted sequence or past one that does not.                *)
LEMMA NextBoundary ==
  ASSUME NEW bytes \in Seq(Byte), NEW i \in 0 .. Len(bytes) - 1, Boundary(bytes, i)
  PROVE  LET n == SequenceLength(bytes, i)
         IN /\ n # 0 => /\ n \in 1 .. 4 /\ i + n <= Len(bytes) /\ Boundary(bytes, i + n)
                        /\ \A j \in i .. i + n - 1 : j \notin Stray(bytes)
            /\ n = 0 => i \in Stray(bytes) /\ Boundary(bytes, i + 1)
<1> DEFINE n == SequenceLength(bytes, i)
<1>1. n \in 0 .. 4 /\ \A m \in 1 .. 4 : n = m <=> Accepted(bytes, i, m)
  BY LengthIsAccepted
<1>0. Len(bytes) \in Nat /\ i \in Nat
  OBVIOUS
<1> HIDE DEF n
<1>2. ASSUME n # 0
      PROVE  /\ n \in 1 .. 4 /\ i + n <= Len(bytes) /\ Boundary(bytes, i + n)
             /\ \A j \in i .. i + n - 1 : j \notin Stray(bytes)
  <2>1. n \in 1 .. 4 /\ Accepted(bytes, i, n)
    BY <1>1, <1>2
  <2>2. i + n <= Len(bytes) /\ \A k \in 1 .. n - 1 : ByteAt(bytes, i + k) \in 128 .. 191
    BY <1>0, <2>1, AcceptedBytes
  <2>3. ASSUME NEW j \in 0 .. (i + n) - 1, NEW m \in 1 .. 4, Accepted(bytes, j, m)
        PROVE  j + m <= i + n
    <3>1. CASE j < i
      <4>1. j \in 0 .. i - 1
        BY <3>1
      <4>2. j + m <= i
        BY <2>3, <4>1 DEF Boundary
      <4> QED
        BY <2>1, <4>2
    <3>2. CASE j = i
      BY <1>1, <2>1, <2>3, <3>2
    <3>3. CASE j > i
      <4>1. j - i \in 1 .. n - 1 /\ i + (j - i) = j
        BY <2>1, <3>3
      <4>2. ByteAt(bytes, j) \in 128 .. 191
        BY <2>2, <4>1
      <4>3. j \in 0 .. Len(bytes)
        BY <2>1, <2>2
      <4> QED
        BY <2>3, <4>2, <4>3, AcceptedBytes
    <3> QED
      BY <3>1, <3>2, <3>3
  <2>4. ASSUME NEW j \in i .. i + n - 1
        PROVE  j \notin Stray(bytes)
    <3>1. j - i \in 0 .. 3 /\ j - i < n /\ j - i <= j /\ j - (j - i) = i
      BY <2>1
    <3>2. InAccepted(bytes, j)
      BY <2>1, <3>1 DEF InAccepted
    <3> QED
      BY <3>2 DEF Stray
  <2>5. Boundary(bytes, i + n)
    BY <2>3 DEF Boundary
  <2> QED
    BY <2>1, <2>2, <2>4, <2>5
<1>3. ASSUME n = 0
      PROVE  i \in Stray(bytes) /\ Boundary(bytes, i + 1)
  <2>1. \A m \in 1 .. 4 : ~ Accepted(bytes, i, m)
    BY <1>1, <1>3
  <2>2. ~ InAccepted(bytes, i)
    <3> SUFFICES ASSUME NEW m \in 1 .. 4, NEW k \in 0 .. 3, k < m, k <= i,
                        Accepted(bytes, i - k, m)
                 PROVE  FALSE
      BY DEF InAccepted
    <3>1. k # 0
      BY <2>1
    <3>2. i - k \in 0 .. i - 1
      BY <3>1
    <3>3. (i - k) + m <= i
      BY <3>2 DEF Boundary
    <3> QED
      BY <3>3
  <2>3. ASSUME NEW j \in 0 .. (i + 1) - 1, NEW m \in 1 .. 4, Accepted(bytes, j, m)
        PROVE  j + m <= i + 1
    <3>1. j # i
      BY <2>1, <2>3
    <3>2. j \in 0 .. i - 1
      BY <3>1
    <3>3. j + m <= i
      BY <2>3, <3>2 DEF Boundary
    <3> QED
      BY <3>3
  <2> QED
    BY <2>2, <2>3 DEF Stray, Boundary
<1> QED
  BY <1>2, <1>3 DEF n

(* The scan of validate (include/simd_utf8.h, lines 21-117) stops at the    *)
(* first byte that is in no accepted sequence, and otherwise at the end.    *)
THEOREM ErrorOffsetIsFirstStray ==
  ASSUME NEW bytes \in Seq(Byte)
  PROVE  /\ ErrorOffset(bytes) \in 0 .. Len(bytes)
         /\ ErrorOffset(bytes) # Len(bytes) => ErrorOffset(bytes) \in Stray(bytes)
         /\ \A i \in Stray(bytes) : ErrorOffset(bytes) <= i
<1> DEFINE n == Len(bytes)
           L == [i \in 0 .. n |-> SequenceLength(bytes, i)]
           Scans(f) == f = [i \in 0 .. n |->
                              IF i = n \/ SequenceLength(bytes, i) = 0 THEN i
                              ELSE f[i + SequenceLength(bytes, i)]]
<1>1. n \in Nat
  OBVIOUS
<1>2. \E f : Scans(f)
  <2> DEFINE further == [i \in 0 .. n - 1 |-> IF L[i] = 0 THEN i + 1 ELSE i + L[i]]
             step == [i \in 0 .. n - 1 |-> [v \in 0 .. n |-> IF L[i] = 0 THEN i ELSE v]]
  <2>1. ASSUME NEW i \in 0 .. n - 1
        PROVE  further[i] \in i + 1 .. n
    <3>1. L[i] = SequenceLength(bytes, i)
      OBVIOUS
    <3>2. L[i] \in 0 .. 4 /\ \A m \in 1 .. 4 : L[i] = m <=> Accepted(bytes, i, m)
      BY <3>1, LengthIsAccepted
    <3>3. L[i] # 0 => Accepted(bytes, i, L[i]) /\ L[i] \in 1 .. 4
      BY <3>2
    <3>4. L[i] # 0 => i + L[i] <= n
      BY <3>3 DEF Accepted, Character, Tolerated, Sequence
    <3>5. further[i] = IF L[i] = 0 THEN i + 1 ELSE i + L[i]
      OBVIOUS
    <3> HIDE DEF L, further
    <3> QED
      BY <1>1, <3>2, <3>4, <3>5
  <2>2. \A i \in 0 .. n - 1 : \A v \in 0 .. n : step[i][v] \in 0 .. n
    BY <1>1
  <2>3. \E f \in [0 .. n -> 0 .. n] :
          f = [i \in 0 .. n |-> IF i = n THEN n ELSE step[i][f[further[i]]]]
    <3> DEFINE V == 0 .. n
               base == n
    <3>1. base \in V /\ n \in Nat
      BY <1>1
    <3>3. \A i \in 0 .. n - 1 : \A v \in V : step[i][v] \in V
      BY <2>2
    <3>4. \A i \in 0 .. n - 1 : further[i] \in i + 1 .. n
      BY <2>1
    <3> HIDE DEF n, step, further, V, base
    <3>2. Computable(n, V, base, further, step)
      BY <3>1, <3>3, <3>4, BackwardRecursion
    <3> QED
      BY <3>2 DEF V, base, Computable
  <2>4. PICK f \in [0 .. n -> 0 .. n] :
          f = [i \in 0 .. n |-> IF i = n THEN n ELSE step[i][f[further[i]]]]
    BY <2>3
  <2>5. ASSUME NEW i \in 0 .. n
        PROVE  f[i] = IF i = n \/ SequenceLength(bytes, i) = 0 THEN i
                      ELSE f[i + SequenceLength(bytes, i)]
    <3>1. CASE i = n
      BY <2>4, <3>1
    <3>2. CASE i # n
      <4>1. i \in 0 .. n - 1 /\ L[i] = SequenceLength(bytes, i)
        BY <1>1, <3>2
      <4>2. f[i] = step[i][f[further[i]]] /\ further[i] \in 0 .. n
        <5>1. f[i] = step[i][f[further[i]]]
          BY <2>4, <3>2, ZenonT(40)
        <5>2. further[i] \in i + 1 .. n
          BY <2>1, <4>1, SMTT(30)
        <5> HIDE DEF further, step
        <5> QED
          BY <5>1, <5>2, SMTT(30)
      <4>3. f[further[i]] \in 0 .. n
        BY <2>4, <4>2, ZenonT(40)
      <4>4. step[i][f[further[i]]] = IF L[i] = 0 THEN i ELSE f[further[i]]
        BY <4>1, <4>3
      <4>5. further[i] = IF L[i] = 0 THEN i + 1 ELSE i + L[i]
        BY <4>1
      <4> HIDE DEF L, further, step
      <4> QED
        BY <3>2, <4>1, <4>2, <4>4, <4>5
    <3> QED
      BY <3>1, <3>2
  <2>6. f = [i \in 0 .. n |-> f[i]]
    BY <2>4
  <2>7. Scans(f)
    BY <2>5, <2>6
  <2> HIDE DEF Scans
  <2> QED
    BY <2>7
<1> DEFINE scan == CHOOSE f : Scans(f)
<1>3. ErrorOffset(bytes) = scan[0]
  BY DEF ErrorOffset
<1>4. Scans(scan)
  <2> HIDE DEF Scans
  <2> QED
    BY <1>2
<1> HIDE DEF scan
<1>5. \A i \in 0 .. n : scan[i] = IF i = n \/ SequenceLength(bytes, i) = 0 THEN i
                                  ELSE scan[i + SequenceLength(bytes, i)]
  BY <1>4
<1> HIDE DEF Scans, L
<1> DEFINE Stops(i) == /\ scan[i] \in i .. n
                       /\ scan[i] # n => scan[i] \in Stray(bytes)
                       /\ \A j \in i .. scan[i] - 1 : j \notin Stray(bytes)
           S == {i \in 0 .. n : Boundary(bytes, i) => Stops(i)}
<1>6. ASSUME NEW i \in 0 .. n, \A j \in i + 1 .. n : j \in S
      PROVE  i \in S
  <2> SUFFICES ASSUME Boundary(bytes, i) PROVE Stops(i)
    OBVIOUS
  <2>1. CASE i = n
    <3>1. scan[i] = n
      BY <1>5, <2>1
    <3> QED
      BY <1>1, <2>1, <3>1
  <2>2. CASE i # n
    <3> DEFINE m == SequenceLength(bytes, i)
    <3>0. i \in 0 .. n - 1
      BY <1>1, <2>2
    <3>1. /\ m # 0 => /\ m \in 1 .. 4 /\ i + m <= n /\ Boundary(bytes, i + m)
                      /\ \A j \in i .. i + m - 1 : j \notin Stray(bytes)
          /\ m = 0 => i \in Stray(bytes) /\ Boundary(bytes, i + 1)
      BY <3>0, NextBoundary
    <3>2. scan[i] = IF m = 0 THEN i ELSE scan[i + m]
      BY <1>5, <2>2
    <3> HIDE DEF m
    <3>3. CASE m = 0
      BY <1>1, <3>0, <3>1, <3>2, <3>3
    <3>4. CASE m # 0
      <4>1. i + m \in i + 1 .. n
        BY <1>1, <3>1, <3>4
      <4>2. Stops(i + m)
        BY <1>6, <3>1, <3>4, <4>1
      <4>3. scan[i] = scan[i + m] /\ scan[i + m] \in Int /\ scan[i + m] >= i + m
        BY <1>1, <3>1, <3>2, <3>4, <4>2
      <4>4. scan[i] \in i .. n
        BY <1>1, <3>1, <3>4, <4>2, <4>3
      <4>5. ASSUME NEW j \in i .. scan[i] - 1
            PROVE  j \notin Stray(bytes)
        <5>1. j \in i .. i + m - 1 \/ j \in i + m .. scan[i + m] - 1
          BY <1>1, <3>1, <3>4, <4>3
        <5> QED
          BY <3>1, <3>4, <4>2, <5>1
      <4> QED
        BY <4>2, <4>3, <4>4, <4>5
    <3> QED
      BY <3>3, <3>4
  <2> QED
    BY <2>1, <2>2
<1>7. 0 \in S
  <2> HIDE DEF S
  <2>1. \A i \in 0 .. n : (\A j \in i + 1 .. n : j \in S) => i \in S
    BY <1>6
  <2> HIDE DEF n
  <2>2. \A i \in 0 .. n : i \in S
    BY <1>1, <2>1, FromTheEnd
  <2> QED
    BY <1>1, <2>2
<1>8. Stops(0)
  <2>1. Boundary(bytes, 0)
    BY DEF Boundary
  <2> QED
    BY <1>7, <2>1
<1>9. ASSUME NEW i \in Stray(bytes)
      PROVE  scan[0] <= i
  <2>1. i \in 0 .. n - 1
    BY DEF Stray
  <2>2. i \notin 0 .. scan[0] - 1
    BY <1>8
  <2> QED
    BY <1>1, <1>8, <2>1, <2>2
<1> QED
  BY <1>3, <1>8, <1>9

(* A buffer validates exactly when an accepted sequence has each byte.      *)
LEMMA ValidatesMeansNoStray ==
  ASSUME NEW bytes \in Seq(Byte)
  PROVE  Validates(bytes) <=> Stray(bytes) = {}
<1>1. /\ ErrorOffset(bytes) \in 0 .. Len(bytes)
      /\ ErrorOffset(bytes) # Len(bytes) => ErrorOffset(bytes) \in Stray(bytes)
      /\ \A i \in Stray(bytes) : ErrorOffset(bytes) <= i
  BY ErrorOffsetIsFirstStray
<1>2. Len(bytes) \in Nat /\ \A i \in Stray(bytes) : i \in Int /\ i < Len(bytes)
  BY DEF Stray
<1> QED
  BY <1>1, <1>2 DEF Validates

(* A sequence is accepted wherever its bytes lie.                           *)
LEMMA MovedSequence ==
  ASSUME NEW x, Len(x) \in Nat, NEW y, Len(y) \in Nat, NEW n \in 1 .. 4,
         NEW i \in Nat, NEW j \in Nat, j + n <= Len(y), Accepted(x, i, n),
         \A k \in 0 .. n - 1 : ByteAt(y, j + k) = ByteAt(x, i + k)
  PROVE  Accepted(y, j, n)
<1>1. n = 1 \/ n = 2 \/ n = 3 \/ n = 4
  OBVIOUS
<1>2. /\ ByteAt(y, j) = ByteAt(x, i)
      /\ n >= 2 => ByteAt(y, j + 1) = ByteAt(x, i + 1)
      /\ n >= 3 => ByteAt(y, j + 2) = ByteAt(x, i + 2)
      /\ n >= 4 => ByteAt(y, j + 3) = ByteAt(x, i + 3)
  <2>1. /\ 0 \in 0 .. n - 1 /\ (n >= 2 => 1 \in 0 .. n - 1) /\ (n >= 3 => 2 \in 0 .. n - 1)
        /\ n >= 4 => 3 \in 0 .. n - 1
    BY <1>1
  <2>2. i + 0 = i /\ j + 0 = j
    OBVIOUS
  <2> QED
    BY <2>1, <2>2
<1>3. CASE n = 1
  <2>1. Form1(ByteAt(x, i)) /\ ByteAt(y, j) = ByteAt(x, i) /\ j < Len(y)
    BY <1>2, <1>3, OneByte
  <2> QED
    BY <1>3, <2>1, OneByte
<1>4. CASE n = 2
  <2>1. /\ Form2(ByteAt(x, i), ByteAt(x, i + 1)) /\ j + 1 < Len(y)
        /\ ByteAt(y, j) = ByteAt(x, i) /\ ByteAt(y, j + 1) = ByteAt(x, i + 1)
    BY <1>2, <1>4, TwoBytes
  <2> QED
    BY <1>4, <2>1, TwoBytes
<1>5. CASE n = 3
  <2>1. /\ Form3(ByteAt(x, i), ByteAt(x, i + 1), ByteAt(x, i + 2)) /\ j + 2 < Len(y)
        /\ ByteAt(y, j) = ByteAt(x, i) /\ ByteAt(y, j + 1) = ByteAt(x, i + 1)
        /\ ByteAt(y, j + 2) = ByteAt(x, i + 2)
    BY <1>2, <1>5, ThreeBytes
  <2> QED
    BY <1>5, <2>1, ThreeBytes
<1>6. CASE n = 4
  <2>1. /\ Form4(ByteAt(x, i), ByteAt(x, i + 1), ByteAt(x, i + 2), ByteAt(x, i + 3))
        /\ ByteAt(y, j) = ByteAt(x, i) /\ ByteAt(y, j + 1) = ByteAt(x, i + 1)
        /\ ByteAt(y, j + 2) = ByteAt(x, i + 2) /\ ByteAt(y, j + 3) = ByteAt(x, i + 3)
        /\ j + 3 < Len(y)
    BY <1>2, <1>6, FourBytes
  <2> QED
    BY <1>6, <2>1, FourBytes
<1> QED
  BY <1>1, <1>3, <1>4, <1>5, <1>6

(* Accepted text with a sequence put before it is still accepted.           *)
LEMMA AcceptedBeforeText ==
  ASSUME NEW c \in Seq(Byte), NEW t \in Seq(Byte), Len(c) \in 1 .. 4, Accepted(c, 0, Len(c)),
         Stray(t) = {}
  PROVE  Stray(c \o t) = {}
<1> DEFINE n == Len(c)
           a == c \o t
<1>1. /\ a \in Seq(Byte) /\ Len(a) = n + Len(t) /\ Len(t) \in Nat
      /\ \A i \in 1 .. n + Len(t) : a[i] = IF i <= n THEN c[i] ELSE t[i - n]
  BY ConcatProperties
<1> HIDE DEF a
<1>2. Accepted(a, 0, n)
  <2>1. \A k \in 0 .. n - 1 : ByteAt(a, 0 + k) = ByteAt(c, 0 + k)
    BY <1>1 DEF ByteAt
  <2>2. 0 + n <= Len(a) /\ Len(a) \in Nat /\ 0 \in Nat
    BY <1>1
  <2>3. n \in 1 .. 4 /\ Accepted(c, 0, n)
    OBVIOUS
  <2> HIDE DEF n
  <2> QED
    BY <2>1, <2>2, <2>3, MovedSequence
<1>3. ASSUME NEW p \in 0 .. Len(a) - 1
      PROVE  InAccepted(a, p)
  <2>1. CASE p < n
    <3>1. p \in Nat /\ n \in 1 .. 4
      BY <1>1
    <3> HIDE DEF n
    <3>2. p \in 0 .. 3 /\ p <= p /\ p - p = 0
      BY <2>1, <3>1
    <3> QED
      BY <1>2, <2>1, <3>1, <3>2 DEF InAccepted
  <2>2. CASE p >= n
    <3>1. p - n \in 0 .. Len(t) - 1
      BY <1>1, <2>2
    <3>2. InAccepted(t, p - n)
      BY <3>1 DEF Stray
    <3>3. PICK m \in 1 .. 4, k \in 0 .. 3 : k < m /\ k <= p - n /\ Accepted(t, (p - n) - k, m)
      BY <3>2 DEF InAccepted
    <3>4. (p - n) - k \in 0 .. Len(t) /\ ((p - n) - k) + m <= Len(t) /\ p - k \in Nat
      <4> DEFINE q == (p - n) - k
      <4>1. q \in Nat /\ Len(t) \in Nat /\ p - k \in Nat
        BY <1>1, <3>1, <3>3
      <4> HIDE DEF q
      <4>2. q \in 0 .. Len(t) - 1 /\ q + m <= Len(t)
        BY <3>3, <4>1, AcceptedBytes DEF q
      <4>3. q \in 0 .. Len(t)
        BY <4>1, <4>2
      <4> QED
        BY <4>1, <4>2, <4>3 DEF q
    <3>5. (p - k) + m <= Len(a)
      BY <1>1, <3>4
    <3>6. ASSUME NEW l \in 0 .. m - 1
          PROVE  ByteAt(a, (p - k) + l) = ByteAt(t, ((p - n) - k) + l)
      <4>1. /\ ((p - k) + l) + 1 \in 1 .. n + Len(t) /\ ~ (((p - k) + l) + 1 <= n)
            /\ (((p - k) + l) + 1) - n = (((p - n) - k) + l) + 1
        BY <1>1, <3>1, <3>3, <3>4
      <4> QED
        BY <1>1, <4>1 DEF ByteAt
    <3>7. Accepted(a, p - k, m)
      <4> DEFINE q == (p - n) - k
                 r == p - k
      <4>1. q \in Nat /\ r \in Nat /\ Len(t) \in Nat /\ Len(a) \in Nat
        BY <1>1, <3>4
      <4>2. r + m <= Len(a) /\ Accepted(t, q, m)
        BY <3>3, <3>5
      <4>3. \A l \in 0 .. m - 1 : ByteAt(a, r + l) = ByteAt(t, q + l)
        BY <3>6
      <4> HIDE DEF q, r
      <4>4. Accepted(a, r, m)
        BY <4>1, <4>2, <4>3, MovedSequence
      <4> QED
        BY <4>4 DEF r
    <3>8. k <= p
      BY <3>4
    <3> QED
      BY <3>3, <3>7, <3>8 DEF InAccepted
  <2> QED
    BY <1>1, <2>1, <2>2
<1> QED
  BY <1>3 DEF Stray, a

(* U+FFFD is accepted.                                                      *)
LEMMA ReplacementIsAccepted ==
  Replacement \in Seq(Byte) /\ Len(Replacement) = 3 /\ Accepted(Replacement, 0, 3)
<1>1. Replacement \in Seq(Byte) /\ Len(Replacement) = 3
  BY DEF Replacement, Byte
<1>2. /\ ByteAt(Replacement, 0) = 239 /\ ByteAt(Replacement, 0 + 1) = 191
      /\ ByteAt(Replacement, 0 + 2) = 189
  BY DEF Replacement, ByteAt
<1>3. Form3(239, 191, 189) /\ 0 \in Nat /\ Len(Replacement) \in Nat /\ 0 + 2 < Len(Replacement)
  BY <1>1 DEF Form3
<1> DEFINE r == Replacement
<1> HIDE DEF r
<1>4. Form3(ByteAt(r, 0), ByteAt(r, 0 + 1), ByteAt(r, 0 + 2)) /\ 0 \in Nat /\ Len(r) \in Nat /\ 0 + 2 < Len(r)
  BY <1>2, <1>3 DEF r
<1>5. Accepted(r, 0, 3)
  BY <1>4, ThreeBytes
<1> QED
  BY <1>1, <1>5 DEF r

(* An accepted sequence can be cut out of a buffer.                         *)
LEMMA AcceptedCutOut ==
  ASSUME NEW bytes \in Seq(Byte), NEW i \in 0 .. Len(bytes) - 1, NEW n \in 1 .. 4,
         Accepted(bytes, i, n)
  PROVE  LET c == SubSeq(bytes, i + 1, i + n)
         IN c \in Seq(Byte) /\ Len(c) = n /\ Accepted(c, 0, n)
<1> DEFINE c == SubSeq(bytes, i + 1, i + n)
<1>1. i + n <= Len(bytes) /\ i + 1 \in 1 .. Len(bytes) + 1 /\ i + n \in 0 .. Len(bytes)
  BY AcceptedBytes
<1>2. c \in Seq(Byte) /\ Len(c) = n /\ \A k \in 1 .. n : c[k] = bytes[i + k]
  <2>1. \A k \in i + 1 .. i + n : bytes[k] \in Byte
    BY <1>1
  <2>2. (i + n) - (i + 1) + 1 = n
    OBVIOUS
  <2>3. c \in Seq(Byte)
    BY <1>1
  <2>4. Len(c) = n
    BY <1>1
  <2>5. \A k \in 1 .. n : c[k] = bytes[i + k]
    BY <1>1
  <2> QED
    BY <2>3, <2>4, <2>5
<1> HIDE DEF c
<1>3. \A k \in 0 .. n - 1 : ByteAt(c, 0 + k) = ByteAt(bytes, i + k)
  <2> SUFFICES ASSUME NEW k \in 0 .. n - 1 PROVE ByteAt(c, 0 + k) = ByteAt(bytes, i + k)
    OBVIOUS
  <2>1. k + 1 \in 1 .. n /\ i + (k + 1) = (i + k) + 1 /\ 0 + k = k
    OBVIOUS
  <2> QED
    BY <1>2, <2>1 DEF ByteAt
<1>4. Accepted(c, 0, n)
  <2>1. 0 + n <= Len(c) /\ i \in 0 .. Len(bytes)
    BY <1>2
  <2> QED
    BY <1>2, <1>3, <2>1, MovedSequence
<1> QED
  BY <1>2, <1>4 DEF c

-----------------------------------------------------------------------------
(* The repair loops.                                                        *)

(* The repair loops, with the function they are computed by written out and *)
(* the one length test in place of its two copies.                          *)
Instead(policy) == IF policy = "replace" THEN Replacement ELSE <<>>
Copied(bytes, i) == SubSeq(bytes, i + 1, i + SequenceLength(bytes, i))
Repaired == [data : Seq(Byte), repaired : Seq(Nat)]

Repairs(f, bytes, policy) ==
  f = [i \in 0 .. Len(bytes) |->
         IF i = Len(bytes) THEN [data |-> <<>>, repaired |-> <<>>]
         ELSE IF SequenceLength(bytes, i) # 0
         THEN LET rest == f[i + SequenceLength(bytes, i)]
              IN [rest EXCEPT !.data = Copied(bytes, i) \o @]
         ELSE LET rest == f[i + 1]
              IN [data |-> Instead(policy) \o rest.data, repaired |-> <<i>> \o rest.repaired]]

(* Both repair operators are the same loop, read from the end.              *)
LEMMA RepairUnfolded ==
  ASSUME NEW bytes \in Seq(Byte), NEW policy
  PROVE  /\ RepairUtf8Bytes(bytes, policy) = (CHOOSE f : Repairs(f, bytes, policy))[0]
         /\ RepairUtf8(bytes, policy) = (CHOOSE f : Repairs(f, bytes, policy))[0]
<1> DEFINE n == Len(bytes)
           Mmap(f) ==
             f = [i \in 0 .. n |->
                    IF i = n THEN [data |-> <<>>, repaired |-> <<>>]
                    ELSE IF MmapLength(bytes, i) # 0
                    THEN LET rest == f[i + MmapLength(bytes, i)]
                         IN [rest EXCEPT !.data = SubSeq(bytes, i + 1, i + MmapLength(bytes, i)) \o @]
                    ELSE LET rest == f[i + 1]
                         IN [data |-> Instead(policy) \o rest.data, repaired |-> <<i>> \o rest.repaired]]
           Abi(f) ==
             f = [i \in 0 .. n |->
                    IF i = n THEN [data |-> <<>>, repaired |-> <<>>]
                    ELSE IF AbiLength(bytes, i) # 0
                    THEN LET rest == f[i + AbiLength(bytes, i)]
                         IN [rest EXCEPT !.data = SubSeq(bytes, i + 1, i + AbiLength(bytes, i)) \o @]
                    ELSE LET rest == f[i + 1]
                         IN [data |-> Instead(policy) \o rest.data, repaired |-> <<i>> \o rest.repaired]]
<1>1. RepairUtf8Bytes(bytes, policy) = (CHOOSE f : Mmap(f))[0]
  BY DEF RepairUtf8Bytes, RepairWith, Instead
<1>2. RepairUtf8(bytes, policy) = (CHOOSE f : Abi(f))[0]
  BY DEF RepairUtf8, RepairWith, Instead
<1>3. ASSUME NEW i \in 0 .. n, i # n
      PROVE  MmapLength(bytes, i) = SequenceLength(bytes, i) /\ AbiLength(bytes, i) = SequenceLength(bytes, i)
  <2>1. i \in 0 .. n - 1
    BY <1>3
  <2> QED
    BY <2>1, SameLengths
<1>4. \A f : Mmap(f) = Repairs(f, bytes, policy)
  BY <1>3, Zenon DEF Repairs, Copied
<1>5. \A f : Abi(f) = Repairs(f, bytes, policy)
  BY <1>3, Zenon DEF Repairs, Copied
<1> HIDE DEF Mmap, Abi
<1> QED
  BY <1>1, <1>2, <1>4, <1>5

(* One turn of the loops: what they put before the rest, and where it is.   *)
Piece(bytes, policy, i) ==
  IF SequenceLength(bytes, i) # 0 THEN Copied(bytes, i) ELSE Instead(policy)
Further(bytes, i) ==
  IF SequenceLength(bytes, i) # 0 THEN i + SequenceLength(bytes, i) ELSE i + 1
Turn(bytes, policy, i, rest) ==
  IF SequenceLength(bytes, i) # 0 THEN [rest EXCEPT !.data = Copied(bytes, i) \o @]
  ELSE [data |-> Instead(policy) \o rest.data, repaired |-> <<i>> \o rest.repaired]

(* A turn of the loop moves on and writes at most one accepted sequence.    *)
LEMMA TurnType ==
  ASSUME NEW bytes \in Seq(Byte), NEW policy, NEW i \in 0 .. Len(bytes) - 1
  PROVE  /\ Further(bytes, i) \in i + 1 .. Len(bytes)
         /\ Piece(bytes, policy, i) \in Seq(Byte)
         /\ Piece(bytes, policy, i) # <<>> =>
              /\ Len(Piece(bytes, policy, i)) \in 1 .. 4
              /\ Accepted(Piece(bytes, policy, i), 0, Len(Piece(bytes, policy, i)))
         /\ \A rest \in Repaired :
              /\ Turn(bytes, policy, i, rest) \in Repaired
              /\ Turn(bytes, policy, i, rest).data = Piece(bytes, policy, i) \o rest.data
<1> DEFINE n == SequenceLength(bytes, i)
           p == Piece(bytes, policy, i)
<1>1. n \in 0 .. 4 /\ \A m \in 1 .. 4 : n = m <=> Accepted(bytes, i, m)
  BY LengthIsAccepted
<1>2. ASSUME n # 0
      PROVE  i + n <= Len(bytes) /\ p \in Seq(Byte) /\ Len(p) = n /\ Accepted(p, 0, n) /\ n \in 1 .. 4
  <2>1. n \in 1 .. 4 /\ Accepted(bytes, i, n)
    <3> HIDE DEF n
    <3> QED
      BY <1>1, <1>2
  <2>2. p = SubSeq(bytes, i + 1, i + n)
    BY <1>2 DEF Piece, Copied
  <2>3. Len(bytes) \in Nat /\ i \in Nat
    OBVIOUS
  <2> HIDE DEF n, p
  <2>4. i + n <= Len(bytes)
    BY <2>1, <2>3, AcceptedBytes
  <2> QED
    BY <2>1, <2>2, <2>4, AcceptedCutOut
<1>3. ASSUME n = 0
      PROVE  /\ p \in Seq(Byte)
             /\ p # <<>> => Len(p) = 3 /\ Accepted(p, 0, 3)
  <2>1. p = <<>> \/ p = Replacement
    BY <1>3 DEF Piece, Instead
  <2>2. <<>> \in Seq(Byte)
    OBVIOUS
  <2> HIDE DEF p
  <2> QED
    BY <2>1, <2>2, ReplacementIsAccepted
<1>4. Further(bytes, i) = IF n # 0 THEN i + n ELSE i + 1
  BY DEF Further
<1>5. Further(bytes, i) \in i + 1 .. Len(bytes)
  <2> HIDE DEF n
  <2> QED
    BY <1>1, <1>2, <1>4
<1>6. p \in Seq(Byte)
  BY <1>2, <1>3
<1>7. ASSUME NEW rest \in Repaired
      PROVE  /\ Turn(bytes, policy, i, rest) \in Repaired
             /\ Turn(bytes, policy, i, rest).data = p \o rest.data
  <2>1. rest.data \in Seq(Byte) /\ rest.repaired \in Seq(Nat)
    BY DEF Repaired
  <2>2. p \o rest.data \in Seq(Byte)
    <3> HIDE DEF p
    <3> QED
      BY <1>6, <2>1, ConcatProperties
  <2>3. <<i>> \o rest.repaired \in Seq(Nat)
    <3>1. <<i>> \in Seq(Nat)
      OBVIOUS
    <3> QED
      BY <2>1, <3>1, ConcatProperties
  <2>4. CASE n # 0
    <3>1. p = Copied(bytes, i) /\ Turn(bytes, policy, i, rest) = [rest EXCEPT !.data = Copied(bytes, i) \o @]
      BY <2>4 DEF Turn, Piece
    <3> DEFINE c == Copied(bytes, i)
               D == Seq(Byte)
               R == Seq(Nat)
    <3>2. rest \in [data : D, repaired : R] /\ c \o rest.data \in D
      BY <2>2, <3>1 DEF Repaired
    <3> HIDE DEF c, D, R
    <3>3. /\ [rest EXCEPT !.data = c \o @] \in [data : D, repaired : R]
          /\ [rest EXCEPT !.data = c \o @].data = c \o rest.data
      BY <3>2
    <3> QED
      BY <3>1, <3>3 DEF c, D, R, Repaired
  <2>5. CASE n = 0
    <3>1. /\ p = Instead(policy)
          /\ Turn(bytes, policy, i, rest) = [data |-> p \o rest.data, repaired |-> <<i>> \o rest.repaired]
      BY <2>5 DEF Turn, Piece
    <3> HIDE DEF p
    <3> QED
      BY <2>2, <2>3, <3>1 DEF Repaired
  <2> QED
    BY <2>4, <2>5
<1> HIDE DEF n, p
<1>8. p # <<>> => Len(p) \in 1 .. 4 /\ Accepted(p, 0, Len(p))
  <2>1. CASE n # 0
    BY <1>2, <2>1
  <2>2. CASE n = 0
    <3>1. 3 \in 1 .. 4
      OBVIOUS
    <3> QED
      BY <1>3, <2>2, <3>1
  <2> QED
    BY <2>1, <2>2
<1> QED
  BY <1>5, <1>6, <1>7, <1>8 DEF p

(* The functions the loops compute, turn by turn.                           *)
LEMMA RepairByTurns ==
  ASSUME NEW bytes \in Seq(Byte), NEW policy, NEW f, Repairs(f, bytes, policy)
  PROVE  /\ f[Len(bytes)] = [data |-> <<>>, repaired |-> <<>>]
         /\ \A i \in 0 .. Len(bytes) : f[i] \in Repaired
         /\ \A i \in 0 .. Len(bytes) - 1 : f[i] = Turn(bytes, policy, i, f[Further(bytes, i)])
<1> DEFINE n == Len(bytes)
           S == {i \in 0 .. n : f[i] \in Repaired}
<1>1. n \in Nat /\ n \in 0 .. n /\ \A i \in 0 .. n - 1 : i \in 0 .. n /\ i # n
  OBVIOUS
<1>2. f[n] = [data |-> <<>>, repaired |-> <<>>]
  BY <1>1 DEF Repairs
<1>3. f[n] \in Repaired
  <2>1. <<>> \in Seq(Byte) /\ <<>> \in Seq(Nat)
    OBVIOUS
  <2> QED
    BY <1>2, <2>1 DEF Repaired
<1>4. ASSUME NEW i \in 0 .. n - 1, f[Further(bytes, i)] \in Repaired
      PROVE  f[i] = Turn(bytes, policy, i, f[Further(bytes, i)])
  <2>1. CASE SequenceLength(bytes, i) # 0
    BY <1>1, <2>1, ZenonT(40) DEF Repairs, Further, Turn
  <2>2. CASE SequenceLength(bytes, i) = 0
    BY <1>1, <2>2, ZenonT(40) DEF Repairs, Further, Turn
  <2> QED
    BY <2>1, <2>2, SMTT(30)
<1>5. ASSUME NEW i \in 0 .. n, \A j \in i + 1 .. n : j \in S
      PROVE  i \in S
  <2>1. CASE i = n
    BY <1>3, <2>1
  <2>2. CASE i # n
    <3>1. i \in 0 .. n - 1
      BY <2>2
    <3>2. Further(bytes, i) \in S /\ \A rest \in Repaired : Turn(bytes, policy, i, rest) \in Repaired
      <4>1. Further(bytes, i) \in i + 1 .. n /\ \A rest \in Repaired : Turn(bytes, policy, i, rest) \in Repaired
        BY <3>1, TurnType
      <4> HIDE DEF S
      <4> QED
        BY <1>5, <4>1
    <3>3. f[i] = Turn(bytes, policy, i, f[Further(bytes, i)])
      BY <1>4, <3>1, <3>2
    <3> QED
      BY <3>2, <3>3
  <2> QED
    BY <2>1, <2>2
<1>6. \A i \in 0 .. n : i \in S
  <2> HIDE DEF S
  <2>1. \A i \in 0 .. n : (\A j \in i + 1 .. n : j \in S) => i \in S
    BY <1>5
  <2> HIDE DEF n
  <2> QED
    BY <1>1, <2>1, FromTheEnd
<1>7. ASSUME NEW i \in 0 .. n - 1
      PROVE  f[i] = Turn(bytes, policy, i, f[Further(bytes, i)])
  <2>1. Further(bytes, i) \in i + 1 .. n
    BY TurnType
  <2>2. Further(bytes, i) \in 0 .. n
    BY <2>1
  <2> QED
    BY <1>4, <1>6, <2>2
<1> QED
  BY <1>2, <1>6, <1>7

(* The loop computes something for every input.                             *)
LEMMA RepairExists ==
  ASSUME NEW bytes \in Seq(Byte), NEW policy
  PROVE  \E f : Repairs(f, bytes, policy)
<1> DEFINE n == Len(bytes)
           base == [data |-> <<>>, repaired |-> <<>>]
           further == [i \in 0 .. n - 1 |-> Further(bytes, i)]
           step == [i \in 0 .. n - 1 |-> [v \in Repaired |-> Turn(bytes, policy, i, v)]]
<1>1. n \in Nat
  OBVIOUS
<1>2. base \in Repaired
  <2>1. <<>> \in Seq(Byte) /\ <<>> \in Seq(Nat)
    OBVIOUS
  <2> QED
    BY <2>1 DEF Repaired
<1>3. \A i \in 0 .. n - 1 : further[i] \in i + 1 .. n
  BY TurnType
<1>4. \A i \in 0 .. n - 1 : \A v \in Repaired : step[i][v] = Turn(bytes, policy, i, v)
  OBVIOUS
<1>5. \A i \in 0 .. n - 1 : \A v \in Repaired : step[i][v] \in Repaired
  BY <1>4, TurnType
<1>6. PICK f \in [0 .. n -> Repaired] :
        f = [i \in 0 .. n |-> IF i = n THEN base ELSE step[i][f[further[i]]]]
  <2> DEFINE V == Repaired
  <2> HIDE DEF n, step, further, base, V
  <2>1. base \in V /\ \A i \in 0 .. n - 1 : \A v \in V : step[i][v] \in V
    BY <1>2, <1>5 DEF V
  <2>2. Computable(n, V, base, further, step)
    BY <1>1, <1>3, <2>1, BackwardRecursion
  <2> QED
    BY <2>2 DEF V, Computable
<1>7. ASSUME NEW i \in 0 .. n
      PROVE  f[i] = IF i = n THEN [data |-> <<>>, repaired |-> <<>>]
                    ELSE IF SequenceLength(bytes, i) # 0
                    THEN LET rest == f[i + SequenceLength(bytes, i)]
                         IN [rest EXCEPT !.data = Copied(bytes, i) \o @]
                    ELSE LET rest == f[i + 1]
                         IN [data |-> Instead(policy) \o rest.data, repaired |-> <<i>> \o rest.repaired]
  <2>1. CASE i = n
    BY <1>6, <2>1
  <2>2. CASE i # n
    <3>1. i \in 0 .. n - 1 /\ further[i] = Further(bytes, i) /\ further[i] \in i + 1 .. n
      BY <1>3, <2>2
    <3>2. f[i] = step[i][f[further[i]]]
      <4> HIDE DEF step, further
      <4> QED
        BY <1>6, <2>2, ZenonT(40)
    <3> DEFINE rest == f[Further(bytes, i)]
    <3>3. rest \in Repaired
      <4>1. Further(bytes, i) \in 0 .. n
        BY <3>1
      <4> QED
        BY <4>1
    <3>4. f[i] = Turn(bytes, policy, i, rest)
      BY <1>4, <3>1, <3>2, <3>3
    <3>7. CASE SequenceLength(bytes, i) # 0
      BY <2>2, <3>4, <3>7 DEF Turn, Further
    <3>8. CASE SequenceLength(bytes, i) = 0
      BY <2>2, <3>4, <3>8 DEF Turn, Further
    <3> QED
      BY <3>7, <3>8
  <2> QED
    BY <2>1, <2>2
<1>8. f = [i \in 0 .. n |-> f[i]]
  BY <1>6
<1>9. Repairs(f, bytes, policy)
  BY <1>7, <1>8, Zenon DEF Repairs
<1> QED
  BY <1>9

(* What the reference makes of each byte, and of the first i bytes.         *)
Outs(bytes, policy) ==
  [k \in 1 .. Len(bytes) |-> IF k - 1 \notin Stray(bytes) THEN <<ByteAt(bytes, k - 1)>>
                             ELSE Instead(policy)]
Written(bytes, policy, i) == FlattenSeq(SubSeq(Outs(bytes, policy), 1, i))

(* What the reference has written after each byte.                          *)
LEMMA WrittenByBytes ==
  ASSUME NEW bytes \in Seq(Byte), NEW policy
  PROVE  /\ Written(bytes, policy, 0) = <<>>
         /\ Written(bytes, policy, Len(bytes)) = RepairOf(bytes, policy).data
         /\ \A i \in 0 .. Len(bytes) : Written(bytes, policy, i) \in Seq(Byte)
         /\ \A i \in 0 .. Len(bytes) - 1 :
              Written(bytes, policy, i + 1) =
                Written(bytes, policy, i) \o (IF i \notin Stray(bytes) THEN <<ByteAt(bytes, i)>>
                                              ELSE Instead(policy))
<1> DEFINE outs == Outs(bytes, policy)
           n == Len(bytes)
<1>1. n \in Nat
  OBVIOUS
<1>2. \A k \in 1 .. n : outs[k] \in Seq(Byte)
  <2> SUFFICES ASSUME NEW k \in 1 .. n PROVE outs[k] \in Seq(Byte)
    OBVIOUS
  <2>1. Instead(policy) \in Seq(Byte)
    <3>1. <<>> \in Seq(Byte)
      OBVIOUS
    <3> QED
      BY <3>1, ReplacementIsAccepted DEF Instead
  <2>2. ByteAt(bytes, k - 1) \in Byte
    BY DEF ByteAt
  <2>3. <<ByteAt(bytes, k - 1)>> \in Seq(Byte)
    BY <2>2
  <2>4. outs[k] = IF k - 1 \notin Stray(bytes) THEN <<ByteAt(bytes, k - 1)>> ELSE Instead(policy)
    BY DEF Outs
  <2> QED
    BY <2>1, <2>3, <2>4
<1>3. outs \in Seq(Seq(Byte)) /\ Len(outs) = n
  <2>1. outs = [k \in 1 .. n |-> outs[k]]
    BY DEF Outs
  <2> HIDE DEF outs, n
  <2> QED
    BY <1>1, <1>2, <2>1
<1>4. /\ FlattenSeq(SubSeq(outs, 1, 0)) = <<>>
      /\ \A m \in 0 .. n : FlattenSeq(SubSeq(outs, 1, m)) \in Seq(Byte)
      /\ \A m \in 1 .. n : FlattenSeq(SubSeq(outs, 1, m)) = FlattenSeq(SubSeq(outs, 1, m - 1)) \o outs[m]
      /\ FlattenSeq(SubSeq(outs, 1, n)) = FlattenSeq(outs)
  <2> HIDE DEF outs, n
  <2> QED
    BY <1>3, FlattenGrows
<1>5. RepairOf(bytes, policy).data = FlattenSeq(outs)
  BY DEF RepairOf, Outs, Instead
<1>6. ASSUME NEW i \in 0 .. n - 1
      PROVE  Written(bytes, policy, i + 1) =
               Written(bytes, policy, i) \o (IF i \notin Stray(bytes) THEN <<ByteAt(bytes, i)>>
                                             ELSE Instead(policy))
  <2>1. i + 1 \in 1 .. n /\ (i + 1) - 1 = i
    BY <1>1
  <2>2. outs[i + 1] = IF i \notin Stray(bytes) THEN <<ByteAt(bytes, i)>> ELSE Instead(policy)
    BY <2>1 DEF Outs
  <2>3. Written(bytes, policy, i + 1) = Written(bytes, policy, i) \o outs[i + 1]
    BY <1>4, <2>1 DEF Written
  <2> QED
    BY <2>2, <2>3
<1> QED
  BY <1>4, <1>5, <1>6 DEF Written

(* From boundary to boundary the reference writes what the loops write.     *)
LEMMA WrittenByPieces ==
  ASSUME NEW bytes \in Seq(Byte), NEW policy, NEW i \in 0 .. Len(bytes) - 1, Boundary(bytes, i)
  PROVE  /\ Boundary(bytes, Further(bytes, i))
         /\ Written(bytes, policy, Further(bytes, i)) =
              Written(bytes, policy, i) \o Piece(bytes, policy, i)
<1> DEFINE n == SequenceLength(bytes, i)
           W(k) == Written(bytes, policy, i + k)
<1>1. /\ n # 0 => /\ n \in 1 .. 4 /\ i + n <= Len(bytes) /\ Boundary(bytes, i + n)
                  /\ \A j \in i .. i + n - 1 : j \notin Stray(bytes)
      /\ n = 0 => i \in Stray(bytes) /\ Boundary(bytes, i + 1)
  BY NextBoundary
<1>2. CASE n = 0
  BY <1>1, <1>2, WrittenByBytes DEF Further, Piece
<1>3. CASE n # 0
  <2> DEFINE cut == [k \in 0 .. n |-> SubSeq(bytes, i + 1, i + k)]
             w == Written(bytes, policy, i)
  <2>0. n \in 1 .. 4 /\ i + n <= Len(bytes)
    BY <1>1, <1>3
  <2>1. w \in Seq(Byte)
    <3>1. i \in 0 .. Len(bytes)
      OBVIOUS
    <3> QED
      BY <3>1, WrittenByBytes
  <2>2. ASSUME NEW k \in 0 .. n - 1, W(k) = w \o cut[k]
        PROVE  W(k + 1) = w \o cut[k + 1]
    <3> DEFINE b == ByteAt(bytes, i + k)
    <3>1. i + k \in 0 .. Len(bytes) - 1 /\ i + k \in i .. i + n - 1 /\ (i + k) + 1 = i + (k + 1)
      BY <2>0
    <3>2. W(k + 1) = W(k) \o <<b>>
      <4>1. i + k \notin Stray(bytes)
        BY <1>1, <1>3, <3>1
      <4>2. Written(bytes, policy, (i + k) + 1) = Written(bytes, policy, i + k) \o <<b>>
        BY <3>1, <4>1, WrittenByBytes
      <4> QED
        BY <3>1, <4>2
    <3>3. cut[k + 1] = cut[k] \o <<b>>
      <4>1. /\ i + 1 \in 1 .. Len(bytes) /\ i + (k + 1) \in i + 1 .. Len(bytes)
            /\ i + (k + 1) - 1 = i + k /\ k \in 0 .. n /\ k + 1 \in 0 .. n
        BY <2>0
      <4>2. SubSeq(bytes, i + 1, i + (k + 1)) = SubSeq(bytes, i + 1, i + (k + 1) - 1) \o <<bytes[i + (k + 1)]>>
        BY <4>1, SubSeqRecursiveSecond
      <4>3. b = bytes[i + (k + 1)]
        BY <3>1 DEF ByteAt
      <4> HIDE DEF b, n
      <4> QED
        BY <4>1, <4>2, <4>3
    <3>4. cut[k] \in Seq(Byte) /\ <<b>> \in Seq(Byte)
      <4>1. bytes[i + (k + 1)] \in Byte /\ b = bytes[i + (k + 1)] /\ k \in 0 .. n
        BY <2>0, <3>1 DEF ByteAt
      <4>2. SubSeq(bytes, i + 1, i + k) \in Seq(Byte)
        <5>1. \A j \in i + 1 .. i + k : bytes[j] \in Byte
          BY <2>0
        <5> QED
          BY <3>1, <5>1
      <4> HIDE DEF n, b
      <4> QED
        BY <4>1, <4>2
    <3> DEFINE c == cut[k]
               e == <<b>>
    <3>5. W(k + 1) = (w \o c) \o e /\ cut[k + 1] = c \o e /\ c \in Seq(Byte) /\ e \in Seq(Byte)
      <4> HIDE DEF b, cut, w, W
      <4> QED
        BY <2>2, <3>2, <3>3, <3>4
    <3> HIDE DEF b, cut, w, W, c, e
    <3>6. (w \o c) \o e = w \o (c \o e)
      BY <2>1, <3>5, TextAssociative
    <3> QED
      BY <3>5, <3>6
  <2>3. W(0) = w \o cut[0]
    <3>1. i + 0 = i /\ 0 \in 0 .. n /\ SubSeq(bytes, i + 1, i + 0) = <<>>
      BY <2>0
    <3>2. cut[0] = <<>> /\ W(0) = w
      BY <3>1
    <3> HIDE DEF cut, W, w
    <3> QED
      BY <2>1, <3>2, ConcatEmptySeq
  <2>4. W(n) = w \o cut[n]
    <3>1. n = 1 \/ n = 2 \/ n = 3 \/ n = 4
      BY <2>0
    <3> DEFINE Reaches(k) == W(k) = w \o cut[k]
    <3>2. Reaches(0) /\ \A k \in 0 .. n - 1 : Reaches(k) => Reaches(k + 1)
      BY <2>2, <2>3
    <3> HIDE DEF n, Reaches
    <3>3. /\ 0 \in 0 .. n - 1 /\ (n >= 2 => 1 \in 0 .. n - 1) /\ (n >= 3 => 2 \in 0 .. n - 1)
          /\ n >= 4 => 3 \in 0 .. n - 1
      BY <3>1
    <3>4. Reaches(n)
      BY <3>1, <3>2, <3>3
    <3> QED
      BY <3>4 DEF Reaches
  <2>5. cut[n] = Piece(bytes, policy, i) /\ Further(bytes, i) = i + n
    <3>1. n \in 0 .. n
      BY <2>0
    <3> QED
      BY <1>3, <3>1 DEF Piece, Copied, Further
  <2> HIDE DEF cut, w, n
  <2> QED
    BY <1>1, <1>3, <2>4, <2>5 DEF w
<1> QED
  BY <1>2, <1>3

(* Both repairs, of a mapped file (src/io/mmap_reader.cpp) and of a         *)
(* caller's buffer (src/abi/spec_abi.cpp), write what the reference writes: *)
(* each malformed byte, and no other, replaced or skipped; and the result   *)
(* is valid.                                                                *)
THEOREM RepairIsReference ==
  ASSUME NEW bytes \in Seq(Byte), NEW policy
  PROVE  /\ RepairUtf8Bytes(bytes, policy).data = RepairOf(bytes, policy).data
         /\ RepairUtf8(bytes, policy).data = RepairOf(bytes, policy).data
         /\ RepairOf(bytes, policy).data \in Seq(Byte)
         /\ Validates(RepairOf(bytes, policy).data)
<1> DEFINE f == CHOOSE g : Repairs(g, bytes, policy)
           n == Len(bytes)
           all == RepairOf(bytes, policy).data
<1>1. Repairs(f, bytes, policy)
  BY RepairExists
<1>2. RepairUtf8Bytes(bytes, policy) = f[0] /\ RepairUtf8(bytes, policy) = f[0]
  BY RepairUnfolded
<1> HIDE DEF f
<1>3. /\ f[n] = [data |-> <<>>, repaired |-> <<>>]
      /\ \A i \in 0 .. n : f[i] \in Repaired
      /\ \A i \in 0 .. n - 1 : f[i] = Turn(bytes, policy, i, f[Further(bytes, i)])
  BY <1>1, RepairByTurns
<1>4. n \in Nat /\ \A i \in 0 .. n : f[i].data \in Seq(Byte)
  BY <1>3 DEF Repaired
<1> DEFINE Follows(i) == Boundary(bytes, i) => Written(bytes, policy, i) \o f[i].data = all
           S == {i \in 0 .. n : Follows(i) /\ Stray(f[i].data) = {}}
<1>5. ASSUME NEW i \in 0 .. n, \A j \in i + 1 .. n : j \in S
      PROVE  i \in S
  <2>1. CASE i = n
    <3>1. f[i].data = <<>> /\ Written(bytes, policy, i) = all /\ Written(bytes, policy, i) \in Seq(Byte)
      BY <1>3, <2>1, WrittenByBytes
    <3>2. Written(bytes, policy, i) \o f[i].data = all
      BY <3>1, ConcatEmptySeq
    <3>3. Stray(<<>>) = {}
      BY DEF Stray
    <3> QED
      BY <3>1, <3>2, <3>3
  <2>2. CASE i # n
    <3> DEFINE j == Further(bytes, i)
               p == Piece(bytes, policy, i)
               w == Written(bytes, policy, i)
    <3>1. i \in 0 .. n - 1
      BY <2>2
    <3>2. /\ j \in i + 1 .. n /\ p \in Seq(Byte)
          /\ p # <<>> => Len(p) \in 1 .. 4 /\ Accepted(p, 0, Len(p))
      BY <3>1, TurnType
    <3>3. j \in S
      <4> HIDE DEF S, j
      <4> QED
        BY <1>5, <3>2
    <3>4. f[i].data = p \o f[j].data
      <4>1. f[i] = Turn(bytes, policy, i, f[j])
        BY <1>3, <3>1
      <4>2. Turn(bytes, policy, i, f[j]).data = p \o f[j].data
        <5>1. f[j] \in Repaired
          <6>1. j \in 0 .. n
            BY <3>2
          <6> HIDE DEF j
          <6> QED
            BY <1>3, <6>1
        <5> HIDE DEF j, p
        <5> QED
          BY <3>1, <5>1, TurnType DEF p
      <4> HIDE DEF j, p
      <4> QED
        BY <4>1, <4>2
    <3>5. f[j].data \in Seq(Byte) /\ j \in 0 .. n
      <4>1. j \in 0 .. n
        BY <3>2
      <4> HIDE DEF j
      <4> QED
        BY <1>4, <4>1
    <3>6. w \in Seq(Byte)
      BY WrittenByBytes
    <3>7. Boundary(bytes, i) => Boundary(bytes, j) /\ Written(bytes, policy, j) = w \o p
      BY <3>1, WrittenByPieces
    <3>8. Follows(j) /\ Stray(f[j].data) = {}
      BY <3>3
    <3> HIDE DEF j, p, w
    <3>9. Stray(p \o f[j].data) = {}
      <4>1. CASE p = <<>>
        BY <3>5, <3>8, <4>1, ConcatEmptySeq
      <4>2. CASE p # <<>>
        BY <3>2, <3>5, <3>8, <4>2, AcceptedBeforeText
      <4> QED
        BY <4>1, <4>2
    <3>10. (w \o p) \o f[j].data = w \o (p \o f[j].data)
      <4> DEFINE r == f[j].data
      <4>1. r \in Seq(Byte)
        BY <3>5
      <4> HIDE DEF r
      <4>2. (w \o p) \o r = w \o (p \o r)
        BY <3>2, <3>6, <4>1, TextAssociative
      <4> QED
        BY <4>2 DEF r
    <3>11. Boundary(bytes, i) => w \o f[i].data = all
      BY <3>4, <3>7, <3>8, <3>10
    <3> QED
      BY <3>4, <3>9, <3>11 DEF w
  <2> QED
    BY <2>1, <2>2
<1>6. 0 \in S
  <2> HIDE DEF S
  <2>1. \A i \in 0 .. n : (\A j \in i + 1 .. n : j \in S) => i \in S
    BY <1>5
  <2> HIDE DEF n
  <2>2. \A i \in 0 .. n : i \in S
    BY <1>4, <2>1, FromTheEnd
  <2> QED
    BY <1>4, <2>2
<1>7. f[0].data \in Seq(Byte)
  BY <1>4
<1>8. f[0].data = all
  <2>1. Boundary(bytes, 0)
    BY DEF Boundary
  <2>2. Written(bytes, policy, 0) = <<>>
    BY WrittenByBytes
  <2>3. <<>> \o f[0].data = all
    BY <1>6, <2>1, <2>2
  <2> QED
    BY <1>7, <2>3, ConcatEmptySeq
<1>9. Stray(f[0].data) = {}
  BY <1>6
<1> HIDE DEF all
<1>10. all \in Seq(Byte) /\ Validates(all)
  BY <1>7, <1>8, <1>9, ValidatesMeansNoStray
<1> QED
  BY <1>2, <1>8, <1>10 DEF all

-----------------------------------------------------------------------------
(* The reader and what it holds.                                            *)

(* What a reader and the operating system hold agree.                       *)
Tidy(state) ==
  LET r == state.reader
      held == state.os
  IN /\ state = [reader |-> r, os |-> held]
     /\ r = [mapped_data |-> r.mapped_data, fd |-> r.fd, copied_buffer |-> r.copied_buffer]
     /\ held = [descriptors |-> held.descriptors, mappings |-> held.mappings]
     /\ held.descriptors = {r.fd} \ {NoDescriptor}
     /\ DOMAIN held.mappings = {r.mapped_data} \ {Null}
     /\ r.fd = NoDescriptor <=> r.mapped_data = Null

(* The bytes a view shows in memory of the reader or of the handle.         *)
Shows(state, owned, view) ==
  \/ /\ view.region = "mapping"
     /\ view.data = IF state.reader.mapped_data = Null THEN <<>>
                    ELSE state.os.mappings[state.reader.mapped_data]
  \/ view.region = "copied_buffer" /\ view.data = state.reader.copied_buffer
  \/ view.region = "owned_buffer" /\ view.data = owned
  \/ view.region = "caller" /\ view.data = source.buffer
  \/ view.region = "none" /\ view.data = <<>>

ViewIsHeld == active => Shows(Holding, owned_buffer, buffer)

ReaderInv ==
  /\ Tidy(Holding)
  /\ ~ alive => reader.fd = NoDescriptor
  /\ ViewIsHeld

(* close gives everything back.                                             *)
LEMMA CloseIsTidy ==
  ASSUME NEW state, Tidy(state)
  PROVE  /\ Tidy(Close(state))
         /\ Close(state).reader.fd = NoDescriptor /\ Close(state).reader.mapped_data = Null
         /\ Close(state).os.descriptors = {} /\ DOMAIN Close(state).os.mappings = {}
<1>1. CASE state.reader.mapped_data = Null
  <2> DEFINE r == state.reader
             closed == [reader |-> [mapped_data |-> r.mapped_data, fd |-> r.fd,
                                    copied_buffer |-> <<>>],
                        os |-> state.os]
  <2>1. Close(state) = closed
    BY <1>1 DEF Close, Tidy
  <2> QED
    BY <1>1, <2>1 DEF Tidy
<1>2. CASE state.reader.mapped_data # Null
  <2> DEFINE closed == [reader |-> ClosedReader,
                        os |-> [descriptors |-> state.os.descriptors \ {state.reader.fd},
                                mappings |-> Unmap(state.os.mappings, state.reader.mapped_data)]]
  <2>1. Close(state) = closed
    BY <1>2 DEF Close
  <2>2. closed.os.descriptors = {} /\ DOMAIN closed.os.mappings = {}
    BY <1>2 DEF Tidy, Unmap
  <2>3. closed.reader.fd = NoDescriptor /\ closed.reader.mapped_data = Null
    BY DEF ClosedReader
  <2>4. /\ closed = [reader |-> closed.reader, os |-> closed.os]
        /\ closed.os = [descriptors |-> closed.os.descriptors, mappings |-> closed.os.mappings]
        /\ closed.reader = [mapped_data |-> closed.reader.mapped_data,
                            fd |-> closed.reader.fd,
                            copied_buffer |-> closed.reader.copied_buffer]
    BY DEF ClosedReader
  <2> HIDE DEF closed
  <2>5. Tidy(closed)
    BY <2>2, <2>3, <2>4 DEF Tidy
  <2> QED
    BY <2>1, <2>2, <2>3, <2>5
<1> QED
  BY <1>1, <1>2

(* A file that was mapped is one descriptor and one mapping, of its bytes.  *)
LEMMA MappedIsTidy ==
  ASSUME NEW state, Tidy(state), state.reader.fd = NoDescriptor, NEW bytes,
         NEW m \in Mapped(state, bytes)
  PROVE  /\ Tidy(m) /\ m.reader.mapped_data # Null
         /\ m.os.mappings[m.reader.mapped_data] = bytes
<1>1. PICK f \in Lowest(Descriptors \ state.os.descriptors),
           a \in Lowest(Addresses \ DOMAIN state.os.mappings) : m = Taking(state, bytes, f, a)
  BY DEF Mapped
<1>2. f # NoDescriptor /\ a # Null
  BY PoolAssumption DEF Lowest, NoDescriptor, Null
<1>3. state.os.descriptors \cup {f} = {f} /\ DOMAIN state.os.mappings \cup {a} = {a}
  BY DEF Tidy
<1>4. m = [reader |-> [mapped_data |-> a, fd |-> f, copied_buffer |-> state.reader.copied_buffer],
           os |-> [descriptors |-> {f},
                   mappings |-> [x \in {a} |-> IF x = a THEN bytes ELSE state.os.mappings[x]]]]
  BY <1>1, <1>3 DEF Taking
<1> QED
  BY <1>2, <1>4 DEF Tidy

(* Whatever open ends in, nothing is lost, and the view it returns shows    *)
(* memory that is there.                                                    *)
LEMMA OpenIsTidy ==
  ASSUME NEW state, Tidy(state), NEW bytes, NEW wish, NEW outcome \in Open(state, bytes, wish)
  PROVE  /\ Tidy(outcome.state)
         /\ outcome.status = "ok" => \A owned : Shows(outcome.state, owned, outcome.view)
<1> DEFINE closed == Close(state)
<1>1. Tidy(closed) /\ closed.reader.fd = NoDescriptor
  BY CloseIsTidy
<1> HIDE DEF closed
<1>2. ASSUME NEW status, outcome = Failed(closed, status), status # "ok"
      PROVE  Tidy(outcome.state) /\ outcome.status # "ok"
  BY <1>1, <1>2 DEF Failed
<1>3. CASE outcome = Opened(closed, NoView)
  BY <1>1, <1>3 DEF Opened, NoView, Shows
<1>4. ASSUME NEW m \in Mapped(closed, bytes), outcome = ReadMapped(m, bytes, wish)
      PROVE  /\ Tidy(outcome.state)
             /\ outcome.status = "ok" => \A owned : Shows(outcome.state, owned, outcome.view)
  <2>1. /\ Tidy(m) /\ m.reader.mapped_data # Null
        /\ m.os.mappings[m.reader.mapped_data] = bytes
    BY <1>1, MappedIsTidy
  <2>2. CASE wish.invalid_utf8 = "error" /\ ~ Validates(bytes)
    <3>1. outcome = [state |-> Close(m), status |-> "invalid_utf8", view |-> NoView,
                     byte_offset |-> ErrorOffset(bytes)]
      BY <1>4, <2>2 DEF ReadMapped
    <3> QED
      BY <2>1, <3>1, CloseIsTidy
  <2>3. CASE ~ (wish.invalid_utf8 = "error" /\ ~ Validates(bytes)) /\ wish.mode = "zero_copy"
    <3>1. outcome = Opened(m, View("mapping", bytes))
      BY <1>4, <2>3 DEF ReadMapped
    <3> QED
      BY <2>1, <3>1 DEF Opened, View, Shows
  <2>4. CASE ~ (wish.invalid_utf8 = "error" /\ ~ Validates(bytes)) /\ wish.mode # "zero_copy"
    <3>1. PICK copy : outcome = Opened([m EXCEPT !.reader.copied_buffer = copy],
                                       View("copied_buffer", copy))
      BY <1>4, <2>4 DEF ReadMapped
    <3> DEFINE r == m.reader
               after == [reader |-> [mapped_data |-> r.mapped_data, fd |-> r.fd,
                                     copied_buffer |-> copy],
                         os |-> m.os]
    <3>2. [m EXCEPT !.reader.copied_buffer = copy] = after
      BY <2>1 DEF Tidy
    <3>3. outcome = Opened(after, View("copied_buffer", copy)) /\ after.reader.copied_buffer = copy
      BY <3>1, <3>2
    <3>4. Tidy(after)
      BY <2>1 DEF Tidy
    <3> HIDE DEF after
    <3> QED
      BY <3>3, <3>4 DEF Opened, View, Shows
  <2> QED
    BY <2>2, <2>3, <2>4
<1>5. \/ \E status \in {"invalid_configuration", "file_not_found", "io_error", "mapping_failed"} :
           outcome = Failed(closed, status)
      \/ outcome = Opened(closed, NoView)
      \/ \E m \in Mapped(closed, bytes) : outcome = ReadMapped(m, bytes, wish)
  BY DEF Open, closed
<1> QED
  BY <1>2, <1>3, <1>4, <1>5

(* A refused call keeps what the handle holds.                              *)
LEMMA RefusedStep ==
  ASSUME ReaderInv, UNCHANGED <<reader_vars, source, alive, active, buffer, owned_buffer>>
  PROVE  ReaderInv'
BY DEF reader_vars, ReaderInv, Tidy, Holding, ViewIsHeld, Shows

(* open_path keeps the invariant, whichever step of it fails.               *)
LEMMA OpenPathStep ==
  ASSUME ReaderInv, NEW wish, OpenPath(wish)
  PROVE  ReaderInv'
<1>1. CASE Refuse(wish)
  BY <1>1, RefusedStep DEF OpenPath, Refuse, RefusedWith, reader_vars
<1>2. CASE ~ Refuse(wish)
  <2>1. PICK outcome \in Open(Holding, source.path, wish) :
          /\ reader' = outcome.state.reader /\ os' = outcome.state.os
          /\ \/ outcome.status # "ok" /\ UNCHANGED <<active, buffer>>
             \/ outcome.status = "ok" /\ Finish(outcome.view, wish)
    BY <1>2 DEF OpenPath
  <2>2. ~ active /\ alive /\ UNCHANGED <<source, alive, owned_buffer>>
    BY <1>2 DEF OpenPath
  <2>3. /\ Tidy(outcome.state)
        /\ outcome.status = "ok" => \A owned : Shows(outcome.state, owned, outcome.view)
    BY OpenIsTidy DEF ReaderInv
  <2>4. Holding' = outcome.state
    BY <2>1, <2>3 DEF Holding, Tidy
  <2>5. Tidy(Holding)'
    BY <2>3, <2>4 DEF Tidy
  <2>6. active' => outcome.status = "ok" /\ buffer' = outcome.view
    BY <2>1, <2>2 DEF Finish
  <2>7. ViewIsHeld'
    BY <2>2, <2>3, <2>4, <2>6 DEF ViewIsHeld, Shows
  <2> QED
    BY <2>2, <2>5, <2>7 DEF ReaderInv
<1> QED
  BY <1>1, <1>2

(* So does open_buffer.                                                     *)
LEMMA OpenBufferStep ==
  ASSUME ReaderInv, NEW wish, OpenBuffer(wish)
  PROVE  ReaderInv'
<1>1. CASE Refuse(wish)
  BY <1>1, RefusedStep DEF OpenBuffer, Refuse, RefusedWith, reader_vars
<1>2. CASE ~ Refuse(wish)
  <2> DEFINE view == BufferView(source.buffer, wish)
  <2>1. /\ alive /\ ~ active /\ UNCHANGED <<reader_vars, source, alive>>
        /\ owned_buffer' = IF view.region = "owned_buffer" THEN view.data ELSE <<>>
        /\ active' => buffer' = view
    BY <1>2 DEF OpenBuffer, Finish
  <2>2. \/ view.region = "caller" /\ view.data = source.buffer
        \/ view.region = "owned_buffer"
    BY DEF BufferView, View
  <2> HIDE DEF view
  <2>3. ViewIsHeld'
    BY <2>1, <2>2 DEF ViewIsHeld, Shows
  <2> QED
    BY <2>1, <2>3 DEF ReaderInv, Tidy, Holding, reader_vars
<1> QED
  BY <1>1, <1>2

(* So do close and the destruction of the handle.                           *)
LEMMA CloseStep ==
  ASSUME ReaderInv, CloseReader \/ DestroyReader
  PROVE  ReaderInv'
<1>1. reader' = Close(Holding).reader /\ os' = Close(Holding).os /\ ~ active'
  BY DEF CloseReader, DestroyReader
<1>2. Tidy(Close(Holding)) /\ Close(Holding).reader.fd = NoDescriptor
  BY CloseIsTidy DEF ReaderInv
<1>3. Holding' = Close(Holding)
  BY <1>1, <1>2 DEF Holding, Tidy
<1> QED
  BY <1>1, <1>2, <1>3 DEF ReaderInv, ViewIsHeld, Tidy

(* A new handle holds nothing.                                              *)
LEMMA ReaderBegins == AbiReaderInit => ReaderInv
<1> SUFFICES ASSUME AbiReaderInit PROVE ReaderInv
  OBVIOUS
<1>1. /\ reader = [mapped_data |-> Null, fd |-> NoDescriptor, copied_buffer |-> <<>>]
      /\ os = [descriptors |-> {}, mappings |-> Nothing] /\ alive /\ ~ active
  BY DEF AbiReaderInit, ReaderInit, ClosedReader
<1>2. DOMAIN Nothing = {}
  BY DEF Nothing
<1>3. Tidy(Holding)
  BY <1>1, <1>2 DEF Tidy, Holding
<1> QED
  BY <1>1, <1>3 DEF ReaderInv, ViewIsHeld

(* The inductive invariant of the reader: what the handle and the operating *)
(* system hold agree, and an active view points into memory that is there.  *)
THEOREM ReaderInvariant == AbiReaderSpec => []ReaderInv
<1>1. ReaderInv /\ [AbiReaderNext]_handle_vars => ReaderInv'
  <2> SUFFICES ASSUME ReaderInv, [AbiReaderNext]_handle_vars PROVE ReaderInv'
    OBVIOUS
  <2>1. CASE ClearError \/ UNCHANGED handle_vars
    BY <2>1, RefusedStep DEF ClearError, handle_vars, reader_vars
  <2> QED
    BY <2>1, OpenPathStep, OpenBufferStep, CloseStep DEF AbiReaderNext
<1> QED
  BY <1>1, ReaderBegins, PTL DEF AbiReaderSpec

(* Nothing of the operating system is lost by any sequence of calls.        *)
THEOREM ReaderLeaksNothing == AbiReaderSpec => []NothingLeaks
<1>1. ReaderInv => NothingLeaks
  BY DEF ReaderInv, Tidy, Holding, NothingLeaks
<1> QED
  BY <1>1, ReaderInvariant, PTL

-----------------------------------------------------------------------------
(* What an active handle shows.                                             *)

(* Data that follow the policy of the wish, and the offset of the first  *)
(* malformed byte.                                                          *)
FollowsPolicy(bytes, wish, data) ==
  IF wish.invalid_utf8 = "error" THEN Stray(bytes) = {} /\ data = bytes
  ELSE data = RepairOf(bytes, wish.invalid_utf8).data /\ Validates(data)
FirstStray(bytes, offset) ==
  offset \in Stray(bytes) /\ \A i \in Stray(bytes) : offset <= i

ShowsWhatWasAsked == active => FollowsPolicy(source[asked], input, buffer.data)
NamesTheFirst == error.status = "invalid_utf8" => FirstStray(source[asked], error.byte_offset)

PolicyInv ==
  /\ ReaderInv
  /\ source \in Sources
  /\ ShowsWhatWasAsked
  /\ NamesTheFirst

(* A line ends at its start or behind it.                                   *)
LEMMA LineEndsBehind ==
  ASSUME NEW bytes \in Seq(Byte), NEW i \in 0 .. Len(bytes) - 1
  PROVE  LineEnd(bytes, i) \in i .. Len(bytes)
<1> DEFINE feeds == {j \in i .. Len(bytes) - 1 : bytes[j + 1] = LF} \cup {Len(bytes)}
<1>1. feeds \subseteq i .. Len(bytes) /\ feeds # {} /\ feeds \subseteq Nat
  OBVIOUS
<1>2. LineEnd(bytes, i) = CHOOSE x \in feeds : \A y \in feeds : x <= y
  BY DEF LineEnd, Min
<1> HIDE DEF feeds
<1>3. \E x \in feeds : \A y \in feeds : x <= y
  BY <1>1, LeastNatural
<1> QED
  BY <1>1, <1>2, <1>3

(* The next line begins behind this one.                                    *)
LEMMA LinesGoForward ==
  ASSUME NEW bytes \in Seq(Byte), NEW i \in 0 .. Len(bytes) - 1
  PROVE  DelimiterEnd(bytes, i) \in i + 1 .. Len(bytes)
BY LineEndsBehind DEF DelimiterEnd

(* The record that a line becomes, and what the parser may give.            *)
Found(bytes, field, i) ==
  Record(bytes, i, CHOOSE id \in RecordIds(LineText(bytes, i), field) : TRUE)
Givable(bytes, field) ==
  [status : {"ok", "invalid_argument"},
   records : Seq({Found(bytes, field, i) : i \in 0 .. Len(bytes)}), skipped : Seq(Nat),
   byte_offset : Nat]

(* The parser is a function over the lines, from the last one back.         *)
LEMMA ParserRuns ==
  ASSUME NEW bytes \in Seq(Byte), NEW field, NEW policy
  PROVE  \E g : /\ ParseRecords(bytes, field, policy) = g[0]
                /\ g[Len(bytes)] = NothingParsed
                /\ \A i \in 0 .. Len(bytes) - 1 :
                     g[i] = Adding(bytes, i, field, policy, g[DelimiterEnd(bytes, i)])
                /\ \A i \in 0 .. Len(bytes) : g[i] \in Givable(bytes, field)
<1> DEFINE n == Len(bytes)
           R == {Found(bytes, field, i) : i \in 0 .. n}
           Parsed == [status : {"ok", "invalid_argument"}, records : Seq(R), skipped : Seq(Nat),
                      byte_offset : Nat]
           Parses(f) == f = [i \in 0 .. n |->
                               IF i = n THEN NothingParsed
                               ELSE Adding(bytes, i, field, policy, f[DelimiterEnd(bytes, i)])]
           further == [i \in 0 .. n - 1 |-> DelimiterEnd(bytes, i)]
           step == [i \in 0 .. n - 1 |->
                      [v \in Parsed |-> Adding(bytes, i, field, policy, v)]]
<1>1. n \in Nat
  OBVIOUS
<1>2. NothingParsed \in Parsed
  <2>1. <<>> \in Seq(R) /\ <<>> \in Seq(Nat)
    OBVIOUS
  <2> QED
    BY <2>1 DEF NothingParsed
<1>3. ASSUME NEW i \in 0 .. n - 1, NEW rest \in Parsed
      PROVE  Adding(bytes, i, field, policy, rest) \in Parsed
  <2> DEFINE found == Found(bytes, field, i)
  <2>1. rest.records \in Seq(R) /\ rest.skipped \in Seq(Nat)
    <3> DEFINE Q == Seq(R)
               N == Seq(Nat)
    <3>1. rest \in [status : {"ok", "invalid_argument"}, records : Q, skipped : N, byte_offset : Nat]
      OBVIOUS
    <3> HIDE DEF Q, N, Parsed
    <3>2. rest.records \in Q /\ rest.skipped \in N
      BY <3>1
    <3> QED
      BY <3>2 DEF Q, N
  <2>2. found \in R /\ i \in Nat
    BY <1>1
  <2>3. Adding(bytes, i, field, policy, rest) =
          IF LineText(bytes, i) = <<>> THEN rest
          ELSE IF RecordIds(LineText(bytes, i), field) # {}
          THEN [rest EXCEPT !.records = <<found>> \o @]
          ELSE IF policy = "error"
          THEN [status |-> "invalid_argument", records |-> <<>>, skipped |-> <<>>,
                byte_offset |-> i]
          ELSE [rest EXCEPT !.skipped = <<i>> \o @]
    BY DEF Adding, Found
  <2>4. /\ <<found>> \o rest.records \in Seq(R) /\ <<i>> \o rest.skipped \in Seq(Nat)
        /\ <<>> \in Seq(R) /\ <<>> \in Seq(Nat)
    <3> HIDE DEF found, R, Parsed
    <3>1. <<found>> \in Seq(R) /\ <<i>> \in Seq(Nat)
      BY <2>2
    <3> QED
      BY <2>1, <3>1, ConcatProperties
  <2> DEFINE Q == Seq(R)
             N == Seq(Nat)
             St == {"ok", "invalid_argument"}
             with == [rest EXCEPT !.records = <<found>> \o @]
             without == [rest EXCEPT !.skipped = <<i>> \o @]
             wrong == [status |-> "invalid_argument", records |-> <<>>, skipped |-> <<>>, byte_offset |-> i]
  <2>5. rest \in [status : St, records : Q, skipped : N, byte_offset : Nat]
    OBVIOUS
  <2>6. with \in Parsed /\ without \in Parsed /\ wrong \in Parsed
    <3>1. with \in [status : St, records : Q, skipped : N, byte_offset : Nat]
      <4> HIDE DEF Q, N, St, found
      <4> QED
        BY <2>4, <2>5 DEF Q
    <3>2. without \in [status : St, records : Q, skipped : N, byte_offset : Nat]
      <4> HIDE DEF Q, N, St, found
      <4> QED
        BY <2>4, <2>5 DEF N
    <3>3. wrong \in [status : St, records : Q, skipped : N, byte_offset : Nat]
      BY <2>2, <2>4
    <3> QED
      BY <3>1, <3>2, <3>3
  <2> HIDE DEF with, without, wrong, Parsed
  <2> QED
    BY <2>3, <2>6 DEF with, without, wrong
<1>4. \A i \in 0 .. n - 1 : further[i] = DelimiterEnd(bytes, i) /\ further[i] \in i + 1 .. n
  BY LinesGoForward
<1>5. /\ \A i \in 0 .. n - 1 : \A v \in Parsed : step[i][v] = Adding(bytes, i, field, policy, v)
      /\ \A i \in 0 .. n - 1 : \A v \in Parsed : step[i][v] \in Parsed
  <2> HIDE DEF Parsed
  <2> QED
    BY <1>3
<1>6. PICK f \in [0 .. n -> Parsed] :
        f = [i \in 0 .. n |-> IF i = n THEN NothingParsed ELSE step[i][f[further[i]]]]
  <2> DEFINE base == NothingParsed
  <2>1. base \in Parsed
    BY <1>2
  <2>2. /\ \A i \in 0 .. n - 1 : further[i] \in i + 1 .. n
        /\ \A i \in 0 .. n - 1 : \A v \in Parsed : step[i][v] \in Parsed
    BY <1>4, <1>5
  <2> HIDE DEF n, step, further, Parsed, base
  <2>3. Computable(n, Parsed, base, further, step)
    BY <1>1, <2>1, <2>2, BackwardRecursion
  <2> QED
    BY <2>3 DEF base, Computable
<1>7. ASSUME NEW i \in 0 .. n
      PROVE  f[i] = IF i = n THEN NothingParsed
                    ELSE Adding(bytes, i, field, policy, f[DelimiterEnd(bytes, i)])
  <2>1. CASE i = n
    BY <1>6, <2>1
  <2>2. CASE i # n
    <3>1. i \in 0 .. n - 1
      BY <2>2
    <3>2. further[i] = DelimiterEnd(bytes, i) /\ further[i] \in 0 .. n
      BY <1>4, <3>1
    <3> HIDE DEF step, further, Parsed
    <3>3. f[i] = step[i][f[further[i]]]
      BY <1>6, <2>2, ZenonT(40)
    <3>4. f[further[i]] \in Parsed
      BY <3>2
    <3> QED
      BY <1>5, <2>2, <3>1, <3>2, <3>3, <3>4
  <2> QED
    BY <2>1, <2>2
<1>8. Parses(f)
  <2>1. f = [i \in 0 .. n |-> f[i]]
    BY <1>6
  <2> HIDE DEF Parsed
  <2> QED
    BY <1>7, <2>1, Zenon
<1>9. ASSUME NEW g, Parses(g)
      PROVE  /\ g[n] = NothingParsed
             /\ \A i \in 0 .. n - 1 : g[i] = Adding(bytes, i, field, policy, g[DelimiterEnd(bytes, i)])
             /\ \A i \in 0 .. n : g[i] \in Parsed
  <2> DEFINE S == {i \in 0 .. n : g[i] \in Parsed}
  <2>1. /\ g[n] = NothingParsed
        /\ \A i \in 0 .. n - 1 : g[i] = Adding(bytes, i, field, policy, g[DelimiterEnd(bytes, i)])
    <3> HIDE DEF Parsed
    <3> QED
      BY <1>1, <1>9
  <2>2. ASSUME NEW i \in 0 .. n, \A j \in i + 1 .. n : j \in S
        PROVE  i \in S
    <3>1. CASE i = n
      BY <1>2, <2>1, <3>1
    <3>2. CASE i # n
      <4>1. i \in 0 .. n - 1
        BY <3>2
      <4>2. DelimiterEnd(bytes, i) \in S
        <5> HIDE DEF S
        <5> QED
          BY <2>2, <4>1, LinesGoForward
      <4> HIDE DEF Parsed
      <4> QED
        BY <1>3, <2>1, <4>1, <4>2
    <3> QED
      BY <3>1, <3>2
  <2>3. \A i \in 0 .. n : i \in S
    <3> HIDE DEF S
    <3>1. \A i \in 0 .. n : (\A j \in i + 1 .. n : j \in S) => i \in S
      BY <2>2
    <3> HIDE DEF n
    <3> QED
      BY <1>1, <3>1, FromTheEnd
  <2> HIDE DEF Parsed
  <2> QED
    BY <2>1, <2>3
<1> DEFINE h == CHOOSE g : Parses(g)
<1>10. ParseRecords(bytes, field, policy) = h[0]
  BY DEF ParseRecords
<1>11. Parses(h)
  <2> HIDE DEF Parses
  <2> QED
    BY <1>8
<1>12. Parsed = Givable(bytes, field)
  BY DEF Givable
<1> HIDE DEF Parses, Parsed, h
<1> QED
  BY <1>9, <1>10, <1>11, <1>12

(* The parser never blames the encoding.                                    *)
LEMMA ParserStatus ==
  ASSUME NEW bytes \in Seq(Byte), NEW field, NEW policy
  PROVE  ParseRecords(bytes, field, policy).status \in {"ok", "invalid_argument"}
<1>1. PICK g : /\ ParseRecords(bytes, field, policy) = g[0]
               /\ \A i \in 0 .. Len(bytes) : g[i] \in Givable(bytes, field)
  BY ParserRuns
<1>2. 0 \in 0 .. Len(bytes)
  OBVIOUS
<1>3. g[0] \in Givable(bytes, field)
  BY <1>1, <1>2
<1> QED
  BY <1>1, <1>3 DEF Givable

(* An open that succeeds shows the file as its policy promises, and one     *)
(* that refuses the encoding names the first malformed byte.                *)
LEMMA OpenFollowsPolicy ==
  ASSUME NEW state, NEW bytes \in Seq(Byte), NEW wish, ~ Conflicting(wish),
         NEW outcome \in Open(state, bytes, wish)
  PROVE  /\ outcome.status = "ok" => /\ outcome.view.data \in Seq(Byte)
                                     /\ FollowsPolicy(bytes, wish, outcome.view.data)
         /\ outcome.status = "invalid_utf8" => FirstStray(bytes, outcome.byte_offset)
<1> DEFINE closed == Close(state)
           policy == wish.invalid_utf8
<1>1. /\ policy = "error" /\ Validates(bytes) => FollowsPolicy(bytes, wish, bytes)
      /\ ~ Validates(bytes) => FirstStray(bytes, ErrorOffset(bytes))
      /\ policy # "error" => FollowsPolicy(bytes, wish, RepairOf(bytes, policy).data)
      /\ RepairUtf8Bytes(bytes, policy).data = RepairOf(bytes, policy).data
      /\ RepairOf(bytes, policy).data \in Seq(Byte)
  BY ValidatesMeansNoStray, ErrorOffsetIsFirstStray, RepairIsReference
     DEF FollowsPolicy, FirstStray, Validates
<1>2. ASSUME bytes = <<>>
      PROVE  FollowsPolicy(bytes, wish, <<>>)
  <2>1. Stray(<<>>) = {}
    BY DEF Stray
  <2>2. RepairOf(bytes, policy).data = <<>>
    <3>1. Len(bytes) = 0
      BY <1>2
    <3> QED
      BY <3>1, WrittenByBytes
  <2> QED
    BY <1>1, <1>2, <2>1, <2>2 DEF FollowsPolicy
<1>3. CASE \E status \in {"invalid_configuration", "file_not_found", "io_error", "mapping_failed"} :
             outcome = Failed(closed, status)
  BY <1>3 DEF Failed
<1>4. CASE bytes = <<>> /\ outcome = Opened(closed, NoView)
  BY <1>2, <1>4 DEF Opened, NoView
<1>5. CASE \E m \in Mapped(closed, bytes) : outcome = ReadMapped(m, bytes, wish)
  <2>1. PICK m : outcome = ReadMapped(m, bytes, wish)
    BY <1>5
  <2>2. CASE policy = "error" /\ ~ Validates(bytes)
    BY <1>1, <2>1, <2>2 DEF ReadMapped
  <2>3. CASE policy = "error" /\ Validates(bytes)
    <3>1. \E region, after : outcome = Opened(after, View(region, bytes))
      BY <2>1, <2>3 DEF ReadMapped
    <3> QED
      BY <1>1, <2>3, <3>1 DEF Opened, View
  <2>4. CASE policy # "error"
    <3>1. wish.mode # "zero_copy"
      BY <2>4 DEF Conflicting
    <3>2. \E after : outcome = Opened(after, View("copied_buffer", RepairUtf8Bytes(bytes, policy).data))
      BY <2>1, <2>4, <3>1 DEF ReadMapped
    <3> QED
      BY <1>1, <2>4, <3>2 DEF Opened, View
  <2> QED
    BY <2>2, <2>3, <2>4
<1>6. \/ \E status \in {"invalid_configuration", "file_not_found", "io_error", "mapping_failed"} :
           outcome = Failed(closed, status)
      \/ bytes = <<>> /\ outcome = Opened(closed, NoView)
      \/ \E m \in Mapped(closed, bytes) : outcome = ReadMapped(m, bytes, wish)
  BY DEF Open, closed
<1> QED
  BY <1>3, <1>4, <1>5, <1>6

(* The end of both calls keeps what the view shows.                         *)
LEMMA FinishFollowsPolicy ==
  ASSUME NEW bytes, NEW view, NEW wish, view.data \in Seq(Byte),
         FollowsPolicy(bytes, wish, view.data), Finish(view, wish)
  PROVE  /\ active' => FollowsPolicy(bytes, input', buffer'.data)
         /\ error'.status # "invalid_utf8"
<1>1. PICK parsed \in {ParseRecords(view.data, wish.record_id_field, wish.malformed_record),
                       NothingParsed} :
        error' = IF parsed.status # "ok" THEN ErrorAt(parsed.status, parsed.byte_offset) ELSE NoError
  BY DEF Finish
<1>2. parsed.status \in {"ok", "invalid_argument"}
  BY <1>1, ParserStatus DEF NothingParsed
<1>3. error'.status # "invalid_utf8"
  BY <1>1, <1>2 DEF ErrorAt, NoError
<1>4. buffer' = view /\ input' = wish
  BY DEF Finish
<1> QED
  BY <1>3, <1>4

(* A refused call keeps what is shown.                                      *)
LEMMA RefusedKeepsPolicy ==
  ASSUME PolicyInv, UNCHANGED <<reader_vars, source, alive, active, buffer, owned_buffer, input, asked>>,
         error'.status # "invalid_utf8" \/ error' = error
  PROVE  PolicyInv'
<1>1. ReaderInv'
  BY RefusedStep DEF PolicyInv
<1> QED
  BY <1>1 DEF PolicyInv, ShowsWhatWasAsked, NamesTheFirst

(* open_path keeps the promise of the policy.                               *)
LEMMA OpenPathFollowsPolicy ==
  ASSUME PolicyInv, NEW wish, OpenPath(wish)
  PROVE  PolicyInv'
<1>1. CASE Refuse(wish)
  <2>1. error'.status # "invalid_utf8"
    BY <1>1 DEF Refuse, RefusedWith, ErrorAt
  <2> QED
    BY <1>1, <2>1, RefusedKeepsPolicy DEF OpenPath, Refuse, RefusedWith, reader_vars
<1>2. CASE ~ Refuse(wish)
  <2>1. PICK outcome \in Open(Holding, source.path, wish) :
          \/ /\ outcome.status # "ok" /\ ~ active'
             /\ error' = ErrorAt(outcome.status, outcome.byte_offset)
          \/ outcome.status = "ok" /\ Finish(outcome.view, wish)
    BY <1>2 DEF OpenPath
  <2>2. ~ Conflicting(wish) /\ asked' = "path" /\ source' = source
    BY <1>2 DEF OpenPath
  <2>3. source.path \in Seq(Byte) /\ source \in Sources
    BY SourceAssumption DEF PolicyInv
  <2>4. /\ outcome.status = "ok" => /\ outcome.view.data \in Seq(Byte)
                                    /\ FollowsPolicy(source.path, wish, outcome.view.data)
        /\ outcome.status = "invalid_utf8" => FirstStray(source.path, outcome.byte_offset)
    BY <2>2, <2>3, OpenFollowsPolicy
  <2>5. source'[asked'] = source.path
    BY <2>2
  <2>6. /\ active' => FollowsPolicy(source.path, input', buffer'.data)
        /\ error'.status = "invalid_utf8" => FirstStray(source.path, error'.byte_offset)
    <3>1. CASE outcome.status # "ok"
      <4>1. ~ active' /\ error' = ErrorAt(outcome.status, outcome.byte_offset)
        BY <2>1, <3>1
      <4>2. error'.status = outcome.status /\ error'.byte_offset = outcome.byte_offset
        BY <4>1 DEF ErrorAt
      <4> QED
        BY <2>4, <4>1, <4>2
    <3>2. CASE outcome.status = "ok"
      BY <2>1, <2>4, <3>2, FinishFollowsPolicy
    <3> QED
      BY <3>1, <3>2
  <2>7. ShowsWhatWasAsked' /\ NamesTheFirst'
    BY <2>5, <2>6 DEF ShowsWhatWasAsked, NamesTheFirst
  <2>8. ReaderInv'
    BY OpenPathStep DEF PolicyInv
  <2> QED
    BY <2>2, <2>3, <2>7, <2>8 DEF PolicyInv
<1> QED
  BY <1>1, <1>2

(* So does open_buffer.                                                     *)
LEMMA OpenBufferFollowsPolicy ==
  ASSUME PolicyInv, NEW wish, OpenBuffer(wish)
  PROVE  PolicyInv'
<1>1. CASE Refuse(wish)
  <2>1. error'.status # "invalid_utf8"
    BY <1>1 DEF Refuse, RefusedWith, ErrorAt
  <2> QED
    BY <1>1, <2>1, RefusedKeepsPolicy DEF OpenBuffer, Refuse, RefusedWith, reader_vars
<1>2. CASE ~ Refuse(wish)
  <2> DEFINE bytes == source.buffer
             view == BufferView(bytes, wish)
             policy == wish.invalid_utf8
  <2>1. /\ ~ active /\ ~ Conflicting(wish) /\ asked' = "buffer" /\ source' = source
        /\ IF policy = "error" /\ ~ Validates(view.data)
           THEN error' = ErrorAt("invalid_utf8", ErrorOffset(view.data)) /\ active' = active
           ELSE Finish(view, wish)
    BY <1>2 DEF OpenBuffer
  <2>2. bytes \in Seq(Byte) /\ source \in Sources
    BY SourceAssumption DEF PolicyInv
  <2>3. view.data = IF policy = "error" THEN bytes ELSE RepairUtf8(bytes, policy).data
    BY <2>1 DEF BufferView, View, Conflicting
  <2>4. source'[asked'] = bytes
    BY <2>1
  <2> HIDE DEF view, bytes
  <2>5. /\ active' => FollowsPolicy(bytes, input', buffer'.data)
        /\ error'.status = "invalid_utf8" => FirstStray(bytes, error'.byte_offset)
    <3>1. CASE policy = "error" /\ ~ Validates(view.data)
      <4>1. ~ active' /\ error' = ErrorAt("invalid_utf8", ErrorOffset(bytes))
        BY <2>1, <2>3, <3>1
      <4>2. FirstStray(bytes, ErrorOffset(bytes))
        BY <2>2, <2>3, <3>1, ErrorOffsetIsFirstStray DEF FirstStray, Validates
      <4>3. error'.byte_offset = ErrorOffset(bytes)
        BY <4>1 DEF ErrorAt
      <4> QED
        BY <4>1, <4>2, <4>3
    <3>2. CASE ~ (policy = "error" /\ ~ Validates(view.data))
      <4>1. view.data \in Seq(Byte) /\ FollowsPolicy(bytes, wish, view.data)
        BY <2>2, <2>3, <3>2, ValidatesMeansNoStray, RepairIsReference DEF FollowsPolicy
      <4> QED
        BY <2>1, <3>2, <4>1, FinishFollowsPolicy
    <3> QED
      BY <3>1, <3>2
  <2>6. ShowsWhatWasAsked' /\ NamesTheFirst'
    BY <2>4, <2>5 DEF ShowsWhatWasAsked, NamesTheFirst
  <2>7. ReaderInv'
    BY OpenBufferStep DEF PolicyInv
  <2> QED
    BY <2>1, <2>2, <2>6, <2>7 DEF PolicyInv
<1> QED
  BY <1>1, <1>2

(* An active handle shows, in memory that is still there, the input that    *)
(* was asked for last, as the policy it was opened with promises; an open   *)
(* that fails on the encoding names the first malformed byte.               *)
THEOREM ReaderFollowsPolicy == AbiReaderSpec => []ActiveInputFollowsPolicy
<1>1. AbiReaderInit => PolicyInv
  <2> SUFFICES ASSUME AbiReaderInit PROVE PolicyInv
    OBVIOUS
  <2>1. ReaderInv
    BY ReaderBegins
  <2> QED
    BY <2>1 DEF AbiReaderInit, PolicyInv, ShowsWhatWasAsked, NamesTheFirst, NoError
<1>2. PolicyInv /\ [AbiReaderNext]_handle_vars => PolicyInv'
  <2> SUFFICES ASSUME PolicyInv, [AbiReaderNext]_handle_vars PROVE PolicyInv'
    OBVIOUS
  <2>1. CASE ClearError \/ UNCHANGED handle_vars
    BY <2>1, RefusedKeepsPolicy DEF ClearError, handle_vars, reader_vars, NoError
  <2>2. CASE CloseReader \/ DestroyReader
    <3>1. ~ active' /\ error' = NoError /\ source' = source
      BY <2>2 DEF CloseReader, DestroyReader
    <3>2. ReaderInv'
      BY <2>2, CloseStep DEF PolicyInv
    <3> QED
      BY <3>1, <3>2 DEF PolicyInv, ShowsWhatWasAsked, NamesTheFirst, NoError
  <2> QED
    BY <2>1, <2>2, OpenPathFollowsPolicy, OpenBufferFollowsPolicy DEF AbiReaderNext
<1>3. PolicyInv => ActiveInputFollowsPolicy
  <2> SUFFICES ASSUME PolicyInv PROVE ActiveInputFollowsPolicy
    OBVIOUS
  <2>1. active => Memory(buffer.region) = buffer.data
    BY DEF PolicyInv, ReaderInv, ViewIsHeld, Shows, Memory, Holding
  <2> QED
    BY <2>1 DEF PolicyInv, ShowsWhatWasAsked, NamesTheFirst, FollowsPolicy, FirstStray,
                ActiveInputFollowsPolicy
<1> QED
  BY <1>1, <1>2, <1>3, PTL DEF AbiReaderSpec

-----------------------------------------------------------------------------
(* The records of a buffer: its lines.                                      *)

(* A sequence backwards.                                                    *)
LEMMA Reversed ==
  ASSUME NEW t \in Seq(Byte)
  PROVE  /\ Reverse(t) \in Seq(Byte) /\ Len(Reverse(t)) = Len(t)
         /\ \A k \in 1 .. Len(t) : Reverse(t)[k] = t[(Len(t) - k) + 1]
<1>1. Len(t) \in Nat /\ \A k \in 1 .. Len(t) : (Len(t) - k) + 1 \in 1 .. Len(t)
  OBVIOUS
<1>2. \A k \in 1 .. Len(t) : t[(Len(t) - k) + 1] \in Byte
  BY <1>1
<1>3. Reverse(t) \in [1 .. Len(t) -> Byte]
  BY <1>2 DEF Reverse
<1>4. Reverse(t) \in Seq(Byte)
  BY <1>1, <1>3, SeqDef
<1>5. DOMAIN Reverse(t) = 1 .. Len(t)
  BY <1>3
<1>6. Len(Reverse(t)) = Len(t)
  BY <1>1, <1>4, <1>5, LenProperties
<1> QED
  BY <1>4, <1>6 DEF Reverse

(* A suffix, index by index.                                                *)
LEMMA SuffixIs ==
  ASSUME NEW s \in Seq(Byte), NEW t \in Seq(Byte)
  PROVE  IsSuffix(s, t) <=>
           /\ Len(s) <= Len(t)
           /\ \A k \in 1 .. Len(s) : s[(Len(s) - k) + 1] = t[(Len(t) - k) + 1]
<1> DEFINE m == Len(s)
           n == Len(t)
           a == Reverse(s)
           b == Reverse(t)
           c == SubSeq(a, 1, m)
           d == SubSeq(b, 1, m)
<1>1. /\ m \in Nat /\ n \in Nat
      /\ a \in Seq(Byte) /\ Len(a) = m /\ \A k \in 1 .. m : a[k] = s[(m - k) + 1]
      /\ b \in Seq(Byte) /\ Len(b) = n /\ \A k \in 1 .. n : b[k] = t[(n - k) + 1]
  BY Reversed
<1>2. IsSuffix(s, t) <=> (m <= n /\ c = d)
  BY <1>1 DEF IsSuffix, IsPrefix
<1> HIDE DEF m, n, a, b
<1>3. c \in Seq(Byte) /\ Len(c) = m /\ \A k \in 1 .. m : c[k] = a[k]
  BY <1>1
<1>4. m <= n => d \in Seq(Byte) /\ Len(d) = m /\ \A k \in 1 .. m : d[k] = b[k]
  BY <1>1
<1> HIDE DEF c, d
<1>5. m <= n => (c = d <=> \A k \in 1 .. m : c[k] = d[k])
  BY <1>3, <1>4, SeqEqual
<1>6. m <= n => \A k \in 1 .. m : k \in 1 .. n
  BY <1>1
<1>7. m <= n => (c = d <=> \A k \in 1 .. m : s[(m - k) + 1] = t[(n - k) + 1])
  <2> SUFFICES ASSUME m <= n
               PROVE  c = d <=> \A k \in 1 .. m : s[(m - k) + 1] = t[(n - k) + 1]
    OBVIOUS
  <2>1. \A k \in 1 .. m : c[k] = s[(m - k) + 1]
    BY <1>1, <1>3
  <2>2. \A k \in 1 .. m : d[k] = t[(n - k) + 1]
    BY <1>1, <1>4, <1>6
  <2>3. (\A k \in 1 .. m : c[k] = d[k])
          <=> \A k \in 1 .. m : s[(m - k) + 1] = t[(n - k) + 1]
    BY <2>1, <2>2
  <2> QED
    BY <1>5, <2>3
<1> QED
  BY <1>2, <1>7 DEF m, n

(* A line's end, and what it holds, by the place of the next line feed.     *)
LEMMA LineIsContent ==
  ASSUME NEW bytes \in Seq(Byte), NEW i \in 0 .. Len(bytes) - 1
  PROVE  /\ DelimiterEnd(bytes, i) = EndOf(bytes, i)
         /\ LineText(bytes, i) = Content(bytes, i)
         /\ EndOf(bytes, i) \in i + 1 .. Len(bytes)
         /\ EndOf(bytes, i) \in Feeds(bytes) \cup {Len(bytes)}
         /\ \A j \in Feeds(bytes) : j > i => EndOf(bytes, i) <= j
<1> DEFINE n == Len(bytes)
           T == {j \in i .. n - 1 : bytes[j + 1] = LF} \cup {n}
           m == Min(T)
           F == {j \in Feeds(bytes) : j > i} \cup {n}
           e == EndOf(bytes, i)
<1>1. n \in Nat /\ i \in Nat /\ i < n /\ T \subseteq Nat /\ n \in T
      /\ F \subseteq Nat /\ n \in F
  BY DEF Feeds
<1>2. m \in T /\ \A x \in T : m <= x
  <2> HIDE DEF T
  <2> QED
    BY <1>1, LeastNatural DEF Min
<1>3. LineEnd(bytes, i) = m /\ e = Min(F)
  BY DEF LineEnd, EndOf
<1>4. \A j \in F : j # n => j \in 1 .. n /\ j > i /\ bytes[j] = LF
  BY <1>1 DEF Feeds
<1>5. \A j \in i + 1 .. n : bytes[j] = LF => j \in F
  BY <1>1 DEF Feeds
<1>6. \A j \in T : j # n => j \in i .. n - 1 /\ bytes[j + 1] = LF
  OBVIOUS
<1>7. \A j \in i .. n - 1 : bytes[j + 1] = LF => j \in T
  OBVIOUS
<1>8. m \in i .. n
  BY <1>1, <1>2, <1>6
<1> HIDE DEF n, T, m, F, e
<1>9. ASSUME m = n PROVE e = n /\ F = {n}
  <2>1. \A j \in F : j = n
    <3> SUFFICES ASSUME NEW j \in F, j # n PROVE FALSE
      OBVIOUS
    <3>1. j \in 1 .. n /\ j > i /\ bytes[j] = LF
      BY <1>4
    <3>2. j - 1 \in i .. n - 1 /\ (j - 1) + 1 = j
      BY <1>1, <3>1
    <3>3. j - 1 \in T
      BY <1>7, <3>1, <3>2
    <3> QED
      BY <1>1, <1>2, <1>9, <3>2, <3>3
  <2>2. F = {n}
    BY <1>1, <2>1
  <2>4. \A j \in F : n <= j
    BY <1>1, <2>1
  <2>3. Min(F) = n
    BY <1>1, <2>4, MinIs
  <2> QED
    BY <1>3, <2>2, <2>3
<1>10. ASSUME m # n PROVE e = m + 1 /\ bytes[e] = LF
  <2>1. m \in i .. n - 1 /\ bytes[m + 1] = LF
    BY <1>2, <1>6, <1>10
  <2>2. m + 1 \in F
    BY <1>1, <1>5, <2>1
  <2>3. \A j \in F : m + 1 <= j
    <3> SUFFICES ASSUME NEW j \in F PROVE m + 1 <= j
      OBVIOUS
    <3>1. CASE j = n
      BY <1>1, <2>1, <3>1
    <3>2. CASE j # n
      <4>1. j \in 1 .. n /\ j > i /\ bytes[j] = LF
        BY <1>4, <3>2
      <4>2. j - 1 \in i .. n - 1 /\ (j - 1) + 1 = j
        BY <1>1, <4>1
      <4>3. m <= j - 1
        BY <1>2, <1>7, <4>1, <4>2
      <4> QED
        BY <2>1, <4>1, <4>3
    <3> QED
      BY <3>1, <3>2
  <2>4. Min(F) = m + 1
    BY <1>1, <2>2, <2>3, MinIs
  <2> QED
    BY <1>3, <2>1, <2>4
<1>11. DelimiterEnd(bytes, i) = e
  BY <1>3, <1>9, <1>10 DEF DelimiterEnd, n
<1>12. e \in i + 1 .. n
  BY <1>1, <1>8, <1>9, <1>10
<1>13. e \in F /\ \A j \in F : e <= j
  BY <1>1, <1>3, LeastNatural DEF Min
<1>14. e \in Feeds(bytes) \cup {n} /\ \A j \in Feeds(bytes) : j > i => e <= j
  BY <1>13 DEF F
<1>15. LineText(bytes, i) = Content(bytes, i)
  <2> DEFINE line == SubSeq(bytes, i + 1, e)
             w == e - i
  <2>1. /\ line \in Seq(Byte) /\ Len(line) = w /\ w \in Nat /\ w >= 1
        /\ \A k \in 1 .. w : line[k] = bytes[i + k]
    <3>2. /\ i + 1 \in 1 .. Len(bytes) + 1 /\ e \in i .. Len(bytes)
      BY <1>1, <1>12 DEF n
    <3>3. line \in Seq(Byte) /\ Len(line) = w
      BY <1>1, <1>12, <3>2 DEF n
    <3>4. \A k \in 1 .. w : line[k] = bytes[i + k]
      BY <1>1, <1>12, <3>2 DEF n
    <3> QED
      BY <1>1, <1>12, <3>3, <3>4
  <2>2. <<LF>> \in Seq(Byte) /\ <<CR, LF>> \in Seq(Byte)
    BY DEF LF, CR, Byte
  <2>3. IsSuffix(<<LF>>, line) <=> bytes[e] = LF
    <3> HIDE DEF line
    <3>1. IsSuffix(<<LF>>, line) <=>
            (1 <= Len(line) /\ \A k \in 1 .. 1 : <<LF>>[(1 - k) + 1] = line[(Len(line) - k) + 1])
      BY <2>1, <2>2, SuffixIs
    <3>2. line[w] = bytes[e]
      BY <1>1, <1>12, <2>1
    <3> QED
      BY <2>1, <3>1, <3>2
  <2>4. IsSuffix(<<CR, LF>>, line) <=> (w >= 2 /\ bytes[e] = LF /\ bytes[e - 1] = CR)
    <3> HIDE DEF line
    <3>1. IsSuffix(<<CR, LF>>, line) <=>
            (2 <= Len(line) /\ \A k \in 1 .. 2 : <<CR, LF>>[(2 - k) + 1] = line[(Len(line) - k) + 1])
      BY <2>1, <2>2, SuffixIs
    <3>2. line[w] = bytes[e] /\ (w >= 2 => line[w - 1] = bytes[e - 1])
      BY <1>1, <1>12, <2>1
    <3>3. /\ <<CR, LF>>[(2 - 1) + 1] = LF /\ <<CR, LF>>[(2 - 2) + 1] = CR
          /\ (w - 1) + 1 = w /\ (w - 2) + 1 = w - 1 /\ 1 .. 2 = {1, 2}
      BY <2>1
    <3> QED
      BY <2>1, <3>1, <3>2, <3>3, SMTT(30)
  <2>5. Content(bytes, i) = IF IsSuffix(<<CR, LF>>, line) THEN Front(Front(line))
                            ELSE IF IsSuffix(<<LF>>, line) THEN Front(line) ELSE line
    BY DEF Content, e
  <2>6. w >= 1 => Front(line) = SubSeq(bytes, i + 1, e - 1)
    BY <1>1, <1>12, <2>1 DEF Front, n
  <2>7. w >= 2 => Front(Front(line)) = SubSeq(bytes, i + 1, e - 2)
    BY <1>1, <1>12, <2>1 DEF Front, n
  <2>8. LineText(bytes, i) = SubSeq(bytes, i + 1, ContentEnd(bytes, i))
    BY DEF LineText
  <2>9. CASE m = n
    <3>1. ContentEnd(bytes, i) = n
      BY <1>3, <2>9 DEF ContentEnd, n
    <3>2. bytes[e] # LF
      <4> SUFFICES ASSUME bytes[e] = LF PROVE FALSE
        OBVIOUS
      <4>1. e = n /\ n - 1 \in i .. n - 1 /\ (n - 1) + 1 = n
        BY <1>1, <1>9, <2>9
      <4>2. n - 1 \in T
        BY <1>7, <4>1
      <4> QED
        BY <1>1, <1>2, <2>9, <4>2
    <3> QED
      BY <1>9, <2>3, <2>4, <2>5, <2>8, <2>9, <3>1, <3>2
  <2>10. CASE m # n
    <3>1. e = m + 1 /\ bytes[e] = LF
      BY <1>10, <2>10
    <3>2. ContentEnd(bytes, i) = IF m > i /\ bytes[m] = CR THEN m - 1 ELSE m
      BY <1>3, <2>10 DEF ContentEnd, n
    <3>3. e - 1 = m /\ e - 2 = m - 1 /\ (w >= 2 <=> m > i)
      BY <1>1, <1>8, <3>1
    <3> HIDE DEF line, w
    <3> QED
      BY <2>1, <2>3, <2>4, <2>5, <2>6, <2>7, <2>8, <3>1, <3>2, <3>3
  <2> QED
    BY <2>9, <2>10
<1> QED
  BY <1>11, <1>12, <1>14, <1>15 DEF n, e

(* The ids of the line at i, and the lines without one.                     *)
LineIds(bytes, field, i) == RecordIds(Content(bytes, i), field)
Malformed(bytes, field) == {i \in Lines(bytes) : LineIds(bytes, field, i) = {}}

(* What was parsed follows the lines from i on.                             *)
ErrorFollows(bytes, field, i, p) ==
  /\ p.byte_offset \in Malformed(bytes, field) /\ p.byte_offset >= i
  /\ \A j \in Malformed(bytes, field) : j >= i => p.byte_offset <= j
SkippedFollow(bytes, field, i, p) ==
  \A j : (\E k \in 1 .. Len(p.skipped) : p.skipped[k] = j)
           <=> (j \in Malformed(bytes, field) /\ j >= i)
RecordsFollow(bytes, field, i, p) ==
  /\ \A j : (\E k \in 1 .. Len(p.records) : p.records[k].start_byte = j)
              <=> (j \in Lines(bytes) \ Malformed(bytes, field) /\ j >= i)
  /\ \A k \in 1 .. Len(p.records) - 1 : p.records[k].start_byte < p.records[k + 1].start_byte
FollowsLines(bytes, field, policy, i, p) ==
  /\ p.status # "ok" => policy = "error" /\ ErrorFollows(bytes, field, i, p)
  /\ p.status = "ok" => /\ SkippedFollow(bytes, field, i, p)
                        /\ RecordsFollow(bytes, field, i, p)
                        /\ policy = "error" => p.skipped = <<>>

(* An element put in front of a sequence.                                   *)
LEMMA InFront ==
  ASSUME NEW S, NEW s \in Seq(S), NEW x \in S
  PROVE  /\ Len(<<x>> \o s) = Len(s) + 1 /\ (<<x>> \o s)[1] = x
         /\ \A k \in 1 .. Len(s) : (<<x>> \o s)[k + 1] = s[k]
         /\ \A k \in 1 .. Len(s) + 1 : k = 1 \/ k - 1 \in 1 .. Len(s)
         /\ \A k \in 1 .. Len(s) + 1 : k # 1 => (<<x>> \o s)[k] = s[k - 1]
<1>1. <<x>> \in Seq(S) /\ Len(<<x>>) = 1 /\ Len(s) \in Nat
  OBVIOUS
<1>2. /\ Len(<<x>> \o s) = 1 + Len(s)
      /\ \A k \in 1 .. 1 + Len(s) :
           (<<x>> \o s)[k] = IF k <= 1 THEN <<x>>[k] ELSE s[k - 1]
  BY <1>1, ConcatProperties
<1>3. \A k \in 1 .. Len(s) : k + 1 \in 1 .. 1 + Len(s) /\ ~ (k + 1 <= 1) /\ (k + 1) - 1 = k
  BY <1>1
<1>4. 1 \in 1 .. 1 + Len(s) /\ Len(s) + 1 = 1 + Len(s)
  BY <1>1
<1>5. \A k \in 1 .. Len(s) + 1 : k # 1 => ~ (k <= 1)
  BY <1>1
<1>6. \A k \in 1 .. Len(s) + 1 : k = 1 \/ k - 1 \in 1 .. Len(s)
  BY <1>1
<1> DEFINE t == <<x>> \o s
<1> HIDE DEF t
<1>7. /\ Len(t) = 1 + Len(s)
      /\ \A k \in 1 .. 1 + Len(s) : t[k] = IF k <= 1 THEN <<x>>[k] ELSE s[k - 1]
  BY <1>2 DEF t
<1>8. t[1] = x
  BY <1>4, <1>7
<1>9. \A k \in 1 .. Len(s) : t[k + 1] = s[k]
  BY <1>3, <1>7
<1>10. \A k \in 1 .. Len(s) + 1 : k # 1 => t[k] = s[k - 1]
  BY <1>4, <1>5, <1>7
<1> QED
  BY <1>4, <1>6, <1>7, <1>8, <1>9, <1>10 DEF t

(* The lines from i on: the one at i, and those from its end on.            *)
LEMMA LinesFrom ==
  ASSUME NEW bytes \in Seq(Byte), NEW i \in 0 .. Len(bytes) - 1, i \in {0} \cup Feeds(bytes)
  PROVE  /\ i \in Lines(bytes) <=> Content(bytes, i) # <<>>
         /\ \A j \in Lines(bytes) : j \in Nat /\ (j >= i => j = i \/ j >= EndOf(bytes, i))
         /\ EndOf(bytes, i) > i /\ EndOf(bytes, i) \in Nat
<1>1. Lines(bytes) \subseteq {0} \cup Feeds(bytes) /\ Feeds(bytes) \subseteq Nat
  BY DEF Lines, Feeds
<1>2. /\ EndOf(bytes, i) \in i + 1 .. Len(bytes)
      /\ \A j \in Feeds(bytes) : j > i => EndOf(bytes, i) <= j
  BY LineIsContent
<1>3. i \in Nat /\ i < Len(bytes) /\ Len(bytes) \in Nat
  OBVIOUS
<1> DEFINE e == EndOf(bytes, i)
<1>4. e \in Nat /\ e > i
  BY <1>2, <1>3
<1>5. i \in Lines(bytes) <=> Content(bytes, i) # <<>>
  BY <1>3 DEF Lines
<1> HIDE DEF e
<1>6. ASSUME NEW j \in Lines(bytes)
      PROVE  j \in Nat /\ (j >= i => j = i \/ j >= e)
  <2>1. j \in Nat
    BY <1>1
  <2>2. j > i => j \in Feeds(bytes)
    BY <1>1, <1>3, <2>1
  <2> QED
    BY <1>2, <1>3, <1>4, <2>1, <2>2 DEF e
<1> QED
  BY <1>4, <1>5, <1>6 DEF e

(* One more line, in front of those that follow it.                         *)
LEMMA LineTaken ==
  ASSUME NEW bytes \in Seq(Byte), NEW field, NEW policy,
         NEW i \in 0 .. Len(bytes) - 1, i \in {0} \cup Feeds(bytes),
         NEW rest \in Givable(bytes, field),
         FollowsLines(bytes, field, policy, EndOf(bytes, i), rest)
  PROVE  FollowsLines(bytes, field, policy, i, Adding(bytes, i, field, policy, rest))
<1> DEFINE e == EndOf(bytes, i)
           M == Malformed(bytes, field)
           L == Lines(bytes)
           found == Found(bytes, field, i)
           R == {Found(bytes, field, j) : j \in 0 .. Len(bytes)}
           p == Adding(bytes, i, field, policy, rest)
           with == [rest EXCEPT !.records = <<found>> \o @]
           wrong == [status |-> "invalid_argument", records |-> <<>>, skipped |-> <<>>,
                     byte_offset |-> i]
           without == [rest EXCEPT !.skipped = <<i>> \o @]
<1>1. /\ i \in L <=> Content(bytes, i) # <<>>
      /\ \A j \in L : j \in Nat /\ (j >= i => j = i \/ j >= e)
      /\ e > i /\ e \in Nat /\ i \in Nat
  BY LinesFrom
<1>2. /\ M \subseteq L
      /\ i \in L => (i \in M <=> RecordIds(Content(bytes, i), field) = {})
  BY DEF Malformed, LineIds
<1>3. p = IF Content(bytes, i) = <<>> THEN rest
          ELSE IF RecordIds(Content(bytes, i), field) # {} THEN with
          ELSE IF policy = "error" THEN wrong ELSE without
  BY LineIsContent DEF Adding, Found
<1>4. rest.records \in Seq(R) /\ rest.skipped \in Seq(Nat) /\ rest.byte_offset \in Nat
  BY DEF Givable
<1>5. found \in R /\ found.start_byte = i
  <2>1. i \in 0 .. Len(bytes)
    OBVIOUS
  <2> HIDE DEF found
  <2>2. found \in R
    BY <2>1 DEF found
  <2>3. found.start_byte = i
    BY DEF found, Found, Record
  <2> QED
    BY <2>2, <2>3
<1>6. rest = [status |-> rest.status, records |-> rest.records, skipped |-> rest.skipped,
              byte_offset |-> rest.byte_offset]
  BY DEF Givable
<1>7. /\ with.status = rest.status /\ with.records = <<found>> \o rest.records
      /\ with.skipped = rest.skipped /\ with.byte_offset = rest.byte_offset
      /\ without.status = rest.status /\ without.records = rest.records
      /\ without.skipped = <<i>> \o rest.skipped /\ without.byte_offset = rest.byte_offset
  <2> HIDE DEF found
  <2> QED
    BY <1>6
<1>8. /\ rest.status # "ok" => policy = "error" /\ ErrorFollows(bytes, field, e, rest)
      /\ rest.status = "ok" => /\ SkippedFollow(bytes, field, e, rest)
                               /\ RecordsFollow(bytes, field, e, rest)
                               /\ policy = "error" => rest.skipped = <<>>
  BY DEF FollowsLines
<1> HIDE DEF e, M, L, found, R, p, with, without
<1>9. ASSUME i \notin M, NEW q, q.byte_offset = rest.byte_offset, ErrorFollows(bytes, field, e, rest)
      PROVE  ErrorFollows(bytes, field, i, q)
  BY <1>1, <1>2, <1>4, <1>9 DEF ErrorFollows, M
<1>10. ASSUME i \notin M, NEW q, q.skipped = rest.skipped, SkippedFollow(bytes, field, e, rest)
       PROVE  SkippedFollow(bytes, field, i, q)
  <2>1. \A j \in M : j >= i <=> j >= e
    BY <1>1, <1>2, <1>10
  <2> QED
    BY <1>10, <2>1 DEF SkippedFollow, M
<1>11. ASSUME i \notin L \/ i \in M, NEW q, q.records = rest.records,
              RecordsFollow(bytes, field, e, rest)
       PROVE  RecordsFollow(bytes, field, i, q)
  <2>1. \A j \in L \ M : j >= i <=> j >= e
    BY <1>1, <1>2, <1>11
  <2> QED
    BY <1>11, <2>1 DEF RecordsFollow, M, L
<1>12. CASE i \notin L
  <2>1. p = rest /\ i \notin M
    BY <1>1, <1>2, <1>3, <1>12
  <2> QED
    BY <1>8, <1>9, <1>10, <1>11, <1>12, <2>1 DEF FollowsLines, p
<1>13. CASE i \in L \ M
  <2>1. p = with
    BY <1>1, <1>2, <1>3, <1>13
  <2>2. ASSUME RecordsFollow(bytes, field, e, rest)
        PROVE  RecordsFollow(bytes, field, i, with)
    <3> DEFINE r == rest.records
               t == with.records
    <3>1. /\ r \in Seq(R) /\ Len(r) \in Nat /\ Len(t) = Len(r) + 1 /\ t[1] = found
          /\ \A k \in 1 .. Len(r) : t[k + 1] = r[k]
          /\ \A k \in 1 .. Len(r) + 1 : k = 1 \/ k - 1 \in 1 .. Len(r)
          /\ \A k \in 1 .. Len(r) + 1 : k # 1 => t[k] = r[k - 1]
      BY <1>4, <1>5, <1>7, InFront
    <3>2. /\ \A j : (\E k \in 1 .. Len(r) : r[k].start_byte = j) <=> (j \in L \ M /\ j >= e)
          /\ \A k \in 1 .. Len(r) - 1 : r[k].start_byte < r[k + 1].start_byte
      BY <2>2 DEF RecordsFollow, L, M
    <3> HIDE DEF r, t
    <3>3. \A j \in L \ M : j >= i <=> (j = i \/ j >= e)
      BY <1>1
    <3>4. ASSUME NEW j
          PROVE  (\E k \in 1 .. Len(t) : t[k].start_byte = j) <=> (j \in L \ M /\ j >= i)
      <4>1. ASSUME NEW k \in 1 .. Len(t), t[k].start_byte = j
            PROVE  j = i \/ (j \in L \ M /\ j >= e)
        BY <1>5, <3>1, <3>2, <4>1, ZenonT(40)
      <4>2. ASSUME j = i PROVE \E k \in 1 .. Len(t) : t[k].start_byte = j
        <5>1. 1 \in 1 .. Len(t)
          BY <3>1
        <5> QED
          BY <1>5, <3>1, <4>2, <5>1
      <4>3. ASSUME j \in L \ M, j >= e PROVE \E k \in 1 .. Len(t) : t[k].start_byte = j
        <5>1. PICK k \in 1 .. Len(r) : r[k].start_byte = j
          BY <3>2, <4>3
        <5>2. k + 1 \in 1 .. Len(t) /\ t[k + 1] = r[k]
          BY <3>1
        <5> QED
          BY <5>1, <5>2
      <4>4. i >= i
        BY <1>1
      <4> QED
        BY <1>13, <3>3, <4>1, <4>2, <4>3, <4>4
    <3>5. ASSUME NEW k \in 1 .. Len(t) - 1
          PROVE  t[k].start_byte < t[k + 1].start_byte
      <4>1. k \in 1 .. Len(r) /\ t[k + 1] = r[k]
        BY <3>1
      <4>2. CASE k = 1
        <5>1. r[k].start_byte \in L \ M /\ r[k].start_byte >= e
          BY <3>2, <4>1
        <5> QED
          BY <1>1, <1>5, <3>1, <4>1, <4>2, <5>1
      <4>3. CASE k # 1
        <5>1. k - 1 \in 1 .. Len(r) - 1 /\ (k - 1) + 1 = k /\ k \in 1 .. Len(r) + 1
          BY <3>1, <4>1, <4>3
        <5>2. t[k] = r[k - 1]
          BY <3>1, <4>3, <5>1
        <5>3. r[k - 1].start_byte < r[(k - 1) + 1].start_byte
          BY <3>2, <5>1
        <5> QED
          BY <4>1, <5>1, <5>2, <5>3
      <4> QED
        BY <4>2, <4>3
    <3> QED
      BY <3>4, <3>5 DEF RecordsFollow, t, L, M
  <2>3. i \notin M
    BY <1>13
  <2> QED
    BY <1>7, <1>8, <1>9, <1>10, <2>1, <2>2, <2>3 DEF FollowsLines, p
<1>14. CASE i \in M /\ policy = "error"
  <2>1. p = wrong
    BY <1>1, <1>2, <1>3, <1>14
  <2>2. ErrorFollows(bytes, field, i, wrong)
    BY <1>1, <1>14 DEF ErrorFollows, M
  <2> QED
    BY <1>14, <2>1, <2>2 DEF FollowsLines, p
<1>15. CASE i \in M /\ policy # "error"
  <2>1. p = without /\ rest.status = "ok"
    BY <1>1, <1>2, <1>3, <1>8, <1>15
  <2>2. SkippedFollow(bytes, field, i, without)
    <3> DEFINE s == rest.skipped
               t == without.skipped
    <3>1. /\ Len(s) \in Nat /\ Len(t) = Len(s) + 1 /\ t[1] = i
          /\ \A k \in 1 .. Len(s) : t[k + 1] = s[k]
          /\ \A k \in 1 .. Len(s) + 1 : k = 1 \/ k - 1 \in 1 .. Len(s)
          /\ \A k \in 1 .. Len(s) + 1 : k # 1 => t[k] = s[k - 1]
      <4>1. s \in Seq(Nat) /\ i \in Nat /\ t = <<i>> \o s
        BY <1>1, <1>4, <1>7
      <4>2. Len(s) \in Nat
        BY <4>1
      <4> HIDE DEF s, t
      <4>3. /\ Len(<<i>> \o s) = Len(s) + 1 /\ (<<i>> \o s)[1] = i
            /\ \A k \in 1 .. Len(s) : (<<i>> \o s)[k + 1] = s[k]
            /\ \A k \in 1 .. Len(s) + 1 : k = 1 \/ k - 1 \in 1 .. Len(s)
            /\ \A k \in 1 .. Len(s) + 1 : k # 1 => (<<i>> \o s)[k] = s[k - 1]
        BY <4>1, InFront
      <4> QED
        BY <4>1, <4>2, <4>3
    <3>2. \A j : (\E k \in 1 .. Len(s) : s[k] = j) <=> (j \in M /\ j >= e)
      BY <1>8, <2>1 DEF SkippedFollow, M
    <3> HIDE DEF s, t
    <3>3. \A j \in M : j >= i <=> (j = i \/ j >= e)
      BY <1>1, <1>2
    <3>4. ASSUME NEW j
          PROVE  (\E k \in 1 .. Len(t) : t[k] = j) <=> (j \in M /\ j >= i)
      <4>1. ASSUME NEW k \in 1 .. Len(t), t[k] = j
            PROVE  j = i \/ (j \in M /\ j >= e)
        BY <3>1, <3>2, <4>1
      <4>2. ASSUME j = i PROVE \E k \in 1 .. Len(t) : t[k] = j
        <5>1. 1 \in 1 .. Len(t)
          BY <3>1
        <5> QED
          BY <3>1, <4>2, <5>1
      <4>3. ASSUME j \in M, j >= e PROVE \E k \in 1 .. Len(t) : t[k] = j
        <5>1. PICK k \in 1 .. Len(s) : s[k] = j
          BY <3>2, <4>3
        <5>2. k + 1 \in 1 .. Len(t) /\ t[k + 1] = s[k]
          BY <3>1
        <5> QED
          BY <5>1, <5>2
      <4>4. i >= i
        BY <1>1
      <4> QED
        BY <1>15, <3>3, <4>1, <4>2, <4>3, <4>4
    <3> QED
      BY <3>4 DEF SkippedFollow, t, M
  <2>3. RecordsFollow(bytes, field, i, without)
    BY <1>7, <1>8, <1>11, <1>15, <2>1
  <2>4. FollowsLines(bytes, field, policy, i, without)
    BY <1>7, <1>15, <2>1, <2>2, <2>3 DEF FollowsLines
  <2>5. FollowsLines(bytes, field, policy, i, p)
    BY <2>1, <2>4
  <2> QED
    BY <2>5 DEF p
<1> QED
  BY <1>12, <1>13, <1>14, <1>15

(* The parser follows the lines of the whole buffer.                        *)
LEMMA ParserFollowsLines ==
  ASSUME NEW bytes \in Seq(Byte), NEW field, NEW policy
  PROVE  LET parsed == ParseRecords(bytes, field, policy)
         IN parsed \in Givable(bytes, field) /\ FollowsLines(bytes, field, policy, 0, parsed)
<1> DEFINE n == Len(bytes)
           begins == {0, n} \cup Feeds(bytes)
<1>1. PICK g : /\ ParseRecords(bytes, field, policy) = g[0]
               /\ g[n] = NothingParsed
               /\ \A i \in 0 .. n - 1 :
                    g[i] = Adding(bytes, i, field, policy, g[DelimiterEnd(bytes, i)])
               /\ \A i \in 0 .. n : g[i] \in Givable(bytes, field)
  BY ParserRuns
<1>2. n \in Nat
  OBVIOUS
<1> DEFINE S == {i \in 0 .. n : i \in begins => FollowsLines(bytes, field, policy, i, g[i])}
<1>3. ASSUME NEW i \in 0 .. n, \A j \in i + 1 .. n : j \in S
      PROVE  i \in S
  <2> SUFFICES ASSUME i \in begins PROVE FollowsLines(bytes, field, policy, i, g[i])
    OBVIOUS
  <2>1. CASE i = n
    <3>1. \A j \in Lines(bytes) : ~ (j >= n)
      BY <1>2 DEF Lines, Feeds
    <3>2. Malformed(bytes, field) \subseteq Lines(bytes)
      BY DEF Malformed
    <3>3. /\ NothingParsed.status = "ok" /\ NothingParsed.skipped = <<>>
          /\ NothingParsed.records = <<>> /\ Len(<<>>) = 0 /\ 1 .. 0 = {} /\ 1 .. 0 - 1 = {}
      BY DEF NothingParsed
    <3> QED
      BY <1>1, <2>1, <3>1, <3>2, <3>3 DEF FollowsLines, SkippedFollow, RecordsFollow
  <2>2. CASE i # n
    <3> DEFINE e == EndOf(bytes, i)
    <3>1. i \in 0 .. n - 1 /\ i \in {0} \cup Feeds(bytes)
      BY <1>2, <2>2
    <3>2. e \in i + 1 .. n /\ e \in begins /\ DelimiterEnd(bytes, i) = e
      BY <3>1, LineIsContent
    <3>3. e \in S
      <4> HIDE DEF S, e
      <4> QED
        BY <1>3, <3>2
    <3>4. e \in 0 .. n
      BY <3>3
    <3>5. FollowsLines(bytes, field, policy, e, g[e]) /\ g[e] \in Givable(bytes, field)
      <4>1. g[e] \in Givable(bytes, field)
        BY <1>1, <3>4
      <4> QED
        BY <3>2, <3>3, <4>1
    <3>6. g[i] = Adding(bytes, i, field, policy, g[e])
      BY <1>1, <3>1, <3>2
    <3> QED
      BY <3>1, <3>5, <3>6, LineTaken
  <2> QED
    BY <2>1, <2>2
<1>4. \A i \in 0 .. n : i \in S
  <2> HIDE DEF S, n
  <2>1. \A i \in 0 .. n : (\A j \in i + 1 .. n : j \in S) => i \in S
    BY <1>3
  <2> QED
    BY <1>2, <2>1, FromTheEnd
<1>5. 0 \in 0 .. n /\ 0 \in begins
  BY <1>2
<1> QED
  BY <1>1, <1>4, <1>5

(* What a handle says of its records.                                       *)
ParsedSoFar ==
  [status |-> "ok", records |-> records, skipped |-> diagnostics, byte_offset |-> 0]
RecordsAreLines ==
  active /\ input.record_mode = "ndjson" =>
    /\ ParsedSoFar \in Givable(buffer.data, input.record_id_field)
    /\ FollowsLines(buffer.data, input.record_id_field, input.malformed_record, 0, ParsedSoFar)
FailureIsALine ==
  ~ active /\ error.status = "invalid_argument" =>
    ErrorFollows(buffer.data, input.record_id_field, 0, error)

RecordsInv ==
  /\ source \in Sources
  /\ buffer.data \in Seq(Byte)
  /\ RecordsAreLines
  /\ FailureIsALine

(* The end of both opens.                                                   *)
LEMMA FinishTakesLines ==
  ASSUME NEW view, NEW wish, view.data \in Seq(Byte), Finish(view, wish)
  PROVE  /\ buffer'.data \in Seq(Byte)
         /\ RecordsAreLines' /\ FailureIsALine'
<1> DEFINE bytes == view.data
           field == wish.record_id_field
           policy == wish.malformed_record
<1>1. buffer' = view /\ input' = wish
  BY DEF Finish
<1> DEFINE given == IF wish.record_mode = "ndjson" THEN {ParseRecords(bytes, field, policy)}
                    ELSE {NothingParsed}
<1>0. PICK got \in given :
        /\ records' = IF got.status # "ok" THEN <<>> ELSE got.records
        /\ diagnostics' = IF got.status # "ok" THEN <<>> ELSE got.skipped
        /\ error' = IF got.status # "ok" THEN ErrorAt(got.status, got.byte_offset) ELSE NoError
        /\ active' = ~ (got.status # "ok")
  BY Zenon DEF Finish
<1>4. active' <=> got.status = "ok"
  BY <1>0
<1>2. CASE wish.record_mode # "ndjson"
  <2>1. active'
    <3>1. got = NothingParsed
      BY <1>0, <1>2
    <3> QED
      BY <1>4, <3>1 DEF NothingParsed
  <2> QED
    BY <1>1, <1>2, <2>1 DEF RecordsAreLines, FailureIsALine
<1>3. CASE wish.record_mode = "ndjson"
  <2> DEFINE parsed == ParseRecords(bytes, field, policy)
  <2>1. parsed \in Givable(bytes, field) /\ FollowsLines(bytes, field, policy, 0, parsed)
    BY ParserFollowsLines
  <2>2. /\ active' <=> parsed.status = "ok"
        /\ parsed.status = "ok" => records' = parsed.records /\ diagnostics' = parsed.skipped
        /\ parsed.status # "ok" => error' = ErrorAt(parsed.status, parsed.byte_offset)
    <3>1. got = parsed
      BY <1>0, <1>3
    <3> HIDE DEF parsed
    <3> QED
      BY <1>0, <1>4, <3>1
  <2> HIDE DEF parsed
  <2>3. ASSUME active' PROVE RecordsAreLines'
    <3> DEFINE p == ParsedSoFar'
    <3>1. /\ p.status = "ok" /\ p.records = parsed.records /\ p.skipped = parsed.skipped
          /\ parsed.status = "ok" /\ p.byte_offset = 0
          /\ p = [status |-> "ok", records |-> parsed.records, skipped |-> parsed.skipped,
                  byte_offset |-> 0]
      BY <2>2, <2>3 DEF ParsedSoFar
    <3> HIDE DEF p
    <3>2. p \in Givable(bytes, field)
      BY <2>1, <3>1 DEF Givable
    <3>3. FollowsLines(bytes, field, policy, 0, p)
      BY <2>1, <3>1 DEF FollowsLines, SkippedFollow, RecordsFollow
    <3> QED
      BY <1>1, <3>2, <3>3 DEF RecordsAreLines, p
  <2>4. ASSUME ~ active' PROVE FailureIsALine'
    <3>1. /\ ErrorFollows(bytes, field, 0, parsed)
          /\ error'.byte_offset = parsed.byte_offset
      BY <2>1, <2>2, <2>4 DEF FollowsLines, ErrorAt
    <3>2. ErrorFollows(bytes, field, 0, error')
      BY <3>1 DEF ErrorFollows
    <3> QED
      BY <1>1, <3>2 DEF FailureIsALine
  <2> QED
    BY <1>1, <2>3, <2>4 DEF RecordsAreLines, FailureIsALine
<1> QED
  BY <1>1, <1>2, <1>3

(* The parser's error is no error of the operating system.                  *)
LEMMA OpenStatus ==
  ASSUME NEW state, NEW bytes, NEW wish, NEW outcome \in Open(state, bytes, wish),
         outcome.status # "ok"
  PROVE  outcome.status # "invalid_argument"
<1> DEFINE closed == Close(state)
<1>1. CASE \E status \in {"invalid_configuration", "file_not_found", "io_error", "mapping_failed"} :
             outcome = Failed(closed, status)
  BY <1>1 DEF Failed
<1>2. CASE bytes = <<>> /\ outcome = Opened(closed, NoView)
  BY <1>2 DEF Opened, NoView
<1>3. CASE \E m \in Mapped(closed, bytes) : outcome = ReadMapped(m, bytes, wish)
  BY <1>3 DEF ReadMapped, Opened
<1> QED
  BY <1>1, <1>2, <1>3 DEF Open, closed

(* A call that changes neither the buffer nor what was parsed of it.        *)
LEMMA RefusedKeepsRecords ==
  ASSUME RecordsInv,
         UNCHANGED <<source, active, buffer, records, diagnostics, input>>,
         active \/ error'.status # "invalid_argument" \/ error' = error
  PROVE  RecordsInv'
BY DEF RecordsInv, RecordsAreLines, FailureIsALine, ParsedSoFar

(* open_path and open_buffer show the records of what they opened.          *)
LEMMA OpenTakesLines ==
  ASSUME RecordsInv, NEW wish, OpenPath(wish) \/ OpenBuffer(wish)
  PROVE  RecordsInv'
<1>1. CASE Refuse(wish)
  <2>1. active \/ error'.status # "invalid_argument"
    BY <1>1 DEF Refuse, RefusedWith, ErrorAt
  <2> QED
    BY <1>1, <2>1, RefusedKeepsRecords DEF OpenPath, OpenBuffer, Refuse, RefusedWith
<1>2. CASE ~ Refuse(wish) /\ OpenPath(wish)
  <2>1. PICK outcome \in Open(Holding, source.path, wish) :
          \/ /\ outcome.status # "ok" /\ active' = active
             /\ error' = ErrorAt(outcome.status, outcome.byte_offset)
             /\ buffer' = buffer
          \/ outcome.status = "ok" /\ Finish(outcome.view, wish)
    BY <1>2 DEF OpenPath
  <2>2. ~ active /\ ~ Conflicting(wish) /\ source' = source
    BY <1>2 DEF OpenPath
  <2>3. source.path \in Seq(Byte) /\ source \in Sources
    BY SourceAssumption DEF RecordsInv
  <2>4. CASE outcome.status # "ok"
    <3>1. ~ active' /\ error'.status # "invalid_argument" /\ buffer' = buffer
      BY <2>1, <2>2, <2>4, OpenStatus DEF ErrorAt
    <3> QED
      BY <2>2, <2>3, <3>1 DEF RecordsInv, RecordsAreLines, FailureIsALine
  <2>5. CASE outcome.status = "ok"
    <3>1. outcome.view.data \in Seq(Byte)
      BY <2>2, <2>3, <2>5, OpenFollowsPolicy
    <3> QED
      BY <2>1, <2>2, <2>3, <2>5, <3>1, FinishTakesLines DEF RecordsInv
  <2> QED
    BY <2>4, <2>5
<1>3. CASE ~ Refuse(wish) /\ OpenBuffer(wish)
  <2> DEFINE bytes == source.buffer
             view == BufferView(bytes, wish)
             policy == wish.invalid_utf8
  <2>1. /\ ~ active /\ ~ Conflicting(wish) /\ source' = source
        /\ IF policy = "error" /\ ~ Validates(view.data)
           THEN /\ error' = ErrorAt("invalid_utf8", ErrorOffset(view.data))
                /\ active' = active /\ buffer' = NoView
           ELSE Finish(view, wish)
    BY <1>3 DEF OpenBuffer
  <2>2. bytes \in Seq(Byte) /\ source \in Sources
    BY SourceAssumption DEF RecordsInv
  <2>3. view.data = IF policy = "error" THEN bytes ELSE RepairUtf8(bytes, policy).data
    BY <2>1 DEF BufferView, View, Conflicting
  <2>4. view.data \in Seq(Byte)
    BY <2>2, <2>3, RepairIsReference
  <2> HIDE DEF view, bytes
  <2>5. CASE policy = "error" /\ ~ Validates(view.data)
    <3>1. ~ active' /\ error'.status # "invalid_argument" /\ buffer'.data = <<>>
      BY <2>1, <2>5 DEF ErrorAt, NoView
    <3> QED
      BY <2>1, <2>2, <3>1 DEF RecordsInv, RecordsAreLines, FailureIsALine
  <2>6. CASE ~ (policy = "error" /\ ~ Validates(view.data))
    BY <2>1, <2>2, <2>4, <2>6, FinishTakesLines DEF RecordsInv
  <2> QED
    BY <2>5, <2>6
<1> QED
  BY <1>1, <1>2, <1>3

(* What the handle has parsed follows the lines of what it shows.           *)
THEOREM RecordsInvariant == AbiReaderSpec => []RecordsInv
<1>1. AbiReaderInit => RecordsInv
  BY DEF AbiReaderInit, RecordsInv, RecordsAreLines, FailureIsALine, NoError, NoView
<1>2. RecordsInv /\ [AbiReaderNext]_handle_vars => RecordsInv'
  <2> SUFFICES ASSUME RecordsInv, [AbiReaderNext]_handle_vars PROVE RecordsInv'
    OBVIOUS
  <2>1. CASE ClearError \/ UNCHANGED handle_vars
    BY <2>1, RefusedKeepsRecords DEF ClearError, handle_vars, NoError
  <2>2. CASE CloseReader \/ DestroyReader
    <3>1. ~ active' /\ error' = NoError /\ source' = source /\ buffer' = NoView
      BY <2>2 DEF CloseReader, DestroyReader
    <3> QED
      BY <3>1 DEF RecordsInv, RecordsAreLines, FailureIsALine, NoError, NoView
  <2> QED
    BY <2>1, <2>2, OpenTakesLines DEF AbiReaderNext
<1> QED
  BY <1>1, <1>2, PTL DEF AbiReaderSpec

(* The records and the skipped lines of an active NDJSON input are the      *)
(* lines of its buffer that are not empty, each once, in order, whole, and  *)
(* with an id the scanner finds; an open that failed on a line names the    *)
(* first malformed one.                                                     *)
(* Code: lines 217-290 of include/ndjson_parser.h and lines 234-252 of      *)
(* src/abi/spec_abi.cpp.                                                    *)
THEOREM ReaderRecordsFollowLines == AbiReaderSpec => []RecordsFollowLines
<1>1. RecordsInv => RecordsFollowLines
  <2> SUFFICES ASSUME RecordsInv PROVE RecordsFollowLines
    OBVIOUS
  <2> DEFINE bytes == buffer.data
             field == input.record_id_field
             malformed == Malformed(bytes, field)
             starts == [k \in DOMAIN records |-> records[k].start_byte]
             n == Len(records)
  <2>1. ASSUME active, input.record_mode = "ndjson"
        PROVE  /\ ToSet(diagnostics) = malformed
               /\ ToSet(starts) = Lines(bytes) \ malformed
               /\ \A k \in DOMAIN records :
                    /\ records[k].end_byte = EndOf(bytes, starts[k])
                    /\ records[k].text = Content(bytes, starts[k])
                    /\ records[k].record_id \in LineIds(bytes, field, starts[k])
               /\ \A k \in 1 .. Len(starts) - 1 : starts[k] < starts[k + 1]
               /\ input.malformed_record = "error" => diagnostics = <<>>
    <3>1. /\ bytes \in Seq(Byte)
          /\ records \in Seq({Found(bytes, field, i) : i \in 0 .. Len(bytes)})
          /\ diagnostics \in Seq(Nat)
          /\ SkippedFollow(bytes, field, 0, ParsedSoFar)
          /\ RecordsFollow(bytes, field, 0, ParsedSoFar)
          /\ input.malformed_record = "error" => diagnostics = <<>>
      BY <2>1 DEF RecordsInv, RecordsAreLines, Givable, FollowsLines, ParsedSoFar
    <3>2. /\ DOMAIN records = 1 .. n /\ n \in Nat /\ DOMAIN diagnostics = 1 .. Len(diagnostics)
          /\ DOMAIN starts = 1 .. n /\ Len(starts) = n
      <4>1. DOMAIN records = 1 .. n /\ n \in Nat /\ DOMAIN diagnostics = 1 .. Len(diagnostics)
        BY <3>1
      <4> HIDE DEF n
      <4>2. starts = [k \in 1 .. n |-> records[k].start_byte]
        BY <4>1
      <4> QED
        BY <4>1, <4>2
    <3>3. malformed \subseteq Lines(bytes) /\ \A j \in Lines(bytes) : j \in 0 .. Len(bytes) - 1
      BY <3>1 DEF Malformed, Lines, Feeds
    <3>4. \A j \in Lines(bytes) : j >= 0
      BY <3>3
    <3>5. \A j : (\E k \in 1 .. Len(diagnostics) : diagnostics[k] = j) <=> j \in malformed
      BY <3>1, <3>3, <3>4 DEF SkippedFollow, ParsedSoFar
    <3>6. /\ \A j : (\E k \in 1 .. n : records[k].start_byte = j)
                     <=> j \in Lines(bytes) \ malformed
          /\ \A k \in 1 .. n - 1 : records[k].start_byte < records[k + 1].start_byte
      BY <3>1, <3>3, <3>4 DEF RecordsFollow, ParsedSoFar
    <3> HIDE DEF n, malformed, bytes, field
    <3>7. ToSet(diagnostics) = malformed
      BY <3>2, <3>5 DEF ToSet
    <3>8. \A k \in 1 .. n : starts[k] = records[k].start_byte
      BY <3>2
    <3>9. ASSUME NEW k \in 1 .. n
          PROVE  /\ records[k].end_byte = EndOf(bytes, starts[k])
                 /\ records[k].text = Content(bytes, starts[k])
                 /\ records[k].record_id \in LineIds(bytes, field, starts[k])
      <4>1. PICK i \in 0 .. Len(bytes) : records[k] = Found(bytes, field, i)
        BY <3>1, <3>2
      <4>2. records[k].start_byte = i /\ records[k].end_byte = DelimiterEnd(bytes, i)
            /\ records[k].text = LineText(bytes, i)
            /\ records[k].record_id = CHOOSE id \in RecordIds(LineText(bytes, i), field) : TRUE
        BY <4>1 DEF Found, Record
      <4>3. i \in Lines(bytes) \ malformed /\ starts[k] = i
        BY <3>6, <3>8, <4>2
      <4>4. i \in 0 .. Len(bytes) - 1
        BY <3>3, <4>3
      <4>5. DelimiterEnd(bytes, i) = EndOf(bytes, i) /\ LineText(bytes, i) = Content(bytes, i)
        BY <3>1, <4>4, LineIsContent
      <4>6. LineIds(bytes, field, i) # {}
        BY <4>3 DEF malformed, Malformed
      <4>7. (CHOOSE id \in LineIds(bytes, field, i) : TRUE) \in LineIds(bytes, field, i)
        BY <4>6
      <4>8. LineIds(bytes, field, i) = RecordIds(LineText(bytes, i), field)
        BY <4>5 DEF LineIds
      <4> QED
        BY <4>2, <4>3, <4>5, <4>7, <4>8
    <3> HIDE DEF starts
    <3>10. ToSet(starts) = Lines(bytes) \ malformed
      BY <3>2, <3>6, <3>8, SMTT(30) DEF ToSet
    <3>11. ASSUME NEW k \in 1 .. n - 1 PROVE starts[k] < starts[k + 1]
      <4>1. k \in 1 .. n /\ k + 1 \in 1 .. n
        BY <3>2
      <4> QED
        BY <3>6, <3>8, <4>1
    <3> QED
      BY <3>1, <3>2, <3>7, <3>9, <3>10, <3>11
  <2>2. ASSUME ~ active, error.status = "invalid_argument"
        PROVE  malformed # {} /\ error.byte_offset = Min(malformed)
    <3>1. /\ error.byte_offset \in malformed
          /\ \A j \in malformed : j >= 0 => error.byte_offset <= j
      BY <2>2 DEF RecordsInv, FailureIsALine, ErrorFollows
    <3>2. malformed \subseteq Nat
      BY DEF RecordsInv, Malformed, Lines, Feeds
    <3>3. \A j \in malformed : j >= 0
      BY <3>2
    <3> HIDE DEF malformed
    <3> QED
      BY <3>1, <3>2, <3>3, MinIs
  <2> QED
    BY <2>1, <2>2 DEF RecordsFollowLines, Malformed, LineIds
<1> QED
  BY <1>1, RecordsInvariant, PTL

(* What a line holds is bytes.                                              *)
LEMMA ContentIsBytes ==
  ASSUME NEW bytes \in Seq(Byte), NEW i \in Lines(bytes)
  PROVE  Content(bytes, i) \in Seq(Byte)
<1>1. i \in 0 .. Len(bytes) - 1
  BY DEF Lines, Feeds
<1>2. Content(bytes, i) = LineText(bytes, i) /\ LineText(bytes, i) # <<>>
  BY <1>1, LineIsContent DEF Lines
<1> DEFINE e == ContentEnd(bytes, i)
<1>3. LineText(bytes, i) = SubSeq(bytes, i + 1, e)
  BY DEF LineText
<1>4. e \in Int /\ e <= Len(bytes)
  BY <1>1, LineEndsBehind DEF ContentEnd
<1> HIDE DEF e
<1>5. SubSeq(bytes, i + 1, e) \in Seq(Byte)
  BY <1>1, <1>4, SubSeqProperties
<1> QED
  BY <1>2, <1>3, <1>5

(* The options in force are the defaults or some the caller may give.       *)
InputIsGiven == source \in Sources /\ input \in source.options \cup {DefaultInput}

LEMMA InputInvariant == AbiReaderSpec => []InputIsGiven
<1>1. AbiReaderInit => InputIsGiven
  BY DEF AbiReaderInit, InputIsGiven
<1>2. InputIsGiven /\ [AbiReaderNext]_handle_vars => InputIsGiven'
  <2> SUFFICES ASSUME InputIsGiven, [AbiReaderNext]_handle_vars PROVE InputIsGiven'
    OBVIOUS
  <2>1. CASE ClearError \/ CloseReader \/ DestroyReader \/ UNCHANGED handle_vars
    BY <2>1 DEF ClearError, CloseReader, DestroyReader, handle_vars, InputIsGiven
  <2>2. ASSUME NEW wish \in source.options, OpenPath(wish) PROVE InputIsGiven'
    <3>1. source' = source /\ (input' = input \/ input' = wish)
      BY <2>2 DEF OpenPath, Refuse, RefusedWith, Finish
    <3> QED
      BY <3>1 DEF InputIsGiven
  <2>3. ASSUME NEW wish \in source.options, OpenBuffer(wish) PROVE InputIsGiven'
    <3>1. source' = source /\ (input' = input \/ input' = wish)
      BY <2>3 DEF OpenBuffer, Refuse, RefusedWith, Finish
    <3> QED
      BY <3>1 DEF InputIsGiven
  <2> QED
    BY <2>1, <2>2, <2>3 DEF AbiReaderNext
<1> QED
  BY <1>1, <1>2, PTL DEF AbiReaderSpec

(* Whatever an open left in the handle, the scanner finds an id in a line   *)
(* of it exactly when the line is one object of the dialect with a usable   *)
(* id, and it finds that one; of an object of JSON it finds the id that     *)
(* stands there, unless the line has a literal the dialect refuses.         *)
(* Code: lines 28-215 of include/ndjson_parser.h.                           *)
THEOREM ReaderJudgesByGrammar == AbiReaderSpec => []LinesAreJudgedByGrammar
<1>1. RecordsInv /\ InputIsGiven => LinesAreJudgedByGrammar
  <2> SUFFICES ASSUME RecordsInv, InputIsGiven, NEW i \in Lines(buffer.data)
               PROVE  LET line == Content(buffer.data, i)
                          field == input.record_id_field
                          ids == RecordIds(line, field)
                      IN /\ ids = DialectIds(line, field)
                         /\ \A one, other \in ids : one = other
                         /\ JsonObjects(line) # {} =>
                              ids = IF HasRefusedLiteral(line) THEN {}
                                    ELSE IdsOf(JsonObjects(line), field)
    BY DEF LinesAreJudgedByGrammar
  <2>1. input.record_id_field \in Seq(Byte)
    <3>1. CASE input = DefaultInput
      BY <3>1 DEF DefaultInput
    <3>2. CASE input \in source.options
      <4>1. input \in ReaderOption
        BY <3>2, SourceAssumption DEF InputIsGiven
      <4> DEFINE Fields == Seq(Byte)
      <4>2. input \in [mode : {"zero_copy", "copy"}, invalid_utf8 : {"error", "replace", "skip"},
                       record_mode : {"none", "ndjson"}, record_id_field : Fields,
                       malformed_record : {"error", "skip"}]
        BY <4>1 DEF ReaderOption
      <4> HIDE DEF Fields
      <4>3. input.record_id_field \in Fields
        BY <4>2
      <4> QED
        BY <4>3 DEF Fields
    <3> QED
      BY <3>1, <3>2 DEF InputIsGiven
  <2>2. Content(buffer.data, i) \in Seq(Byte)
    BY ContentIsBytes DEF RecordsInv
  <2> QED
    BY <2>1, <2>2, ScannerFollowsGrammar
<1> QED
  BY <1>1, RecordsInvariant, InputInvariant, PTL
-----------------------------------------------------------------------------
(* The chunker and stream handles: the inductive invariant, part by part.   *)

(* Windows of the records up to r.                                          *)
Before(r) == Len(FlattenSeq(SubSeq(RecordWindows, 1, r)))

Answers ==
  UNION {{RecordWindows[r][k] : k \in 1 .. WindowCount(options, Len(vectors[r]))} :
           r \in 1 .. Len(vectors)}
WithoutWarning(answer) == Located(answer.record, Plain(answer.chunk))

RequestShape ==
  /\ options \in Option /\ ValidOption(options)
  /\ vectors \in Seq(Seq(Token))
  /\ \A r \in 1 .. Len(vectors) : FitsMemory(vectors[r])
  /\ ndjson \in BOOLEAN
  /\ ~ ndjson => Len(vectors) = 1

(* Streams of an open handle that have ended.                               *)
Finished == IF ndjson THEN record_index ELSE IF has_stream THEN 0 ELSE 1

RecordStream ==
  [start_token_idx : Nat, chunk_index : ChunkIndex, is_cancelled : BOOLEAN]

HandleShape ==
  /\ handle \in {"none", "open", "released"}
  /\ at \in {"pulling", "emitting"} => handle = "open"
  /\ handle = "none" => record_index = 0 /\ delivered = <<>> /\ returned = "nothing"
                        /\ ~ cancelled
  /\ handle = "open" =>
       /\ streams \in Seq(RecordStream)
       /\ Len(streams) = Len(vectors)
       /\ record_index \in 0 .. Len(vectors)
       /\ has_stream \in BOOLEAN
       /\ ndjson => ~ has_stream
       /\ ~ ndjson => record_index = 0
  /\ at = "emitting" => Active # 0 /\ ~ streams[Active].is_cancelled

(* Every answer so far is the next window of the records.                   *)
DeliveredInOrder ==
  /\ delivered \in Seq(Answers)
  /\ Len(delivered) <= Len(Everything)
  /\ \A k \in 1 .. Len(delivered) : delivered[k] = Everything[k]

(* The active stream is at the window after those it gave, the streams that *)
(* follow it at their beginning.                                            *)
StreamsAtNextWindow ==
  handle = "open" =>
    /\ Before(Finished) <= Len(delivered)
    /\ Active = 0 => Len(delivered) = Len(Everything)
    /\ Active # 0 =>
         LET stream == streams[Active]
             given == Len(delivered) - Before(Finished)
         IN /\ stream.start_token_idx < Len(vectors[Active]) =>
                 AtWindow(options, vectors[Active], given, stream.start_token_idx)
            /\ stream.start_token_idx >= Len(vectors[Active]) =>
                 given = WindowCount(options, Len(vectors[Active]))
            /\ stream.chunk_index = given % IndexModulus
    /\ \A r \in Finished + 2 .. Len(vectors) :
         streams[r].start_token_idx = 0 /\ streams[r].chunk_index = 0

FinalAnswers ==
  /\ returned = "end" =>
       /\ delivered = Everything
       /\ handle = "released" \/ (handle = "open" /\ Active = 0)
  /\ returned = "cancelled" =>
       handle = "released" \/ (handle = "open" /\ Active # 0 /\ streams[Active].is_cancelled)
  /\ cancelled =>
       \/ handle = "released"
       \/ /\ handle = "open"
          /\ Active = 0 \/ \A k \in 1 .. Len(streams) : streams[k].is_cancelled

RunShape ==
  /\ result \in [status : {"none", "pending", "ok", "tokenizer_error", "cancelled"},
                 chunks : Seq({WithoutWarning(a) : a \in Answers})]
  /\ at = "running" <=> result.status = "pending"
  /\ result.status = "none" => run_index = 0
  /\ run_index \in 0 .. Len(vectors)
  /\ Len(result.chunks) = Before(run_index)
  /\ \A k \in 1 .. Len(result.chunks) : result.chunks[k] = WithoutWarning(Everything[k])
  /\ result.status = "ok" => run_index = Len(vectors)

AbiStreamInv ==
  /\ RequestShape
  /\ HandleShape
  /\ DeliveredInOrder
  /\ StreamsAtNextWindow
  /\ FinalAnswers
  /\ RunShape

-----------------------------------------------------------------------------
(* The windows of the records.                                              *)

(* A window that begins before the end of the tokens is one of those the    *)
(* closed form counts.                                                      *)
LEMMA WindowIsCounted ==
  ASSUME NEW o \in Option, ValidOption(o), NEW tokens \in Seq(Token),
         NEW k \in Nat, NEW s \in Nat, AtWindow(o, tokens, k, s)
  PROVE  k + 1 \in 1 .. WindowCount(o, Len(tokens))
<1> DEFINE n == Len(tokens)
           d == Stride(o)
           e == o.overlap_tokens
           count == WindowCount(o, n)
<1>1. /\ o.max_tokens \in Nat \ {0} /\ e \in Nat /\ d \in Nat \ {0}
      /\ o.max_tokens = d + e /\ n \in Nat
  BY StrideType
<1>2. s = k * d /\ s < n /\ (k > 0 => s + e < n)
  BY DEF AtWindow
<1>3. count \in Nat
  BY <1>1, WindowCountType
<1> HIDE DEF d
<1>4. CASE n <= o.max_tokens
  <2>1. count = 1
    BY <1>1, <1>2, <1>4 DEF WindowCount
  <2>2. k = 0
    <3> SUFFICES ASSUME k >= 1 PROVE FALSE
      OBVIOUS
    <3>1. 1 * d <= k * d
      BY <1>1, ProductMonotone
    <3>2. d <= s /\ s \in Nat
      BY <1>1, <1>2, <3>1
    <3> HIDE DEF n, e
    <3> QED
      BY <1>1, <1>2, <1>4, <3>2
  <2> QED
    BY <2>1, <2>2
<1>5. CASE n > o.max_tokens
  <2> DEFINE x == n - e - 1
             q == x \div d
             rest == x % d
  <2>1. x \in Nat /\ k * d <= x
    <3> HIDE DEF n, e
    <3> QED
      BY <1>1, <1>2, <1>5
  <2>2. n # 0 /\ ~ (n <= o.max_tokens)
    BY <1>1, <1>5
  <2>3. count = q + 1
    BY <2>2 DEF WindowCount, d
  <2> HIDE DEF x
  <2>4. q \in Int /\ rest \in 0 .. d - 1 /\ x = q * d + rest
    BY <1>1, <2>1
  <2> HIDE DEF q, rest
  <2>5. k <= q
    <3> SUFFICES ASSUME q + 1 <= k PROVE FALSE
      BY <2>4
    <3>1. (q + 1) * d <= k * d
      BY <1>1, <2>4, ProductMonotone
    <3>2. (q + 1) * d = q * d + d
      BY <1>1, <2>4
    <3>3. q * d \in Int /\ k * d \in Int
      BY <1>1, <2>4
    <3> QED
      BY <1>1, <2>1, <2>4, <3>1, <3>2, <3>3
  <2> QED
    BY <1>3, <2>3, <2>4, <2>5
<1> QED
  BY <1>1, <1>4, <1>5

(* The chunk of the window that a stream is at, and the stream afterwards.  *)
LEMMA StreamWindow ==
  ASSUME NEW o \in Option, ValidOption(o), NEW tokens \in Seq(Token), FitsMemory(tokens),
         NEW k \in Nat, NEW s \in Nat, AtWindow(o, tokens, k, s)
  PROVE  /\ ChunkAt(tokens, s, WindowEnd(o, tokens, s), k % IndexModulus,
                    IsOversized(o, tokens, s)) = RefChunk(o, tokens, k)
         /\ NextStart(o, tokens, s) \in Nat
         /\ NextStart(o, tokens, s) < Len(tokens) =>
              AtWindow(o, tokens, k + 1, NextStart(o, tokens, s))
         /\ NextStart(o, tokens, s) >= Len(tokens) => WindowCount(o, Len(tokens)) = k + 1
<1> DEFINE end == WindowEnd(o, tokens, s)
           next == NextStart(o, tokens, s)
<1>1. /\ s = RefFirst(o, k) /\ end = RefLast(o, Len(tokens), k)
      /\ end \in s + 1 .. Len(tokens)
      /\ end = Len(tokens) => next = Len(tokens)
      /\ end # Len(tokens) =>
           /\ end = s + o.max_tokens /\ next = end - o.overlap_tokens
           /\ AtWindow(o, tokens, k + 1, next)
  BY WindowStep
<1>2. ChunkAt(tokens, s, end, k % IndexModulus, IsOversized(o, tokens, s))
        = RefChunk(o, tokens, k)
  BY <1>1 DEF RefChunk, IsOversized
<1>3. Len(tokens) \in Nat /\ o.max_tokens \in Nat /\ o.overlap_tokens \in Nat
      /\ o.max_tokens >= o.overlap_tokens
  BY StrideType DEF ValidOption
<1>4. next \in Nat
  BY <1>1, <1>3
<1>5. end = Len(tokens) => WindowCount(o, Len(tokens)) = k + 1
  BY LastWindow
<1>6. AtWindow(o, tokens, k + 1, next) => next < Len(tokens)
  BY DEF AtWindow
<1> QED
  BY <1>1, <1>2, <1>3, <1>4, <1>5, <1>6

(* What the request says of one record.                                     *)
LEMMA RecordFacts ==
  ASSUME RequestShape, NEW r \in 1 .. Len(vectors)
  PROVE  /\ vectors[r] \in Seq(Token) /\ FitsMemory(vectors[r])
         /\ Len(vectors[r]) \in Nat
         /\ WindowCount(options, Len(vectors[r])) \in Nat
<1>1. vectors[r] \in Seq(Token) /\ FitsMemory(vectors[r])
  BY DEF RequestShape
<1>2. Len(vectors[r]) \in Nat
  BY <1>1
<1> QED
  BY <1>1, <1>2, WindowCountType DEF RequestShape

(* Where the windows of each record lie among all of them.                  *)
LEMMA Layout ==
  ASSUME RequestShape
  PROVE  /\ Everything \in Seq(Answers)
         /\ Before(0) = 0 /\ Before(Len(vectors)) = Len(Everything)
         /\ \A r \in 0 .. Len(vectors) : Before(r) \in Nat
         /\ \A r \in 1 .. Len(vectors) :
              Before(r) = Before(r - 1) + WindowCount(options, Len(vectors[r]))
         /\ \A r \in 0 .. Len(vectors) : Before(r) <= Len(Everything)
         /\ \A r \in 1 .. Len(vectors) :
              \A k \in 1 .. WindowCount(options, Len(vectors[r])) :
                Everything[Before(r - 1) + k]
                  = Located(r, RefChunk(options, vectors[r], k - 1))
         /\ \A i \in 1 .. Len(Everything) : \A r \in 0 .. Len(vectors) :
              i <= Before(r) <=> Everything[i].record <= r
<1> DEFINE n == Len(vectors)
           W == RecordWindows
           Count(r) == WindowCount(options, Len(vectors[r]))
           B == [m \in 0 .. Len(W) |-> Len(FlattenSeq(SubSeq(W, 1, m)))]
<1>1. n \in Nat
  BY DEF RequestShape
<1>2. \A r \in 1 .. n : Count(r) \in Nat
  BY RecordFacts
<1>3. \A r \in 1 .. n : \A k \in 1 .. Count(r) : W[r][k] \in Answers
  BY DEF Answers
<1>4. \A r \in 1 .. n : W[r] = [k \in 1 .. Count(r) |->
                                  Located(r, RefChunk(options, vectors[r], k - 1))]
  BY DEF RecordWindows
<1>5. W = [r \in 1 .. n |-> W[r]]
  BY DEF RecordWindows
<1>6. Everything = FlattenSeq(W)
  BY DEF Everything
<1>7. \A r : Before(r) = Len(FlattenSeq(SubSeq(W, 1, r)))
  BY DEF Before
<1> HIDE DEF W, Count
<1>8. \A r \in 1 .. n : W[r] \in Seq(Answers) /\ Len(W[r]) = Count(r)
  <2> SUFFICES ASSUME NEW r \in 1 .. n PROVE W[r] \in Seq(Answers) /\ Len(W[r]) = Count(r)
    OBVIOUS
  <2>1. Count(r) \in Nat /\ W[r] \in [1 .. Count(r) -> Answers]
    BY <1>2, <1>3, <1>4
  <2> QED
    BY <2>1
<1>9. W \in Seq(Seq(Answers)) /\ Len(W) = n
  <2>1. W \in [1 .. n -> Seq(Answers)]
    BY <1>5, <1>8
  <2> QED
    BY <1>1, <2>1
<1>10. /\ Everything \in Seq(Answers)
       /\ B[0] = 0 /\ B[n] = Len(Everything)
       /\ \A r \in 0 .. n : B[r] \in Nat
       /\ \A r \in 1 .. n : B[r] = B[r - 1] + Count(r)
       /\ \A r \in 0 .. n : \A l \in 0 .. r : B[l] <= B[r]
       /\ \A r \in 1 .. n : \A k \in 1 .. Count(r) : Everything[B[r - 1] + k] = W[r][k]
       /\ \A i \in 1 .. Len(Everything) : \E r \in 1 .. n : B[r - 1] < i /\ i <= B[r]
  <2> HIDE DEF n, B
  <2>1. B = [m \in 0 .. Len(W) |-> Len(FlattenSeq(SubSeq(W, 1, m)))]
    BY DEF B
  <2>2. /\ Everything \in Seq(Answers)
        /\ B[0] = 0 /\ B[Len(W)] = Len(Everything)
        /\ \A r \in 0 .. Len(W) : B[r] \in Nat
        /\ \A r \in 1 .. Len(W) : B[r] = B[r - 1] + Len(W[r])
        /\ \A r \in 0 .. Len(W) : \A l \in 0 .. r : B[l] <= B[r]
        /\ \A r \in 1 .. Len(W) : \A k \in 1 .. Len(W[r]) : Everything[B[r - 1] + k] = W[r][k]
        /\ \A i \in 1 .. Len(Everything) : \E r \in 1 .. Len(W) : B[r - 1] < i /\ i <= B[r]
    <3>1. Everything \in Seq(Answers) /\ LaidOut(W, Everything, B)
      BY <1>6, <1>9, <2>1, LaidEndToEnd
    <3> QED
      BY <3>1 DEF LaidOut
  <2>3. Len(W) = n /\ \A r \in 1 .. n : Len(W[r]) = Count(r)
    BY <1>8, <1>9
  <2> QED
    BY <2>2, <2>3
<1>11. \A r \in 0 .. n : Before(r) = B[r]
  BY <1>7, <1>9
<1>12. 0 \in 0 .. n /\ n \in 0 .. n /\ \A r \in 1 .. n : r \in 0 .. n /\ r - 1 \in 0 .. n
  BY <1>1
<1> HIDE DEF n, B
<1>13. ASSUME NEW r \in 1 .. n, NEW k \in 1 .. Count(r)
       PROVE  Everything[Before(r - 1) + k] = Located(r, RefChunk(options, vectors[r], k - 1))
  <2>1. W[r][k] = Located(r, RefChunk(options, vectors[r], k - 1))
    BY <1>4, Zenon
  <2>2. Before(r - 1) = B[r - 1]
    BY <1>11, <1>12
  <2> QED
    BY <1>10, <2>1, <2>2
<1>14. ASSUME NEW i \in 1 .. Len(Everything), NEW r \in 0 .. n
       PROVE  i <= Before(r) <=> Everything[i].record <= r
  <2>1. PICK m \in 1 .. n : B[m - 1] < i /\ i <= B[m]
    BY <1>10
  <2>2. /\ B[m] \in Nat /\ B[m - 1] \in Nat /\ B[m] = B[m - 1] + Count(m) /\ Count(m) \in Nat
        /\ B[r] \in Nat /\ i \in Nat /\ r \in Nat /\ m \in Nat
    BY <1>1, <1>2, <1>10, <1>12 DEF n
  <2>3. i - B[m - 1] \in 1 .. Count(m) /\ B[m - 1] + (i - B[m - 1]) = i
    BY <2>1, <2>2
  <2>4. Everything[i].record = m
    <3>1. Everything[B[m - 1] + (i - B[m - 1])] = W[m][i - B[m - 1]]
      BY <1>10, <2>3
    <3>2. W[m][i - B[m - 1]]
            = Located(m, RefChunk(options, vectors[m], (i - B[m - 1]) - 1))
      BY <1>4, <2>3, Zenon
    <3>3. W[m][i - B[m - 1]].record = m
      BY <3>2 DEF Located
    <3> QED
      BY <2>3, <3>1, <3>3
  <2>5. CASE m <= r
    <3>1. B[m] <= B[r]
      <4>1. m \in 0 .. r
        BY <2>2, <2>5
      <4> QED
        BY <1>10, <4>1
    <3> QED
      BY <1>11, <2>1, <2>2, <2>4, <2>5, <3>1
  <2>6. CASE r < m
    <3>1. B[r] <= B[m - 1]
      <4>1. r \in 0 .. m - 1
        BY <2>2, <2>6
      <4> QED
        BY <1>10, <1>12, <4>1
    <3> QED
      BY <1>11, <2>1, <2>2, <2>4, <2>6, <3>1
  <2> QED
    BY <2>2, <2>5, <2>6
<1>15. \A r \in 0 .. n : Before(r) <= Len(Everything)
  <2> SUFFICES ASSUME NEW r \in 0 .. n PROVE B[r] <= B[n]
    BY <1>10, <1>11
  <2>1. r \in 0 .. n /\ n \in 0 .. n
    BY <1>12
  <2> QED
    BY <1>10, <2>1
<1> QED
  <2>1. \A r \in 1 .. n : Before(r) = Before(r - 1) + Count(r)
    BY <1>10, <1>11, <1>12
  <2> QED
    BY <1>10, <1>11, <1>12, <1>13, <1>14, <1>15, <2>1 DEF n, Count

-----------------------------------------------------------------------------
(* The steps.                                                               *)

(* The stream asked next is the first that has not ended.                   *)
LEMMA ActiveIsNext ==
  ASSUME RequestShape, HandleShape, handle = "open"
  PROVE  /\ Len(vectors) \in Nat /\ Len(streams) = Len(vectors)
         /\ Finished \in 0 .. Len(vectors)
         /\ Finished = Len(vectors) => Active = 0
         /\ Finished # Len(vectors) => Active = Finished + 1 /\ Active \in 1 .. Len(vectors)
BY DEF RequestShape, HandleShape, Finished, Active

(* The request does not change, nor do its windows.                         *)
LEMMA RequestKept ==
  ASSUME RequestShape, UNCHANGED request
  PROVE  /\ RequestShape'
         /\ Everything' = Everything /\ Answers' = Answers
         /\ \A r : Before(r)' = Before(r)
BY DEF request, RequestShape, Everything, Answers, Before, RecordWindows

(* chunker_run and the error slots leave the handle alone.                  *)
LEMMA HandleKept ==
  ASSUME AbiStreamInv, UNCHANGED <<request, handle_state>>,
         at' = at \/ at' \in {"idle", "running"}
  PROVE  RequestShape' /\ HandleShape' /\ DeliveredInOrder' /\ StreamsAtNextWindow'
         /\ FinalAnswers'
<1> USE DEF handle_state
<1>1. /\ RequestShape' /\ Everything' = Everything /\ Answers' = Answers
      /\ \A r : Before(r)' = Before(r)
  BY RequestKept DEF AbiStreamInv
<1>2. Active' = Active /\ Finished' = Finished /\ UNCHANGED <<options, vectors, ndjson>>
  BY DEF request, Active, Finished
<1>3. HandleShape'
  BY <1>2 DEF AbiStreamInv, HandleShape
<1>4. DeliveredInOrder'
  BY <1>1 DEF AbiStreamInv, DeliveredInOrder
<1>5. StreamsAtNextWindow'
  BY <1>1, <1>2 DEF AbiStreamInv, StreamsAtNextWindow, AtWindow
<1>6. FinalAnswers'
  BY <1>1, <1>2 DEF AbiStreamInv, FinalAnswers
<1> QED
  BY <1>1, <1>3, <1>4, <1>5, <1>6

(* The stream handle leaves the result of chunker_run alone.                *)
LEMMA RunKept ==
  ASSUME AbiStreamInv, UNCHANGED <<request, run_state>>,
         at' = "running" <=> at = "running"
  PROVE  RequestShape' /\ RunShape'
<1>1. /\ RequestShape' /\ Everything' = Everything /\ Answers' = Answers
      /\ \A r : Before(r)' = Before(r)
  BY RequestKept DEF AbiStreamInv
<1>2. UNCHANGED <<vectors, run_index, result>>
  BY DEF request, run_state
<1> QED
  BY <1>1, <1>2 DEF AbiStreamInv, RunShape, WithoutWarning

(* A call of stream_next that neither ends a stream nor gives a chunk.      *)
LEMMA StreamAnswersStep ==
  ASSUME AbiStreamInv, CallStreamNext \/ NoStreamLeft \/ StreamCancelled \/ StreamAdmitted
  PROVE  AbiStreamInv'
<1> USE DEF Keeping
<1>1. /\ handle = "open" /\ RequestShape /\ HandleShape
      /\ UNCHANGED <<request, handle, cancelled, run_state, has_stream, record_index, delivered>>
  BY DEF AbiStreamInv, HandleShape, CallStreamNext, NoStreamLeft, StreamCancelled, StreamAdmitted
<1>2. at # "running" /\ at' # "running"
  BY DEF CallStreamNext, NoStreamLeft, StreamCancelled, StreamAdmitted
<1>3. RequestShape' /\ RunShape'
  BY <1>1, <1>2, RunKept
<1>4. /\ Everything' = Everything /\ Answers' = Answers /\ \A r : Before(r)' = Before(r)
      /\ UNCHANGED <<options, vectors, ndjson>>
  BY <1>1, RequestKept DEF request
<1>5. /\ Len(vectors) \in Nat /\ Len(streams) = Len(vectors)
      /\ Finished = Len(vectors) => Active = 0
      /\ Finished # Len(vectors) => Active = Finished + 1 /\ Active \in 1 .. Len(vectors)
  BY <1>1, ActiveIsNext
<1>6. /\ streams \in Seq(RecordStream)
      /\ record_index \in 0 .. Len(vectors) /\ has_stream \in BOOLEAN
      /\ ndjson => ~ has_stream
      /\ ~ ndjson => record_index = 0
  BY <1>1 DEF HandleShape
<1>7. /\ streams' \in Seq(RecordStream)
      /\ Len(streams') = Len(streams)
      /\ \A r \in 1 .. Len(streams) :
           /\ streams'[r].start_token_idx = streams[r].start_token_idx
           /\ streams'[r].chunk_index = streams[r].chunk_index
           /\ streams[r].is_cancelled => streams'[r].is_cancelled
  <2>1. CASE streams' = streams
    BY <1>6, <2>1
  <2>2. CASE streams' # streams
    <3>1. StreamCancelled
      BY <2>2 DEF CallStreamNext, NoStreamLeft, StreamAdmitted
    <3>2. Active \in 1 .. Len(streams) /\ streams' = [streams EXCEPT ![Active].is_cancelled = TRUE]
      BY <1>5, <3>1 DEF StreamCancelled
    <3> HIDE DEF Active
    <3> DEFINE stream == [streams[Active] EXCEPT !.is_cancelled = TRUE]
    <3>3. /\ stream \in RecordStream /\ streams \in Seq(RecordStream)
          /\ stream.start_token_idx = streams[Active].start_token_idx
          /\ stream.chunk_index = streams[Active].chunk_index
          /\ stream.is_cancelled
      <4>1. streams[Active] \in RecordStream
        BY <1>6, <3>2
      <4> QED
        BY <1>6, <4>1 DEF RecordStream
    <3>4. streams' = [streams EXCEPT ![Active] = stream]
      BY <3>2
    <3> HIDE DEF stream
    <3>5. /\ streams' \in Seq(RecordStream) /\ Len(streams') = Len(streams)
          /\ \A r \in 1 .. Len(streams) : streams'[r] = IF r = Active THEN stream ELSE streams[r]
      <4> DEFINE updated == [streams EXCEPT ![Active] = stream]
      <4>1. /\ updated \in Seq(RecordStream) /\ Len(updated) = Len(streams)
            /\ \A r \in 1 .. Len(streams) : updated[r] = IF r = Active THEN stream ELSE streams[r]
        BY <1>6, <3>2, <3>3, ExceptSeq
      <4> HIDE DEF updated
      <4>2. streams' = updated
        BY <3>4 DEF updated
      <4> QED
        BY <4>1, <4>2
    <3> QED
      BY <3>3, <3>5
  <2> QED
    BY <2>1, <2>2
<1>8. Active' = Active /\ Finished' = Finished
  BY <1>1, <1>4, <1>7 DEF Active, Finished
<1>9. at' = "emitting" => Active' # 0 /\ ~ streams'[Active'].is_cancelled
  BY <1>8 DEF CallStreamNext, NoStreamLeft, StreamCancelled, StreamAdmitted
<1>10. HandleShape'
  BY <1>1, <1>4, <1>5, <1>6, <1>7, <1>9 DEF HandleShape
<1>11. DeliveredInOrder'
  BY <1>1, <1>4 DEF AbiStreamInv, DeliveredInOrder
<1>12. StreamsAtNextWindow'
  <2>1. \A r \in Finished + 2 .. Len(vectors) : r \in 1 .. Len(streams)
    BY <1>1, <1>5, ActiveIsNext
  <2> HIDE DEF Keeping
  <2> QED
    BY <1>1, <1>4, <1>5, <1>7, <1>8, <2>1 DEF AbiStreamInv, StreamsAtNextWindow, AtWindow
<1>13. FinalAnswers'
  <2>1. NoStreamLeft => Active = 0 /\ delivered = Everything
    <3> SUFFICES ASSUME NoStreamLeft PROVE Active = 0 /\ delivered = Everything
      OBVIOUS
    <3>1. Active = 0
      BY DEF NoStreamLeft
    <3>2. Len(delivered) = Len(Everything) /\ \A k \in 1 .. Len(delivered) : delivered[k] = Everything[k]
      BY <1>1, <3>1 DEF AbiStreamInv, StreamsAtNextWindow, DeliveredInOrder
    <3>3. delivered \in Seq(Answers) /\ Everything \in Seq(Answers)
      BY <1>1, Layout DEF AbiStreamInv, DeliveredInOrder
    <3> QED
      BY <3>1, <3>2, <3>3, SeqEqual
  <2>2. returned' = "end" => Active = 0 /\ delivered = Everything
    BY <1>1, <2>1 DEF AbiStreamInv, FinalAnswers, CallStreamNext, NoStreamLeft, StreamCancelled,
                      StreamAdmitted
  <2>3. returned' = "cancelled" => Active # 0 /\ streams'[Active].is_cancelled
    <3>1. CASE StreamCancelled
      <4>1. Active \in 1 .. Len(streams) /\ streams' = [streams EXCEPT ![Active].is_cancelled = TRUE]
        BY <1>5, <3>1 DEF StreamCancelled
      <4> HIDE DEF Active
      <4> QED
        BY <1>6, <4>1
    <3>2. CASE ~ StreamCancelled
      <4>1. returned' = "cancelled" => returned = "cancelled" /\ streams' = streams
        BY <3>2 DEF CallStreamNext, NoStreamLeft, StreamAdmitted
      <4> QED
        BY <1>1, <4>1 DEF AbiStreamInv, FinalAnswers
    <3> QED
      BY <3>1, <3>2
  <2>4. cancelled' => Active = 0 \/ \A k \in 1 .. Len(streams') : streams'[k].is_cancelled
    BY <1>1, <1>7 DEF AbiStreamInv, FinalAnswers
  <2> QED
    BY <1>1, <1>4, <1>8, <2>2, <2>3, <2>4 DEF FinalAnswers
<1> QED
  BY <1>3, <1>10, <1>11, <1>12, <1>13 DEF AbiStreamInv

(* What holds of the active stream while stream_next works on it.           *)
LEMMA WhileEmitting ==
  ASSUME AbiStreamInv, at = "emitting"
  PROVE  /\ RequestShape /\ HandleShape /\ handle = "open"
         /\ Finished \in 0 .. Len(vectors) /\ Len(vectors) \in Nat
         /\ Active = Finished + 1 /\ Active \in 1 .. Len(vectors) /\ Active # 0
         /\ Len(streams) = Len(vectors) /\ streams \in Seq(RecordStream)
         /\ streams[Active] \in RecordStream
         /\ Position \in Nat
         /\ returned \notin {"end", "cancelled"} /\ ~ cancelled
<1>1. RequestShape /\ HandleShape /\ handle = "open" /\ Active # 0
      /\ ~ streams[Active].is_cancelled /\ streams \in Seq(RecordStream)
  BY DEF AbiStreamInv, HandleShape
<1>2. /\ Finished \in 0 .. Len(vectors) /\ Len(vectors) \in Nat
      /\ Active = Finished + 1 /\ Active \in 1 .. Len(vectors)
      /\ Len(streams) = Len(vectors)
  BY <1>1, ActiveIsNext
<1>3. streams[Active] \in RecordStream
  BY <1>1, <1>2
<1>4. Position \in Nat
  BY <1>3 DEF Position, RecordStream
<1>5. returned \notin {"end", "cancelled"} /\ ~ cancelled
  BY <1>1, <1>2 DEF AbiStreamInv, FinalAnswers
<1> QED
  BY <1>1, <1>2, <1>3, <1>4, <1>5

(* The end of a record: the next stream begins where this one stopped.      *)
LEMMA StreamEndedStep ==
  ASSUME AbiStreamInv, StreamEnded
  PROVE  AbiStreamInv'
<1> DEFINE n == Len(vectors)
           f == Finished
<1>1. /\ at = "emitting" /\ Position >= Len(Tokens) /\ at' = "pulling"
      /\ IF has_stream THEN has_stream' = FALSE /\ record_index' = record_index
         ELSE record_index' = record_index + 1 /\ has_stream' = has_stream
      /\ UNCHANGED <<request, cancel_token, handle, cancelled, run_state, streams, returned,
                     delivered, errors>>
  BY DEF StreamEnded, Keeping
<1>2. /\ RequestShape /\ HandleShape /\ handle = "open"
      /\ f \in 0 .. n /\ n \in Nat /\ Active = f + 1 /\ Active \in 1 .. n /\ Active # 0
      /\ Len(streams) = n /\ streams \in Seq(RecordStream) /\ streams[Active] \in RecordStream
      /\ Position \in Nat /\ returned \notin {"end", "cancelled"} /\ ~ cancelled
  BY <1>1, WhileEmitting
<1>3. RequestShape' /\ RunShape'
  BY <1>1, RunKept
<1>4. /\ Everything' = Everything /\ Answers' = Answers /\ \A r : Before(r)' = Before(r)
      /\ UNCHANGED <<options, vectors, ndjson>>
  BY <1>1, <1>2, RequestKept DEF request
<1>5. /\ record_index \in 0 .. n /\ has_stream \in BOOLEAN
      /\ ndjson => ~ has_stream
      /\ ~ ndjson => record_index = 0 /\ n = 1
  BY <1>2 DEF HandleShape, RequestShape
<1>6. ndjson \/ has_stream
  BY <1>2, <1>5 DEF Finished
<1>7. Finished' = f + 1
  BY <1>1, <1>4, <1>5, <1>6 DEF Finished
<1>8. Active' = IF f + 1 = n THEN 0 ELSE f + 2
  BY <1>1, <1>2, <1>4, <1>5, <1>6, <1>7 DEF Active, Finished
<1>9. HandleShape'
  <2>1. /\ record_index' \in 0 .. n /\ has_stream' \in BOOLEAN /\ (ndjson => ~ has_stream')
        /\ (~ ndjson => record_index' = 0)
    <3>1. CASE ndjson
      <4>1. f = record_index /\ ~ has_stream
        BY <1>5, <3>1 DEF Finished
      <4>2. record_index' = f + 1 /\ ~ has_stream'
        BY <1>1, <4>1
      <4>3. f + 1 \in 0 .. n
        BY <1>2
      <4> QED
        BY <1>1, <1>5, <3>1, <4>1, <4>2, <4>3
    <3>2. CASE ~ ndjson
      <4>1. record_index' = 0 /\ has_stream' = FALSE
        BY <1>1, <1>5, <1>6, <3>2
      <4> HIDE DEF f
      <4> QED
        BY <1>5, <3>2, <4>1
    <3> QED
      BY <3>1, <3>2
  <2> QED
    BY <1>1, <1>2, <1>4, <2>1 DEF HandleShape
<1>10. DeliveredInOrder'
  BY <1>1, <1>4 DEF AbiStreamInv, DeliveredInOrder
<1>11. Len(delivered) = Before(f + 1)
  <2>1. Len(delivered) - Before(f) = WindowCount(options, Len(vectors[Active]))
    BY <1>1, <1>2 DEF AbiStreamInv, StreamsAtNextWindow, Position, Tokens
  <2>2. /\ Before(f + 1) = Before(f) + WindowCount(options, Len(vectors[f + 1]))
        /\ Before(f) \in Nat
    <3>1. f + 1 \in 1 .. n /\ f \in 0 .. n /\ (f + 1) - 1 = f
      BY <1>2
    <3> HIDE DEF f
    <3> QED
      BY <1>2, <3>1, Layout
  <2>3. Len(delivered) \in Nat
    BY DEF AbiStreamInv, DeliveredInOrder
  <2>4. WindowCount(options, Len(vectors[f + 1])) \in Nat
    BY <1>2, RecordFacts
  <2> HIDE DEF f
  <2> QED
    BY <1>2, <2>1, <2>2, <2>3, <2>4
<1>12. StreamsAtNextWindow'
  <2>1. Before(f + 1) \in Nat /\ Before(n) = Len(Everything)
    <3>1. f + 1 \in 0 .. n
      BY <1>2
    <3> QED
      BY <1>2, <3>1, Layout
  <2>2. Active' = 0 => Len(delivered) = Len(Everything)
    BY <1>2, <1>8, <1>11, <2>1
  <2>3. ASSUME NEW r \in f + 2 .. n
        PROVE  streams[r].start_token_idx = 0 /\ streams[r].chunk_index = 0
    BY <1>2 DEF AbiStreamInv, StreamsAtNextWindow
  <2>4. ASSUME Active' # 0
        PROVE  /\ streams[Active'].start_token_idx < Len(vectors[Active']) =>
                    AtWindow(options, vectors[Active'], 0, streams[Active'].start_token_idx)
               /\ streams[Active'].start_token_idx >= Len(vectors[Active']) =>
                    0 = WindowCount(options, Len(vectors[Active']))
               /\ streams[Active'].chunk_index = 0 % IndexModulus
    <3>1. Active' \in f + 2 .. n /\ Active' \in 1 .. n
      BY <1>2, <1>8, <2>4
    <3>2. streams[Active'].start_token_idx = 0 /\ streams[Active'].chunk_index = 0
      BY <2>3, <3>1
    <3>3. Len(vectors[Active']) \in Nat
      BY <1>2, <3>1, RecordFacts
    <3>4. Stride(options) \in Nat
      BY <1>2, StrideType DEF RequestShape
    <3>5. 0 * Stride(options) = 0 /\ 0 % IndexModulus = 0
      BY <3>4, ModulusAssumption
    <3> QED
      BY <3>2, <3>3, <3>5 DEF AtWindow, WindowCount
  <2>5. Len(delivered) - Before(f + 1) = 0
    BY <1>11, <2>1
  <2>6. \A r \in (f + 1) + 2 .. n : r \in f + 2 .. n
    BY <1>2
  <2>7. /\ delivered' = delivered /\ streams' = streams /\ Before(Finished)' = Before(f + 1)
        /\ vectors' = vectors /\ options' = options /\ Finished' = f + 1
    BY <1>1, <1>4, <1>7
  <2> HIDE DEF f
  <2>8. /\ Before(Finished)' <= Len(delivered')
        /\ Active' = 0 => Len(delivered') = Len(Everything)'
        /\ Active' # 0 =>
             LET stream == streams'[Active']
                 given == Len(delivered') - Before(Finished)'
             IN /\ stream.start_token_idx < Len(vectors'[Active']) =>
                     AtWindow(options', vectors'[Active'], given, stream.start_token_idx)
                /\ stream.start_token_idx >= Len(vectors'[Active']) =>
                     given = WindowCount(options', Len(vectors'[Active']))
                /\ stream.chunk_index = given % IndexModulus
        /\ \A r \in Finished' + 2 .. Len(vectors') :
             streams'[r].start_token_idx = 0 /\ streams'[r].chunk_index = 0
    BY <1>4, <1>11, <2>1, <2>2, <2>3, <2>4, <2>5, <2>6, <2>7
  <2> QED
    BY <2>8 DEF StreamsAtNextWindow, AtWindow
<1>13. FinalAnswers'
  BY <1>1, <1>2 DEF FinalAnswers
<1> QED
  BY <1>3, <1>9, <1>10, <1>12, <1>13 DEF AbiStreamInv

(* A chunk: the next window of the record the stream is of.                 *)
LEMMA StreamGivesChunkStep ==
  ASSUME AbiStreamInv, StreamGivesChunk
  PROVE  AbiStreamInv'
<1> DEFINE n == Len(vectors)
           f == Finished
           a == Active
           stream == streams[a]
           given == Len(delivered) - Before(f)
           count == WindowCount(options, Len(vectors[a]))
           next == NextStart(options, Tokens, Position)
           chunk == ChunkAt(Tokens, Position, WindowEnd(options, Tokens, Position),
                            stream.chunk_index, IsOversized(options, Tokens, Position))
           moved == [stream EXCEPT !.start_token_idx = next,
                                   !.chunk_index = NextIndex(stream.chunk_index)]
<1>1. /\ at = "emitting" /\ Position < Len(Tokens) /\ at' = "idle" /\ returned' = "chunk"
      /\ delivered' = Append(delivered, Located(a, chunk))
      /\ streams' = [streams EXCEPT ![a].start_token_idx = next,
                                    ![a].chunk_index = NextIndex(stream.chunk_index)]
      /\ UNCHANGED <<request, cancel_token, handle, cancelled, run_state, has_stream,
                     record_index, errors>>
  BY DEF StreamGivesChunk, Keeping
<1>2. /\ RequestShape /\ HandleShape /\ handle = "open"
      /\ f \in 0 .. n /\ n \in Nat /\ a = f + 1 /\ a \in 1 .. n /\ a # 0
      /\ Len(streams) = n /\ streams \in Seq(RecordStream) /\ stream \in RecordStream
      /\ Position \in Nat /\ returned \notin {"end", "cancelled"} /\ ~ cancelled
  BY <1>1, WhileEmitting
<1>3. RequestShape' /\ RunShape'
  BY <1>1, RunKept
<1>4. /\ Everything' = Everything /\ Answers' = Answers /\ \A r : Before(r)' = Before(r)
      /\ UNCHANGED <<options, vectors, ndjson>>
  BY <1>1, <1>2, RequestKept DEF request
<1>5. /\ Tokens = vectors[a] /\ Position = stream.start_token_idx
      /\ vectors[a] \in Seq(Token) /\ FitsMemory(vectors[a]) /\ Len(vectors[a]) \in Nat
      /\ count \in Nat /\ options \in Option /\ ValidOption(options)
  BY <1>2, RecordFacts DEF Tokens, Position, RequestShape
<1>6. delivered \in Seq(Answers) /\ Len(delivered) \in Nat
      /\ \A k \in 1 .. Len(delivered) : delivered[k] = Everything[k]
  BY DEF AbiStreamInv, DeliveredInOrder
<1>7. /\ Before(f) \in Nat /\ Before(a) = Before(f) + count /\ Before(a) <= Len(Everything)
      /\ Before(a) \in Nat
      /\ \A k \in 1 .. count : Everything[Before(f) + k] = Located(a, RefChunk(options, vectors[a], k - 1))
      /\ Everything \in Seq(Answers)
  <2>1. a - 1 = f /\ a \in 0 .. n
    BY <1>2
  <2> HIDE DEF a, f
  <2> QED
    BY <1>2, <2>1, Layout
<1>8. given \in Nat /\ AtWindow(options, vectors[a], given, Position)
      /\ stream.chunk_index = given % IndexModulus
  <2>1. Before(f) <= Len(delivered) /\ AtWindow(options, vectors[a], given, Position)
        /\ stream.chunk_index = given % IndexModulus
    BY <1>1, <1>2, <1>5 DEF AbiStreamInv, StreamsAtNextWindow
  <2> HIDE DEF a, f
  <2> QED
    BY <1>6, <1>7, <2>1
<1>9. given + 1 \in 1 .. count
  <2> HIDE DEF given, a
  <2> QED
    BY <1>2, <1>5, <1>8, WindowIsCounted
<1>10. /\ chunk = RefChunk(options, vectors[a], given)
       /\ next \in Nat
       /\ next < Len(vectors[a]) => AtWindow(options, vectors[a], given + 1, next)
       /\ next >= Len(vectors[a]) => count = given + 1
  <2> HIDE DEF given, a
  <2> QED
    BY <1>2, <1>5, <1>8, StreamWindow
<1>11. NextIndex(stream.chunk_index) = (given + 1) % IndexModulus
       /\ NextIndex(stream.chunk_index) \in ChunkIndex
  <2> HIDE DEF given, stream
  <2>1. ((given % IndexModulus) + 1) % IndexModulus = (given + 1) % IndexModulus
    BY <1>8, ModulusAssumption, ModSuccessor
  <2>2. (given + 1) % IndexModulus \in 0 .. IndexModulus - 1
    BY <1>8, ModulusAssumption
  <2> QED
    BY <1>8, <2>1, <2>2 DEF NextIndex, ChunkIndex
<1> HIDE DEF f, a, given, count, next, chunk
<1>12. moved \in RecordStream /\ moved.start_token_idx = next
       /\ moved.chunk_index = (given + 1) % IndexModulus
       /\ moved.is_cancelled = stream.is_cancelled
  BY <1>2, <1>10, <1>11 DEF RecordStream
<1>13. streams' = [streams EXCEPT ![a] = moved]
  BY <1>1
<1> HIDE DEF stream, moved
<1>14. /\ streams' \in Seq(RecordStream) /\ Len(streams') = n
       /\ \A r \in 1 .. n : streams'[r] = IF r = a THEN moved ELSE streams[r]
  <2> DEFINE updated == [streams EXCEPT ![a] = moved]
  <2>1. /\ updated \in Seq(RecordStream) /\ Len(updated) = Len(streams)
        /\ \A r \in 1 .. Len(streams) : updated[r] = IF r = a THEN moved ELSE streams[r]
    BY <1>2, <1>12, ExceptSeq
  <2> HIDE DEF updated
  <2>2. streams' = updated
    BY <1>13 DEF updated
  <2> QED
    BY <1>2, <2>1, <2>2
<1>15. Active' = a /\ Finished' = f
  <2>1. Len(streams') = Len(streams)
    BY <1>2, <1>14
  <2> QED
    BY <1>1, <1>4, <2>1 DEF Active, Finished, a, f
<1>16. HandleShape'
  BY <1>1, <1>2, <1>4, <1>14 DEF HandleShape
<1>17. Len(delivered) + 1 = Before(f) + (given + 1) /\ Len(delivered) + 1 \in 1 .. Len(Everything)
  <2>1. Len(delivered) = Before(f) + given
    BY <1>6, <1>7 DEF given
  <2>2. Len(Everything) \in Nat
    BY <1>7
  <2> QED
    BY <1>5, <1>6, <1>7, <1>8, <1>9, <2>1, <2>2
<1>18. Everything[Len(delivered) + 1] = Located(a, chunk)
  <2>1. Everything[Before(f) + (given + 1)]
          = Located(a, RefChunk(options, vectors[a], (given + 1) - 1))
    BY <1>7, <1>9
  <2>2. (given + 1) - 1 = given
    BY <1>8
  <2> QED
    BY <1>10, <1>17, <2>1, <2>2
<1>19. Located(a, chunk) \in Answers
  BY <1>7, <1>17, <1>18
<1>20. /\ delivered' \in Seq(Answers) /\ Len(delivered') = Len(delivered) + 1
       /\ \A k \in 1 .. Len(delivered) : delivered'[k] = delivered[k]
       /\ delivered'[Len(delivered) + 1] = Located(a, chunk)
  BY <1>1, <1>6, <1>19, AppendProperties
<1>21. DeliveredInOrder'
  <2>1. \A k \in 1 .. Len(delivered) + 1 : k \in 1 .. Len(delivered) \/ k = Len(delivered) + 1
    BY <1>6
  <2>2. \A k \in 1 .. Len(delivered') : delivered'[k] = Everything[k]
    BY <1>6, <1>18, <1>20, <2>1
  <2>3. Len(delivered') <= Len(Everything)
    BY <1>17, <1>20
  <2> QED
    BY <1>4, <1>20, <2>2, <2>3 DEF DeliveredInOrder
<1>22. StreamsAtNextWindow'
  <2>1. Len(delivered') - Before(f) = given + 1 /\ Before(f) <= Len(delivered')
    BY <1>6, <1>7, <1>8, <1>17, <1>20
  <2>2. streams'[a] = moved
    BY <1>2, <1>14
  <2>3. ASSUME NEW r \in f + 2 .. n
        PROVE  streams'[r].start_token_idx = 0 /\ streams'[r].chunk_index = 0
    <3>1. r \in 1 .. n /\ r # a
      BY <1>2
    <3>2. streams'[r] = streams[r]
      BY <1>14, <3>1
    <3>3. streams[r].start_token_idx = 0 /\ streams[r].chunk_index = 0
      BY <1>2 DEF AbiStreamInv, StreamsAtNextWindow, f
    <3> QED
      BY <3>2, <3>3
  <2>4. /\ moved.start_token_idx < Len(vectors[a]) =>
             AtWindow(options, vectors[a], given + 1, moved.start_token_idx)
        /\ moved.start_token_idx >= Len(vectors[a]) => given + 1 = count
        /\ moved.chunk_index = (given + 1) % IndexModulus
    BY <1>10, <1>12
  <2>5. Before(Finished)' = Before(f) /\ Active' = a /\ a # 0 /\ Finished' = f
        /\ options' = options /\ vectors' = vectors
    BY <1>2, <1>4, <1>15
  <2>6. /\ Before(Finished)' <= Len(delivered')
        /\ Active' # 0
        /\ LET s == streams'[Active']
               g == Len(delivered') - Before(Finished)'
           IN /\ s.start_token_idx < Len(vectors'[Active']) =>
                   AtWindow(options', vectors'[Active'], g, s.start_token_idx)
              /\ s.start_token_idx >= Len(vectors'[Active']) =>
                   g = WindowCount(options', Len(vectors'[Active']))
              /\ s.chunk_index = g % IndexModulus
        /\ \A r \in Finished' + 2 .. Len(vectors') :
             streams'[r].start_token_idx = 0 /\ streams'[r].chunk_index = 0
    BY <2>1, <2>2, <2>3, <2>4, <2>5 DEF count
  <2> QED
    BY <2>6 DEF StreamsAtNextWindow, AtWindow
<1>23. FinalAnswers'
  BY <1>1, <1>2 DEF FinalAnswers
<1> QED
  BY <1>3, <1>16, <1>21, <1>22, <1>23 DEF AbiStreamInv

(* A new handle: every stream at its beginning.                             *)
LEMMA ChunkerStreamStep ==
  ASSUME AbiStreamInv, ChunkerStream
  PROVE  AbiStreamInv'
<1> DEFINE n == Len(vectors)
<1>1. /\ handle = "none" /\ handle' = "open" /\ at = "idle" /\ at' = at
      /\ streams' = [k \in 1 .. n |-> NewStream]
      /\ has_stream' = ~ ndjson
      /\ UNCHANGED <<request, record_index, cancelled, returned, delivered, run_state>>
  BY DEF ChunkerStream
<1>2. RequestShape' /\ RunShape'
  BY <1>1, RunKept
<1>3. /\ Everything' = Everything /\ Answers' = Answers /\ \A r : Before(r)' = Before(r)
      /\ UNCHANGED <<options, vectors, ndjson>> /\ RequestShape
  BY <1>1, RequestKept DEF request, AbiStreamInv
<1>4. n \in Nat /\ ndjson \in BOOLEAN /\ (~ ndjson => n = 1)
  BY <1>3 DEF RequestShape
<1>5. record_index = 0 /\ delivered = <<>> /\ returned = "nothing" /\ ~ cancelled
  BY <1>1 DEF AbiStreamInv, HandleShape
<1>6. NewStream \in RecordStream /\ NewStream.start_token_idx = 0 /\ NewStream.chunk_index = 0
  BY ModulusAssumption DEF NewStream, RecordStream, ChunkIndex
<1> HIDE DEF n
<1>7. streams' \in Seq(RecordStream) /\ Len(streams') = n
      /\ \A r \in 1 .. n : streams'[r] = NewStream
  <2> DEFINE fresh == [k \in 1 .. n |-> NewStream]
  <2>1. fresh \in Seq(RecordStream) /\ Len(fresh) = n /\ \A r \in 1 .. n : fresh[r] = NewStream
    BY <1>4, <1>6
  <2> HIDE DEF fresh
  <2>2. streams' = fresh
    BY <1>1 DEF fresh
  <2> QED
    BY <2>1, <2>2
<1>8. HandleShape'
  <2>1. Len(vectors') = n /\ 0 \in 0 .. n
    BY <1>3, <1>4 DEF n
  <2> QED
    BY <1>1, <1>3, <1>4, <1>5, <1>7, <2>1 DEF HandleShape
<1>9. Finished' = 0 /\ Active' = IF n = 0 THEN 0 ELSE 1
  <2>1. ndjson' = ndjson /\ record_index' = 0 /\ Len(streams') = n /\ has_stream' = ~ ndjson
    BY <1>1, <1>3, <1>5, <1>7
  <2>2. CASE ndjson
    <3>1. Finished' = 0 /\ Active' = IF 0 < n THEN 0 + 1 ELSE 0
      BY <2>1, <2>2 DEF Finished, Active
    <3> QED
      BY <1>4, <3>1
  <2>3. CASE ~ ndjson
    <3>1. n = 1 /\ has_stream'
      BY <1>4, <2>1, <2>3
    <3>2. Finished' = 0 /\ Active' = 1
      BY <2>1, <2>3, <3>1 DEF Finished, Active
    <3> QED
      BY <3>1, <3>2
  <2> QED
    BY <2>2, <2>3
<1>10. DeliveredInOrder'
  BY <1>1, <1>3 DEF AbiStreamInv, DeliveredInOrder
<1>11. Before(0) = 0 /\ Before(n) = Len(Everything)
  BY <1>3, Layout DEF n
<1>12. StreamsAtNextWindow'
  <2>1. Len(delivered') = 0 /\ Before(Finished)' = 0
    <3>1. Before(Finished)' = Before(0)
      BY <1>3, <1>9
    <3> QED
      BY <1>1, <1>5, <1>11, <3>1
  <2>2. Active' = 0 => Len(delivered') = Len(Everything)'
    BY <1>3, <1>9, <1>11, <2>1
  <2>3. \A r \in 1 .. n : streams'[r].start_token_idx = 0 /\ streams'[r].chunk_index = 0
    BY <1>6, <1>7
  <2>4. ASSUME Active' # 0
        PROVE  /\ streams'[Active'].start_token_idx = 0 /\ streams'[Active'].chunk_index = 0
               /\ 0 < Len(vectors'[Active']) => AtWindow(options', vectors'[Active'], 0, 0)
               /\ 0 >= Len(vectors'[Active']) => 0 = WindowCount(options', Len(vectors'[Active']))
               /\ 0 = 0 % IndexModulus
    <3>1. Active' = 1 /\ 1 \in 1 .. n
      BY <1>4, <1>9, <2>4
    <3>2. Len(vectors[1]) \in Nat
      BY <1>3, <3>1, RecordFacts DEF n
    <3>3. Stride(options) \in Nat
      BY <1>3, StrideType DEF RequestShape
    <3>4. 0 * Stride(options) = 0 /\ 0 % IndexModulus = 0
      BY <3>3, ModulusAssumption
    <3> QED
      BY <1>3, <2>3, <3>1, <3>2, <3>4 DEF AtWindow, WindowCount
  <2>5. Len(delivered') - Before(Finished)' = 0
    BY <2>1
  <2>6. /\ Before(Finished)' <= Len(delivered')
        /\ Active' # 0 =>
             LET stream == streams'[Active']
                 given == Len(delivered') - Before(Finished)'
             IN /\ stream.start_token_idx < Len(vectors'[Active']) =>
                     AtWindow(options', vectors'[Active'], given, stream.start_token_idx)
                /\ stream.start_token_idx >= Len(vectors'[Active']) =>
                     given = WindowCount(options', Len(vectors'[Active']))
                /\ stream.chunk_index = given % IndexModulus
    BY <2>1, <2>4, <2>5
  <2>7. \A r \in Finished' + 2 .. Len(vectors') :
          streams'[r].start_token_idx = 0 /\ streams'[r].chunk_index = 0
    <3>1. \A r \in Finished' + 2 .. Len(vectors') : r \in 1 .. n
      BY <1>3, <1>4, <1>9 DEF n
    <3> QED
      BY <2>3, <3>1
  <2> QED
    BY <2>2, <2>6, <2>7 DEF StreamsAtNextWindow, AtWindow
<1>13. FinalAnswers'
  BY <1>1, <1>5 DEF FinalAnswers
<1> QED
  BY <1>2, <1>8, <1>10, <1>12, <1>13 DEF AbiStreamInv

(* stream_cancel: the flags of all streams, and nothing else of them.       *)
LEMMA StreamCancelStep ==
  ASSUME AbiStreamInv, StreamCancel
  PROVE  AbiStreamInv'
<1> DEFINE n == Len(vectors)
<1>1. /\ handle = "open" /\ at = "idle" /\ at' = at
      /\ streams' = IF has_stream \/ ndjson
                    THEN [k \in DOMAIN streams |-> [streams[k] EXCEPT !.is_cancelled = TRUE]]
                    ELSE streams
      /\ UNCHANGED <<request, handle, has_stream, record_index, returned, delivered, run_state>>
  BY DEF StreamCancel
<1>2. RequestShape' /\ RunShape'
  BY <1>1, RunKept
<1>3. /\ Everything' = Everything /\ Answers' = Answers /\ \A r : Before(r)' = Before(r)
      /\ UNCHANGED <<options, vectors, ndjson>> /\ RequestShape /\ HandleShape
  BY <1>1, RequestKept DEF request, AbiStreamInv
<1>4. n \in Nat /\ streams \in Seq(RecordStream) /\ Len(streams) = n
  BY <1>1, <1>3 DEF HandleShape, RequestShape
<1>5. /\ streams' \in Seq(RecordStream) /\ Len(streams') = n
      /\ \A r \in 1 .. n :
           /\ streams'[r].start_token_idx = streams[r].start_token_idx
           /\ streams'[r].chunk_index = streams[r].chunk_index
           /\ streams[r].is_cancelled => streams'[r].is_cancelled
           /\ has_stream \/ ndjson => streams'[r].is_cancelled
  <2>1. CASE ~ (has_stream \/ ndjson)
    BY <1>1, <1>4, <2>1
  <2>2. CASE has_stream \/ ndjson
    <3> DEFINE Stopped(k) == [streams[k] EXCEPT !.is_cancelled = TRUE]
               stopped == [k \in 1 .. n |-> Stopped(k)]
    <3>1. \A k \in 1 .. n : streams[k] \in RecordStream
      BY <1>4
    <3>2. \A k \in 1 .. n : /\ Stopped(k) \in RecordStream
                            /\ Stopped(k).start_token_idx = streams[k].start_token_idx
                            /\ Stopped(k).chunk_index = streams[k].chunk_index
                            /\ Stopped(k).is_cancelled
      BY <3>1 DEF RecordStream
    <3>3. streams' = stopped
      <4>1. DOMAIN streams = 1 .. n
        BY <1>4
      <4> QED
        BY <1>1, <2>2, <4>1
    <3> HIDE DEF Stopped, n
    <3>4. stopped \in Seq(RecordStream) /\ Len(stopped) = n
          /\ \A k \in 1 .. n : stopped[k] = Stopped(k)
      BY <1>4, <3>2
    <3> HIDE DEF stopped
    <3> QED
      BY <3>2, <3>3, <3>4
  <2> QED
    BY <2>1, <2>2
<1>6. Active' = Active /\ Finished' = Finished
  BY <1>1, <1>3, <1>4, <1>5 DEF Active, Finished
<1>7. /\ Finished \in 0 .. n /\ Active \in 0 .. n
      /\ Active # 0 => has_stream \/ ndjson
  <2>1. Active # 0 => has_stream \/ ndjson
    BY DEF Active
  <2> QED
    BY <1>1, <1>3, <1>4, <2>1, ActiveIsNext
<1>8. HandleShape'
  BY <1>1, <1>3, <1>4, <1>5, <1>6 DEF HandleShape
<1>9. DeliveredInOrder'
  BY <1>1, <1>3 DEF AbiStreamInv, DeliveredInOrder
<1>10. StreamsAtNextWindow'
  <2>1. \A r \in Finished + 2 .. n : r \in 1 .. n
    BY <1>4, <1>7
  <2>2. Active # 0 => Active \in 1 .. n
    BY <1>4, <1>7
  <2> QED
    BY <1>1, <1>3, <1>5, <1>6, <2>1, <2>2 DEF AbiStreamInv, StreamsAtNextWindow, AtWindow
<1>11. FinalAnswers'
  <2>1. Active # 0 => Active \in 1 .. n
    BY <1>4, <1>7
  <2>2. returned' = "cancelled" => Active # 0 /\ streams'[Active].is_cancelled
    BY <1>1, <1>5, <2>1 DEF AbiStreamInv, FinalAnswers
  <2>3. returned' = "end" => delivered' = Everything' /\ Active = 0
    BY <1>1, <1>3 DEF AbiStreamInv, FinalAnswers
  <2>4. Active = 0 \/ \A k \in 1 .. Len(streams') : streams'[k].is_cancelled
    BY <1>5, <1>7
  <2> QED
    BY <1>1, <1>6, <2>2, <2>3, <2>4 DEF FinalAnswers
<1> QED
  BY <1>2, <1>8, <1>9, <1>10, <1>11 DEF AbiStreamInv

(* A released handle keeps only what it has answered.                       *)
LEMMA StreamReleaseStep ==
  ASSUME AbiStreamInv, StreamRelease
  PROVE  AbiStreamInv'
<1>1. /\ at = "idle" /\ at' = at /\ handle' = "released"
      /\ UNCHANGED <<request, cancelled, returned, delivered, run_state>>
  BY DEF StreamRelease
<1>2. RequestShape' /\ RunShape'
  BY <1>1, RunKept
<1>3. Everything' = Everything /\ Answers' = Answers
  BY <1>1, RequestKept DEF AbiStreamInv
<1>4. HandleShape' /\ StreamsAtNextWindow'
  BY <1>1 DEF HandleShape, StreamsAtNextWindow
<1>5. DeliveredInOrder' /\ FinalAnswers'
  BY <1>1, <1>3 DEF AbiStreamInv, DeliveredInOrder, FinalAnswers
<1> QED
  BY <1>2, <1>4, <1>5 DEF AbiStreamInv

(* A record of chunker_run: its windows, behind those of the records before *)
(* it.                                                                      *)
LEMMA RunRecordStep ==
  ASSUME AbiStreamInv, RunRecord
  PROVE  AbiStreamInv'
<1> DEFINE r == run_index + 1
           count == WindowCount(options, Len(vectors[r]))
           windows == [k \in 1 .. count |->
                         Located(r, Plain(RefChunk(options, vectors[r], k - 1)))]
           Plains == {WithoutWarning(a) : a \in Answers}
           chunks == result.chunks
           RunStatuses == {"none", "pending", "ok", "tokenizer_error", "cancelled"}
<1>1. /\ at = "running" /\ at' = at /\ run_index < Len(vectors) /\ run_index' = r
      /\ result' = [result EXCEPT !.chunks = @ \o windows]
      /\ UNCHANGED <<request, handle_state>>
  BY DEF RunRecord
<1>2. RequestShape' /\ HandleShape' /\ DeliveredInOrder' /\ StreamsAtNextWindow' /\ FinalAnswers'
  BY <1>1, HandleKept
<1>3. /\ Everything' = Everything /\ Answers' = Answers /\ \A m : Before(m)' = Before(m)
      /\ UNCHANGED <<options, vectors>> /\ RequestShape
  BY <1>1, RequestKept DEF request, AbiStreamInv
<1>4. /\ result \in [status : RunStatuses, chunks : Seq(Plains)]
      /\ result.status = "pending" /\ run_index \in 0 .. Len(vectors)
      /\ Len(chunks) = Before(run_index)
      /\ \A k \in 1 .. Len(chunks) : chunks[k] = WithoutWarning(Everything[k])
  BY <1>1 DEF AbiStreamInv, RunShape
<1>5. r \in 1 .. Len(vectors) /\ r - 1 = run_index /\ run_index \in 0 .. Len(vectors)
      /\ r \in 0 .. Len(vectors)
  BY <1>1, <1>3, <1>4 DEF RequestShape
<1> HIDE DEF r
<1>6. /\ Before(run_index) \in Nat /\ Before(r) = Before(run_index) + count
      /\ Before(r) <= Len(Everything) /\ count \in Nat
      /\ \A k \in 1 .. count :
           Everything[Before(run_index) + k] = Located(r, RefChunk(options, vectors[r], k - 1))
      /\ Everything \in Seq(Answers)
  BY <1>3, <1>5, Layout, RecordFacts
<1>7. \A k \in 1 .. count : windows[k] = WithoutWarning(Everything[Before(run_index) + k])
  <2> HIDE DEF count
  <2> SUFFICES ASSUME NEW k \in 1 .. count
               PROVE  windows[k] = WithoutWarning(Everything[Before(run_index) + k])
    OBVIOUS
  <2> DEFINE chunk == RefChunk(options, vectors[r], k - 1)
  <2>1. windows[k] = Located(r, Plain(chunk))
    OBVIOUS
  <2>2. Everything[Before(run_index) + k] = Located(r, chunk)
    BY <1>6
  <2> HIDE DEF windows, chunk
  <2>3. WithoutWarning(Located(r, chunk)) = Located(r, Plain(chunk))
    BY DEF WithoutWarning, Located
  <2> QED
    BY <2>1, <2>2, <2>3
<1>8. \A k \in 1 .. Len(Everything) : WithoutWarning(Everything[k]) \in Plains
  BY <1>6
<1>9. windows \in Seq(Plains) /\ Len(windows) = count
  <2>1. \A k \in 1 .. count : Before(run_index) + k \in 1 .. Len(Everything)
    <3>1. Len(Everything) \in Nat
      BY <1>6
    <3> HIDE DEF count
    <3> QED
      BY <1>6, <3>1
  <2> HIDE DEF Plains, count
  <2>2. \A k \in 1 .. count : windows[k] \in Plains
    BY <1>7, <1>8, <2>1
  <2> DEFINE W(k) == Located(r, Plain(RefChunk(options, vectors[r], k - 1)))
  <2>3. \A k \in 1 .. count : W(k) \in Plains
    BY <2>2
  <2>4. windows = [k \in 1 .. count |-> W(k)]
    OBVIOUS
  <2> HIDE DEF W, windows
  <2> QED
    BY <1>6, <2>3, <2>4
<1> HIDE DEF windows, Plains, count, RunStatuses
<1>10. chunks \in Seq(Plains) /\ result.status \in RunStatuses
       /\ result' = [result EXCEPT !.chunks = chunks \o windows]
  BY <1>1, <1>4
<1>11. /\ chunks \o windows \in Seq(Plains)
       /\ Len(chunks \o windows) = Len(chunks) + Len(windows)
       /\ \A i \in 1 .. Len(chunks) + Len(windows) :
            (chunks \o windows)[i] = IF i <= Len(chunks) THEN chunks[i] ELSE windows[i - Len(chunks)]
  BY <1>9, <1>10, ConcatProperties
<1> DEFINE joined == chunks \o windows
<1>12. /\ result'.chunks = joined /\ result'.status = "pending"
       /\ result' \in [status : RunStatuses, chunks : Seq(Plains)]
  BY <1>4, <1>10, <1>11
<1>13. /\ joined \in Seq(Plains) /\ Len(joined) = Before(r)
       /\ \A k \in 1 .. Before(r) : joined[k] = WithoutWarning(Everything[k])
  <2>1. Len(joined) = Before(r)
    BY <1>4, <1>6, <1>9, <1>11
  <2>2. ASSUME NEW k \in 1 .. Before(r)
        PROVE  joined[k] = WithoutWarning(Everything[k])
    <3>1. k \in 1 .. Len(chunks) + Len(windows) /\ k \in Nat
      BY <1>4, <1>6, <1>9
    <3>2. CASE k <= Len(chunks)
      <4>1. k \in 1 .. Len(chunks)
        BY <1>4, <1>6, <3>1, <3>2
      <4> QED
        BY <1>4, <1>11, <3>1, <3>2, <4>1
    <3>3. CASE ~ (k <= Len(chunks))
      <4>1. k - Len(chunks) \in 1 .. count /\ Before(run_index) + (k - Len(chunks)) = k
        BY <1>4, <1>6, <3>1, <3>3
      <4> QED
        BY <1>7, <1>11, <3>1, <3>3, <4>1
    <3> QED
      BY <3>2, <3>3
  <2> QED
    BY <1>11, <2>1, <2>2
<1> HIDE DEF joined, chunks
<1>14. RunShape'
  <2>1. Before(run_index)' = Before(r) /\ Len(vectors') = Len(vectors)
    BY <1>1, <1>3
  <2>2. Plains = {WithoutWarning(a) : a \in Answers}'
    BY <1>3 DEF Plains, WithoutWarning
  <2> QED
    BY <1>1, <1>3, <1>5, <1>12, <1>13, <2>1, <2>2 DEF RunShape, RunStatuses, WithoutWarning
<1> QED
  BY <1>2, <1>14 DEF AbiStreamInv

(* The begin and the ends of chunker_run.                                   *)
LEMMA RunBoundsStep ==
  ASSUME AbiStreamInv,
         StartRun \/ RunEnds \/ \E s \in {"tokenizer_error", "cancelled"} : RunFails(s)
  PROVE  AbiStreamInv'
<1>1. UNCHANGED <<request, handle_state, run_index>> /\ at' \in {"idle", "running"}
  BY DEF StartRun, RunEnds, RunFails
<1>2. RequestShape' /\ HandleShape' /\ DeliveredInOrder' /\ StreamsAtNextWindow' /\ FinalAnswers'
  BY <1>1, HandleKept
<1>3. /\ Everything' = Everything /\ Answers' = Answers /\ \A m : Before(m)' = Before(m)
      /\ UNCHANGED <<options, vectors>> /\ RequestShape /\ RunShape
  BY <1>1, RequestKept DEF request, AbiStreamInv
<1> DEFINE Plains == {WithoutWarning(a) : a \in Answers}
           RunStatuses == {"none", "pending", "ok", "tokenizer_error", "cancelled"}
<1>4. result \in [status : RunStatuses, chunks : Seq(Plains)] /\ run_index \in 0 .. Len(vectors)
  BY <1>3 DEF RunShape
<1>5. Plains = {WithoutWarning(a) : a \in Answers}'
  BY <1>3 DEF WithoutWarning
<1> HIDE DEF Plains
<1>6. CASE StartRun
  <2>1. /\ result.status = "none" /\ at' = "running"
        /\ result' = [status |-> "pending", chunks |-> <<>>]
    BY <1>6 DEF StartRun
  <2>2. run_index = 0 /\ Len(<<>>) = 0 /\ Before(0) = 0 /\ <<>> \in Seq(Plains)
    BY <1>3, <2>1, Layout DEF RunShape
  <2>3. result' \in [status : RunStatuses, chunks : Seq(Plains)] /\ result'.status = "pending"
        /\ result'.chunks = <<>>
    BY <2>1, <2>2
  <2> HIDE DEF RunStatuses
  <2>4. RunShape'
    BY <1>1, <1>3, <1>4, <1>5, <2>1, <2>2, <2>3 DEF RunShape, WithoutWarning, RunStatuses
  <2> QED
    BY <1>2, <2>4 DEF AbiStreamInv
<1>7. ASSUME NEW s \in {"ok", "tokenizer_error", "cancelled"},
             result' = [result EXCEPT !.status = s], at' = "idle",
             s = "ok" => run_index = Len(vectors)
      PROVE  RunShape'
  <2>1. result'.status = s /\ result'.chunks = result.chunks
        /\ result' \in [status : RunStatuses, chunks : Seq(Plains)]
    BY <1>4, <1>7
  <2> HIDE DEF RunStatuses
  <2> QED
    BY <1>1, <1>3, <1>4, <1>5, <1>7, <2>1 DEF RunShape, WithoutWarning, RunStatuses
<1>8. CASE RunEnds
  BY <1>2, <1>7, <1>8 DEF RunEnds, AbiStreamInv
<1>9. CASE \E s \in {"tokenizer_error", "cancelled"} : RunFails(s)
  BY <1>2, <1>7, <1>9 DEF RunFails, AbiStreamInv
<1> QED
  BY <1>6, <1>8, <1>9

(* Calls that touch neither the handle's streams nor the result.            *)
LEMMA OtherCallsStep ==
  ASSUME AbiStreamInv,
         \/ ChunkerStreamFails \/ CancellationRequest
         \/ \E slot \in {"chunker", "stream"} : ClearHandleError(slot)
  PROVE  AbiStreamInv'
<1>1. UNCHANGED <<request, handle_state, run_state, at>>
  BY DEF ChunkerStreamFails, CancellationRequest, ClearHandleError
<1> QED
  BY <1>1, HandleKept, RunKept DEF AbiStreamInv

(* At first nothing has been asked.                                         *)
LEMMA AbiStreamInitially ==
  ASSUME AbiStreamInit
  PROVE  AbiStreamInv
<1>1. RequestShape
  BY AbiStreamAssumption DEF AbiStreamInit, RequestShape
<1>2. HandleShape /\ StreamsAtNextWindow /\ FinalAnswers
  BY DEF AbiStreamInit, HandleShape, StreamsAtNextWindow, FinalAnswers
<1>3. DeliveredInOrder
  <2>1. delivered = <<>> /\ Len(Everything) \in Nat
    BY <1>1, Layout DEF AbiStreamInit
  <2> QED
    BY <2>1 DEF DeliveredInOrder
<1>4. RunShape
  <2> DEFINE Plains == {WithoutWarning(a) : a \in Answers}
  <2>1. result = [status |-> "none", chunks |-> <<>>] /\ run_index = 0 /\ at = "idle"
    BY DEF AbiStreamInit
  <2>2. Before(0) = 0 /\ Len(vectors) \in Nat
    BY <1>1, Layout DEF RequestShape
  <2> HIDE DEF Plains
  <2>3. <<>> \in Seq(Plains)
    OBVIOUS
  <2> QED
    BY <2>1, <2>2, <2>3 DEF RunShape, Plains
<1> QED
  BY <1>1, <1>2, <1>3, <1>4 DEF AbiStreamInv

(* Every step keeps the invariant.                                          *)
LEMMA AbiStreamStep ==
  ASSUME AbiStreamInv, [AbiStreamNext]_abi_vars
  PROVE  AbiStreamInv'
<1>1. CASE CallStreamNext \/ NoStreamLeft \/ StreamCancelled \/ StreamAdmitted
  BY <1>1, StreamAnswersStep
<1>2. CASE StreamEnded
  BY <1>2, StreamEndedStep
<1>3. CASE StreamGivesChunk
  BY <1>3, StreamGivesChunkStep
<1>4. CASE ChunkerStream
  BY <1>4, ChunkerStreamStep
<1>5. CASE StreamCancel
  BY <1>5, StreamCancelStep
<1>6. CASE StreamRelease
  BY <1>6, StreamReleaseStep
<1>7. CASE RunRecord
  BY <1>7, RunRecordStep
<1>8. CASE StartRun \/ RunEnds \/ \E s \in {"tokenizer_error", "cancelled"} : RunFails(s)
  BY <1>8, RunBoundsStep
<1>9. CASE \/ ChunkerStreamFails \/ CancellationRequest
           \/ \E slot \in {"chunker", "stream"} : ClearHandleError(slot)
  BY <1>9, OtherCallsStep
<1>10. CASE UNCHANGED abi_vars
  <2>1. UNCHANGED <<request, handle_state, run_state, at>>
    BY <1>10 DEF abi_vars, request, handle_state, run_state
  <2> QED
    BY <2>1, HandleKept, RunKept DEF AbiStreamInv
<1> QED
  BY <1>1, <1>2, <1>3, <1>4, <1>5, <1>6, <1>7, <1>8, <1>9, <1>10
  DEF AbiStreamNext, StreamNext, ChunkerRun

-----------------------------------------------------------------------------
(* The theorems.                                                            *)

(* The handle keeps its place among the windows of the records, and the     *)
(* result of chunker_run its own, through any sequence of calls.            *)
(* Code: lines 545-770 of src/abi/spec_abi.cpp.                             *)
THEOREM AbiStreamInvariant == AbiStreamSpec => []AbiStreamInv
<1>1. AbiStreamInit => AbiStreamInv
  BY AbiStreamInitially
<1>2. AbiStreamInv /\ [AbiStreamNext]_abi_vars => AbiStreamInv'
  BY AbiStreamStep
<1> QED
  BY <1>1, <1>2, PTL DEF AbiStreamSpec

(* stream_next delivers the windows of the records in order, each once, and *)
(* says the end only after the last one.                                    *)
(* Code: the loop of lines 681-710 of src/abi/spec_abi.cpp.                 *)
THEOREM StreamDeliversRecords == AbiStreamSpec => []StreamFollowsRecords
<1>1. AbiStreamInv => StreamFollowsRecords
  <2> SUFFICES ASSUME AbiStreamInv PROVE StreamFollowsRecords
    OBVIOUS
  <2>1. /\ delivered \in Seq(Answers) /\ Len(delivered) <= Len(Everything)
        /\ \A k \in 1 .. Len(delivered) : delivered[k] = Everything[k]
    BY DEF AbiStreamInv, DeliveredInOrder
  <2>2. Everything \in Seq(Answers)
    BY Layout DEF AbiStreamInv
  <2>3. SubSeq(delivered, 1, Len(delivered)) = SubSeq(Everything, 1, Len(delivered))
    BY <2>1, <2>2
  <2>4. IsPrefix(delivered, Everything)
    BY <2>1, <2>3 DEF IsPrefix
  <2> QED
    BY <2>4 DEF AbiStreamInv, FinalAnswers, StreamFollowsRecords
<1> QED
  BY <1>1, AbiStreamInvariant, PTL

(* The result of chunker_run holds whole records, complete when it is ok.   *)
(* Code: lines 545-584 of src/abi/spec_abi.cpp.                             *)
THEOREM RunKeepsWholeRecords == AbiStreamSpec => []RunHoldsWholeRecords
<1>1. AbiStreamInv => RunHoldsWholeRecords
  <2> SUFFICES ASSUME AbiStreamInv PROVE RunHoldsWholeRecords
    OBVIOUS
  <2>1. /\ run_index \in 0 .. Len(vectors) /\ Len(result.chunks) = Before(run_index)
        /\ \A k \in 1 .. Len(result.chunks) : result.chunks[k] = WithoutWarning(Everything[k])
        /\ result.status = "ok" => run_index = Len(vectors)
    BY DEF AbiStreamInv, RunShape
  <2>2. /\ Before(run_index) <= Len(Everything)
        /\ \A i \in 1 .. Len(Everything) :
             i <= Before(run_index) <=> Everything[i].record <= run_index
    BY <2>1, Layout DEF AbiStreamInv
  <2> QED
    BY <2>1, <2>2 DEF RunHoldsWholeRecords, WithoutWarning
<1> QED
  BY <1>1, AbiStreamInvariant, PTL

(* The end and a cancellation are final, and no chunk follows a             *)
(* stream_cancel.                                                           *)
(* Code: lines 688-709 and 734-748 of src/abi/spec_abi.cpp.                 *)
THEOREM AnswersAreFinal == AbiStreamSpec => FinalAnswersStay
<1>1. AbiStreamInv /\ [AbiStreamNext]_abi_vars =>
        [/\ returned \in {"end", "cancelled"} => returned' = returned /\ delivered' = delivered
         /\ cancelled => delivered' = delivered]_abi_vars
  <2> SUFFICES ASSUME AbiStreamInv, AbiStreamNext
               PROVE  /\ returned \in {"end", "cancelled"} =>
                           returned' = returned /\ delivered' = delivered
                      /\ cancelled => delivered' = delivered
    OBVIOUS
  <2>1. CASE NoStreamLeft
    <3>1. Active = 0 /\ handle = "open" /\ returned' = "end" /\ delivered' = delivered
      BY <2>1 DEF NoStreamLeft, Keeping, AbiStreamInv, HandleShape
    <3>2. returned # "cancelled"
      BY <3>1 DEF AbiStreamInv, FinalAnswers
    <3> QED
      BY <3>1, <3>2
  <2>2. CASE StreamCancelled
    <3>1. Active # 0 /\ handle = "open" /\ returned' = "cancelled" /\ delivered' = delivered
      BY <2>2 DEF StreamCancelled, Keeping, AbiStreamInv, HandleShape
    <3>2. returned # "end"
      BY <3>1 DEF AbiStreamInv, FinalAnswers
    <3> QED
      BY <3>1, <3>2
  <2>3. CASE StreamGivesChunk
    <3>1. at = "emitting"
      BY <2>3 DEF StreamGivesChunk
    <3> QED
      BY <3>1, WhileEmitting
  <2>4. CASE ~ (NoStreamLeft \/ StreamCancelled \/ StreamGivesChunk)
    <3>1. UNCHANGED <<returned, delivered>>
      BY <2>4 DEF AbiStreamNext, StreamNext, ChunkerRun, ChunkerStream, ChunkerStreamFails,
        StreamCancel, StreamRelease, ClearHandleError, CancellationRequest, CallStreamNext,
        StreamAdmitted, StreamEnded, StartRun, RunRecord, RunEnds, RunFails, handle_state
    <3> QED
      BY <3>1
  <2> QED
    BY <2>1, <2>2, <2>3, <2>4
<1> QED
  BY <1>1, AbiStreamInvariant, PTL DEF AbiStreamSpec, FinalAnswersStay

=============================================================================
