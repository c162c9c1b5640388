-------------------------------- MODULE Utf8 --------------------------------
(***************************************************************************)
(* UTF-8 as FastChunk sees it: the validator (include/simd_utf8.h) and the *)
(* two repairs, of the mapped reader (src/io/mmap_reader.cpp) and of the   *)
(* C ABI (src/abi/spec_abi.cpp).  Each has its own copy of the test of one *)
(* sequence; they are translated one by one.  A buffer is a sequence of    *)
(* bytes; i is a zero-based byte offset, as in the code.  The vector paths *)
(* of validate only skip blocks of ASCII and leave the rest to the loop.   *)
(***************************************************************************)
EXTENDS Integers, Sequences, SequencesExt

Byte == 0 .. 255
ByteAt(bytes, i) == bytes[i + 1]

(* The masks of the code: (b & 0xC0) == 0x80 and the three lead patterns.   *)
Continuation(b) == b \in 128 .. 191
Lead2(b) == b \in 192 .. 223
Lead3(b) == b \in 224 .. 239
Lead4(b) == b \in 240 .. 247

ContinuesFor(bytes, i, n) ==
  /\ i + n < Len(bytes)
  /\ \A k \in 1 .. n : Continuation(ByteAt(bytes, i + k))

(* validate_utf8_sequence: the bytes to advance, 0 for a malformed byte.    *)
SequenceLength(bytes, i) ==
  LET lead == ByteAt(bytes, i)
      second == ByteAt(bytes, i + 1)
  IN CASE lead <= 127 -> 1
       [] Lead2(lead) /\ ContinuesFor(bytes, i, 1) /\ lead >= 194 -> 2
       [] Lead3(lead) /\ ContinuesFor(bytes, i, 2)
            /\ ~ (lead = 237 /\ second >= 160) -> 3
       [] Lead4(lead) /\ ContinuesFor(bytes, i, 3)
            /\ ~ (lead > 244 \/ (lead = 244 /\ second > 143)) -> 4
       [] OTHER -> 0

(* repair_utf8_bytes of the mapped reader: seq_len, 0 when not valid.       *)
MmapLength(bytes, i) ==
  LET lead == ByteAt(bytes, i)
      second == ByteAt(bytes, i + 1)
  IN CASE lead <= 127 -> 1
       [] Lead2(lead) /\ ContinuesFor(bytes, i, 1) /\ lead >= 194 -> 2
       [] Lead3(lead) /\ ContinuesFor(bytes, i, 2)
            /\ ~ (lead = 237 /\ second >= 160) -> 3
       [] Lead4(lead) /\ ContinuesFor(bytes, i, 3)
            /\ lead <= 244 /\ ~ (lead = 244 /\ second > 143) -> 4
       [] OTHER -> 0

(* Mutation: the surrogates are let through.                                *)
AbiLengthWithSurrogates(bytes, i) ==
  LET lead == ByteAt(bytes, i)
  IN CASE lead <= 127 -> 1
       [] Lead2(lead) /\ lead >= 194 /\ ContinuesFor(bytes, i, 1) -> 2
       [] Lead3(lead) /\ ContinuesFor(bytes, i, 2) -> 3
       [] Lead4(lead) /\ lead <= 244 /\ ContinuesFor(bytes, i, 3) -> 4
       [] OTHER -> 0

(* repair_utf8 of the C ABI: length.                                        *)
AbiLength(bytes, i) ==
  LET lead == ByteAt(bytes, i)
      second == ByteAt(bytes, i + 1)
  IN CASE lead <= 127 -> 1
       [] Lead2(lead) /\ lead >= 194 /\ ContinuesFor(bytes, i, 1) -> 2
       [] Lead3(lead) /\ ContinuesFor(bytes, i, 2)
            /\ ~ (lead = 237 /\ second >= 160) -> 3
       [] Lead4(lead) /\ lead <= 244 /\ ContinuesFor(bytes, i, 3)
            /\ ~ (lead = 244 /\ second > 143) -> 4
       [] OTHER -> 0

(* The offset at which validate stops: the size, or the malformed byte.     *)
ErrorOffset(bytes) ==
  LET scan[i \in 0 .. Len(bytes)] ==
        IF i = Len(bytes) \/ SequenceLength(bytes, i) = 0 THEN i
        ELSE scan[i + SequenceLength(bytes, i)]
  IN scan[0]

Validates(bytes) == ErrorOffset(bytes) = Len(bytes)

-----------------------------------------------------------------------------
(* Repair: well-formed sequences are copied, and each other byte is         *)
(* replaced by U+FFFD or skipped, with a diagnostic at its offset.          *)

Replacement == <<239, 191, 189>>

(* Both repair loops, with the length test of each.                         *)
RepairWith(Length(_, _), bytes, policy) ==
  LET Copied(i) == SubSeq(bytes, i + 1, i + Length(bytes, i))
      Instead == IF policy = "replace" THEN Replacement ELSE <<>>
      repair[i \in 0 .. Len(bytes)] ==
        IF i = Len(bytes) THEN [data |-> <<>>, repaired |-> <<>>]
        ELSE IF Length(bytes, i) # 0
        THEN LET rest == repair[i + Length(bytes, i)]
             IN [rest EXCEPT !.data = Copied(i) \o @]
        ELSE LET rest == repair[i + 1]
             IN [data |-> Instead \o rest.data, repaired |-> <<i>> \o rest.repaired]
  IN repair[0]

RepairUtf8Bytes(bytes, policy) == RepairWith(MmapLength, bytes, policy)
RepairUtf8(bytes, policy) == RepairWith(AbiLength, bytes, policy)

-----------------------------------------------------------------------------
(* Reference definition, by code points instead of bit patterns and without *)
(* a scan: the characters of UTF-8 (RFC 3629), and apart from them the      *)
(* other sequences that FastChunk accepts.                                  *)

(* The values of the bytes of a sequence of n bytes with this many payload  *)
(* bits in its lead.                                                        *)
CodePoint(bytes, i, n) ==
  LET lead == ByteAt(bytes, i)
      top == CASE n = 1 -> lead [] n = 2 -> lead - 192 [] n = 3 -> lead - 224
               [] n = 4 -> lead - 240
      value[k \in 0 .. n - 1] ==
        IF k = 0 THEN top ELSE value[k - 1] * 64 + (ByteAt(bytes, i + k) - 128)
  IN value[n - 1]

(* A lead of a sequence of n bytes at i, with its continuation bytes.       *)
Sequence(bytes, i, n) ==
  /\ i + n <= Len(bytes)
  /\ ByteAt(bytes, i) \in CASE n = 1 -> 0 .. 127 [] n = 2 -> 192 .. 223
                            [] n = 3 -> 224 .. 239 [] n = 4 -> 240 .. 247
  /\ \A k \in 1 .. n - 1 : ByteAt(bytes, i + k) \in 128 .. 191

(* The first code point that needs n bytes.                                 *)
First(n) == CASE n = 1 -> 0 [] n = 2 -> 128 [] n = 3 -> 2048 [] n = 4 -> 65536
Surrogate(point) == 55296 <= point /\ point <= 57343

(* A character of UTF-8: a code point that is no surrogate, in the shortest *)
(* form.                                                                    *)
Character(bytes, i, n) ==
  /\ Sequence(bytes, i, n)
  /\ First(n) <= CodePoint(bytes, i, n) /\ CodePoint(bytes, i, n) <= 1114111
  /\ ~ Surrogate(CodePoint(bytes, i, n))

(* No character, and accepted by the code: a three- or four-byte form of a  *)
(* smaller code point, a surrogate in four bytes among them.                *)
Tolerated(bytes, i, n) ==
  /\ Sequence(bytes, i, n)
  /\ n \in {3, 4}
  /\ CodePoint(bytes, i, n) < First(n)

Accepted(bytes, i, n) == Character(bytes, i, n) \/ Tolerated(bytes, i, n)

(* Sequences cannot overlap: no lead is a continuation byte.  So a byte     *)
(* survives a repair exactly when an accepted sequence contains it.         *)
InCharacter(bytes, i) ==
  \E n \in 1 .. 4, k \in 0 .. 3 : k < n /\ k <= i /\ Character(bytes, i - k, n)
InAccepted(bytes, i) ==
  \E n \in 1 .. 4, k \in 0 .. 3 : k < n /\ k <= i /\ Accepted(bytes, i - k, n)

Stray(bytes) == {i \in 0 .. Len(bytes) - 1 : ~ InAccepted(bytes, i)}

(* What a repair has to return, byte by byte.                               *)
RepairOf(bytes, policy) ==
  LET Out(i) == IF i \notin Stray(bytes) THEN <<ByteAt(bytes, i)>>
                ELSE IF policy = "replace" THEN Replacement ELSE <<>>
  IN [data |-> FlattenSeq([k \in 1 .. Len(bytes) |-> Out(k - 1)]),
      repaired |-> SetToSortSeq(Stray(bytes), <)]

=============================================================================
