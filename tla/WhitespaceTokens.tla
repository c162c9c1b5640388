-------------------------- MODULE WhitespaceTokens --------------------------
(***************************************************************************)
(* WhitespaceTokenizer::encode (src/tokenizers/tokenizers.cpp): the tokens *)
(* of a buffer are its longest runs of bytes that are not space.  What a   *)
(* byte is beyond that does not matter to the chunker.                     *)
(***************************************************************************)
EXTENDS SlidingWindow

Byte == {"word", "space"}

(* Positions are zero-based offsets, as in the code.                        *)
IsWord(bytes, p) == p \in 0 .. Len(bytes) - 1 /\ bytes[p + 1] = "word"

TokenFrom(bytes, start) ==
  [start_byte |-> start,
   end_byte   |-> CHOOSE e \in start + 1 .. Len(bytes) :
                    /\ \A p \in start .. e - 1 : IsWord(bytes, p)
                    /\ ~ IsWord(bytes, e)]

(* The loop over the bytes, whose `start` is never inside a run.            *)
Encode(bytes) ==
  LET rest[p \in 0 .. Len(bytes)] ==
        IF p = Len(bytes) THEN <<>>
        ELSE IF ~ IsWord(bytes, p) THEN rest[p + 1]
        ELSE <<TokenFrom(bytes, p)>> \o rest[TokenFrom(bytes, p).end_byte]
  IN rest[0]

=============================================================================
