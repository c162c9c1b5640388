---------------------------- MODULE SmallInputs ----------------------------
(* Token vectors and sizes for the bounded instances of the chunkers.       *)
EXTENDS SlidingWindow

(* Contiguous tokens of the given byte lengths.                             *)
Layout(lengths) ==
  LET end[k \in 0 .. Len(lengths)] == IF k = 0 THEN 0 ELSE end[k - 1] + lengths[k]
  IN [k \in 1 .. Len(lengths) |-> [start_byte |-> end[k - 1], end_byte |-> end[k]]]

(* n tokens of one byte.                                                    *)
ShortTokens(n) == Layout([k \in 1 .. n |-> 1])

(* Up to n tokens of every mixture of short (1 byte) and long (3 bytes).    *)
MixedTokens(n) ==
  {Layout(lengths) : lengths \in UNION {[1 .. m -> {1, 3}] : m \in 0 .. n}}

(* Every mixture of up to three tokens, and longer runs of short tokens.    *)
MCInputs == MixedTokens(3) \cup {ShortTokens(n) : n \in 4 .. 6}

(* Every pair of sizes up to 4 (valid or not), and the largest std::size_t. *)
MCOptions ==
  {o \in Option : (o.max_tokens <= 4 \/ o.max_tokens = SizeModulus - 1)
                    /\ o.overlap_tokens <= 3}

=============================================================================
