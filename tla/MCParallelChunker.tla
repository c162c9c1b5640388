------------------------- MODULE MCParallelChunker -------------------------
(* Bounded instances of ParallelChunker.                                    *)
EXTENDS ParallelChunker, SmallInputs

(* Up to seven tokens: with one-token windows, more windows than threads,   *)
(* as many and fewer.                                                       *)
MCParallelInputs == MixedTokens(2) \cup {ShortTokens(n) : n \in {3, 5, 7}}

(* All pairs up to 3, valid or not, and -1 converted to std::size_t.        *)
MCParallelOptions ==
  {o \in Option : o.max_tokens <= 3 /\ o.overlap_tokens <= 3}
    \cup {[max_tokens |-> SizeModulus - 1, overlap_tokens |-> 1],
          [max_tokens |-> 2, overlap_tokens |-> SizeModulus - 1]}

=============================================================================
