--------------------------- MODULE SlidingWindow ---------------------------
(***************************************************************************)
(* The sliding token window of FastChunk: which tokens make up the chunk   *)
(* that begins at a given token, and where the next chunk begins.  The     *)
(* definitions are shared by the sequential stream (src/core/chunker.cpp)  *)
(* and the parallel planner (include/parallel_chunker.h).                  *)
(*                                                                         *)
(* Token indices are zero-based as in the code; `tokens` is the vector the *)
(* tokenizer returned, as a sequence of [start_byte, end_byte] records.    *)
(* All index arithmetic is on std::size_t and wraps at SizeModulus.        *)
(***************************************************************************)
EXTENDS Integers, Sequences

CONSTANTS
  SizeModulus,   (* 2^w for std::size_t, the type of every token index     *)
  IndexModulus   (* 2^32: chunk_index is a std::uint32_t                   *)

ASSUME ModulusAssumption ==
  /\ SizeModulus \in Nat \ {0}
  /\ IndexModulus \in Nat \ {0}

SizeT == 0 .. SizeModulus - 1
ChunkIndex == 0 .. IndexModulus - 1

Token == {t \in [start_byte : Nat, end_byte : Nat] : t.start_byte <= t.end_byte}
Option == [max_tokens : SizeT, overlap_tokens : SizeT]

(* The guards of stream_buffer: a strictly positive window, and an overlap  *)
(* strictly inside it.                                                      *)
ValidOption(options) ==
  /\ options.max_tokens # 0
  /\ options.overlap_tokens < options.max_tokens

(* A token vector of a real process: each EncodedToken takes 24 bytes of an *)
(* address space of SizeModulus bytes, so twice their number cannot wrap.   *)
FitsMemory(tokens) == 2 * Len(tokens) <= SizeModulus

LesserOf(a, b) == IF a <= b THEN a ELSE b

TokenAt(tokens, i) == tokens[i + 1]
ByteLength(token) == token.end_byte - token.start_byte

-----------------------------------------------------------------------------
(* The window that begins at token `start`.                                 *)

WindowEnd(options, tokens, start) ==
  LesserOf((start + options.max_tokens) % SizeModulus, Len(tokens))

(* A window of one token whose bytes outnumber max_tokens.                  *)
IsOversized(options, tokens, start) ==
  /\ WindowEnd(options, tokens, start) = start + 1
  /\ ByteLength(TokenAt(tokens, start)) > options.max_tokens

(* Mutation: the overlap is not taken back after the window.                *)
NextStartWithoutOverlap(options, tokens, start) ==
  WindowEnd(options, tokens, start)

(* start_token_idx_ after the window: the end of the input, or the end of   *)
(* an indivisible token, or overlap_tokens back from the window's end.      *)
NextStart(options, tokens, start) ==
  LET end == WindowEnd(options, tokens, start)
  IN IF end = Len(tokens) \/ IsOversized(options, tokens, start)
     THEN end
     ELSE (end - options.overlap_tokens) % SizeModulus

(* The chunk a window becomes.  `first` and `last` are the span of token    *)
(* ids [first, last); the id "<doc>:chunk:<index>" and the text are         *)
(* functions of the index and the byte range.  `warned` is the              *)
(* oversized_token diagnostic attached to the result.                       *)
ChunkAt(tokens, first, last, index, warned) ==
  [first       |-> first,
   last        |-> last,
   start_byte  |-> TokenAt(tokens, first).start_byte,
   end_byte    |-> TokenAt(tokens, last - 1).end_byte,
   chunk_index |-> index,
   warned      |-> warned]

Chunk == [first : Nat, last : Nat, start_byte : Nat, end_byte : Nat,
          chunk_index : ChunkIndex, warned : BOOLEAN]

(* A ChunkResult keeps every field of the view and drops the diagnostics.   *)
Plain(chunk) ==
  [f \in DOMAIN chunk \ {"warned"} |-> chunk[f]]

(* Mutation: a counter that never wraps.                                    *)
NextIndexUnbounded(index) == index + 1

(* chunk_index++ on a std::uint32_t.                                        *)
NextIndex(index) == (index + 1) % IndexModulus

-----------------------------------------------------------------------------
(* Reference definition: the same windows in closed form, without the loop  *)
(* and without machine arithmetic.                                          *)

Stride(options) == options.max_tokens - options.overlap_tokens

(* The smallest number of windows, each Stride after the one before it,     *)
(* that reaches the last of n tokens.                                       *)
WindowCount(options, n) ==
  IF n = 0 THEN 0
  ELSE IF n <= options.max_tokens THEN 1
  ELSE ((n - options.overlap_tokens - 1) \div Stride(options)) + 1

RefFirst(options, k) == k * Stride(options)
RefLast(options, n, k) == LesserOf(RefFirst(options, k) + options.max_tokens, n)

(* Window number k, counted from 0, as a chunk.                             *)
RefChunk(options, tokens, k) ==
  LET first == RefFirst(options, k)
      last  == RefLast(options, Len(tokens), k)
  IN ChunkAt(tokens, first, last, k % IndexModulus,
             /\ last = first + 1
             /\ ByteLength(TokenAt(tokens, first)) > options.max_tokens)

AllChunks(options, tokens) ==
  [k \in 1 .. WindowCount(options, Len(tokens)) |-> RefChunk(options, tokens, k - 1)]

=============================================================================
