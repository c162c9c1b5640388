---------------------------- MODULE ChunkStream ----------------------------
(***************************************************************************)
(* stream_buffer and the pull stream it returns (src/core/chunker.cpp,     *)
(* ChunkStreamImpl), together with the CancellationToken another thread    *)
(* may set or reset at any moment (include/fastchunk/core.h).              *)
(*                                                                         *)
(* One call of next() is two steps: it loads the token once at its start   *)
(* (BeginNext, or NextCancelled), and produces the window later            *)
(* (NextChunk, or NextEnd); the other thread may act in between.  A        *)
(* relaxed load that still sees an old value is the behaviour in which the *)
(* other thread's store comes after the load.                              *)
(***************************************************************************)
EXTENDS SlidingWindow

CONSTANTS
  Inputs,    (* token vectors the tokenizer can return for a buffer        *)
  Options    (* [max_tokens, overlap_tokens] pairs a caller may pass       *)

ASSUME InputAssumption ==
  \A tokens \in Inputs : tokens \in Seq(Token) /\ FitsMemory(tokens)
ASSUME OptionAssumption == Options \subseteq Option

VARIABLES
  options,          (* options_                                            *)
  tokens,           (* tokens_                                             *)
  phase,            (* where the caller's thread is                        *)
  start_token_idx,  (* start_token_idx_                                    *)
  chunk_index,      (* chunk_index_                                        *)
  is_cancelled,     (* is_cancelled_, private to the caller's thread       *)
  cancel_token,     (* CancellationToken::cancelled_, shared               *)
  returned,         (* what the last call returned                         *)
  delivered         (* every chunk next() has returned (history)           *)

stream_vars == <<options, tokens, phase, start_token_idx, chunk_index,
                 is_cancelled, cancel_token, returned, delivered>>
arguments == <<options, tokens>>
position == <<start_token_idx, chunk_index>>

Phases == {"unopened", "ready", "emitting", "rejected"}
Errors == {"invalid_argument", "invalid_configuration", "tokenizer_error"}
Returns == {"none", "opened", "chunk", "end", "cancelled"} \cup Errors

StreamTypeOK ==
  /\ options \in Options
  /\ tokens \in Inputs
  /\ phase \in Phases
  /\ start_token_idx \in SizeT
  /\ chunk_index \in ChunkIndex
  /\ is_cancelled \in BOOLEAN
  /\ cancel_token \in BOOLEAN
  /\ returned \in Returns
  /\ delivered \in Seq(Chunk)

StreamInit ==
  /\ options \in Options
  /\ tokens \in Inputs
  /\ phase = "unopened"
  /\ start_token_idx = 0
  /\ chunk_index = 0
  /\ is_cancelled = FALSE
  /\ cancel_token \in BOOLEAN
  /\ returned = "none"
  /\ delivered = <<>>

-----------------------------------------------------------------------------
(* stream_buffer: the guards in the order of the code, then the tokenizer,  *)
(* whose encode may fail.  The constructor sets no other state.             *)

Rejected(error) ==
  /\ phase' = "rejected"
  /\ returned' = error

StreamBuffer ==
  /\ phase = "unopened"
  /\ \/ /\ options.max_tokens = 0
        /\ Rejected("invalid_argument")
     \/ /\ options.max_tokens # 0
        /\ options.overlap_tokens >= options.max_tokens
        /\ Rejected("invalid_configuration")
     \/ /\ ValidOption(options)
        /\ Rejected("tokenizer_error")
     \/ /\ ValidOption(options)
        /\ phase' = "ready"
        /\ returned' = "opened"
  /\ UNCHANGED <<arguments, position, is_cancelled, cancel_token, delivered>>

(* Mutation: the cancellation seen in the token is not remembered.          *)
NextCancelledNotRemembered ==
  /\ phase = "ready"
  /\ is_cancelled \/ cancel_token
  /\ returned' = "cancelled"
  /\ UNCHANGED <<arguments, phase, position, is_cancelled, cancel_token, delivered>>

(* next() finds a cancellation, its own or the token's: it makes it its own *)
(* and fails.                                                               *)
NextCancelled ==
  /\ phase = "ready"
  /\ is_cancelled \/ cancel_token
  /\ is_cancelled' = TRUE
  /\ returned' = "cancelled"
  /\ UNCHANGED <<arguments, phase, position, cancel_token, delivered>>

BeginNext ==
  /\ phase = "ready"
  /\ ~ is_cancelled
  /\ ~ cancel_token
  /\ phase' = "emitting"
  /\ UNCHANGED <<arguments, position, is_cancelled, cancel_token, returned, delivered>>

(* Mutation: end of stream as soon as fewer than a full window remain.      *)
NextEndShort ==
  /\ phase = "emitting"
  /\ \/ start_token_idx >= Len(tokens)
     \/ start_token_idx + options.max_tokens > Len(tokens)
  /\ phase' = "ready"
  /\ returned' = "end"
  /\ UNCHANGED <<arguments, position, is_cancelled, cancel_token, delivered>>

NextEnd ==
  /\ phase = "emitting"
  /\ start_token_idx >= Len(tokens)
  /\ phase' = "ready"
  /\ returned' = "end"
  /\ UNCHANGED <<arguments, position, is_cancelled, cancel_token, delivered>>

NextChunk ==
  /\ phase = "emitting"
  /\ start_token_idx < Len(tokens)
  /\ LET oversized == IsOversized(options, tokens, start_token_idx)
         last == IF oversized THEN start_token_idx + 1
                 ELSE WindowEnd(options, tokens, start_token_idx)
     IN delivered' = Append(delivered,
                       ChunkAt(tokens, start_token_idx, last, chunk_index, oversized))
  /\ chunk_index' = NextIndex(chunk_index)
  /\ start_token_idx' = NextStart(options, tokens, start_token_idx)
  /\ phase' = "ready"
  /\ returned' = "chunk"
  /\ UNCHANGED <<arguments, is_cancelled, cancel_token>>

(* IChunkStream::cancel, called by the thread that owns the stream between  *)
(* two calls of next().                                                     *)
CancelStream ==
  /\ phase = "ready"
  /\ is_cancelled' = TRUE
  /\ UNCHANGED <<arguments, phase, position, cancel_token, returned, delivered>>

(* CancellationToken::request_cancel and reset, called by any thread.       *)
RequestCancel ==
  /\ cancel_token' = TRUE
  /\ UNCHANGED <<arguments, phase, position, is_cancelled, returned, delivered>>

ResetToken ==
  /\ cancel_token' = FALSE
  /\ UNCHANGED <<arguments, phase, position, is_cancelled, returned, delivered>>

CallNext == NextCancelled \/ BeginNext \/ NextEnd \/ NextChunk
TokenHolder == RequestCancel \/ ResetToken

StreamNext == StreamBuffer \/ CallNext \/ CancelStream \/ TokenHolder

StreamSpec == StreamInit /\ [][StreamNext]_stream_vars

-----------------------------------------------------------------------------
(* What the stream has delivered at any moment is a prefix of the reference *)
(* windows: the same tokens, byte ranges, indices and oversized warnings,   *)
(* whatever the other thread did to the token in the meantime.              *)
(* Code: ChunkStreamImpl::next, lines 51-122 of src/core/chunker.cpp.       *)
DeliveredFollowsReference ==
  \A k \in 1 .. Len(delivered) : delivered[k] = RefChunk(options, tokens, k - 1)

(* End of stream is reported only when every token of the input is in some  *)
(* delivered chunk, and never a window that holds no new token was          *)
(* delivered on the way: the first chunk begins at token 0, each next one   *)
(* extends strictly further than the one before it, with an overlap of      *)
(* exactly overlap_tokens between them, and the last one ends the input.    *)
(* Code: the end test of line 46 and the advance of lines 92-105.           *)
EndMeansEverythingDelivered ==
  returned = "end" =>
    /\ \A i \in 0 .. Len(tokens) - 1 :
         \E k \in 1 .. Len(delivered) :
           delivered[k].first <= i /\ i < delivered[k].last
    /\ \A k \in 1 .. Len(delivered) - 1 :
         /\ delivered[k].last - delivered[k + 1].first = options.overlap_tokens
         /\ delivered[k].last < delivered[k + 1].last

(* Once next() has reported a cancellation the stream never delivers a      *)
(* chunk or an end of stream again, even if the token's owner resets it.    *)
(* Code: is_cancelled_ in lines 35-37 and 124 of src/core/chunker.cpp.      *)
CancellationIsFinal ==
  [][returned = "cancelled" => returned' = "cancelled" /\ delivered' = delivered]_stream_vars

=============================================================================
