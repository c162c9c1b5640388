--------------------------- MODULE StreamChunker ---------------------------
(***************************************************************************)
(* StreamChunker (include/fastchunk/stream_chunker.h): a document arrives  *)
(* in blocks of any size; each call of push_bytes chunks what has arrived, *)
(* and flush chunks the rest.  Bytes are counted in the whole stream:      *)
(* residual_buffer_ begins at position `retired`.  Each call of            *)
(* chunk_buffer is replaced by what ChunkingContract promises of it; it is *)
(* made without the cancellation token.                                    *)
(***************************************************************************)
EXTENDS WhitespaceTokens

CONSTANTS
  Options,    (* ChunkOptions the constructor may receive                  *)
  Blocks,     (* input blocks                                              *)
  MaxBytes    (* bound on the bytes of the stream                          *)

ASSUME OptionAssumption == Options \subseteq Option
ASSUME BlockAssumption == Blocks \subseteq Seq(Byte)
ASSUME StreamAssumption == MaxBytes \in Nat

VARIABLES
  options,            (* options_                                          *)
  residual_buffer,    (* residual_buffer_                                  *)
  cancel_token,       (* the token the caller passes to push_bytes         *)
  returned,           (* what the last call returned                       *)
  pushed,             (* every byte accepted so far (history)              *)
  retired,            (* how many of them have left residual_buffer_       *)
  dropped,            (* positions that left it without a chunk            *)
  batches             (* the chunk vectors returned, by position (history) *)

chunker_vars == <<options, residual_buffer, cancel_token, returned, pushed,
                  retired, dropped, batches>>

Errors == {"invalid_argument", "invalid_configuration", "tokenizer_error"}
Piece == [first_byte : Nat, last_byte : Nat]
Batch == [by : {"push", "flush"}, pieces : Seq(Piece)]

ChunkerTypeOK ==
  /\ options \in Options
  /\ residual_buffer \in Seq(Byte)
  /\ cancel_token \in BOOLEAN
  /\ returned \in {"none", "ok", "cancelled"} \cup Errors
  /\ pushed \in Seq(Byte)
  /\ retired \in Nat /\ retired + Len(residual_buffer) = Len(pushed)
  /\ dropped \subseteq 0 .. Len(pushed) - 1
  /\ batches \in Seq(Batch)

ChunkerInit ==
  /\ options \in Options
  /\ residual_buffer = <<>>
  /\ cancel_token = FALSE
  /\ returned = "none"
  /\ pushed = <<>>
  /\ retired = 0
  /\ dropped = {}
  /\ batches = <<>>

-----------------------------------------------------------------------------
(* The errors chunk_buffer may report for these options.                    *)
ChunkBufferError ==
  IF options.max_tokens = 0 THEN "invalid_argument"
  ELSE IF options.overlap_tokens >= options.max_tokens THEN "invalid_configuration"
  ELSE "tokenizer_error"

Chunks(bytes) == AllChunks(options, Encode(bytes))

(* Where the chunks of the residual lie in the stream; a call that returns  *)
(* no chunk adds no batch.                                                  *)
Returned(by, chunks) ==
  IF chunks = <<>> THEN batches
  ELSE Append(batches,
         [by |-> by,
          pieces |-> [k \in 1 .. Len(chunks) |->
                        [first_byte |-> retired + chunks[k].start_byte,
                         last_byte  |-> retired + chunks[k].end_byte]]])

(* Mutation: end_byte is taken for the number of the chunk's last byte, and *)
(* that byte is kept.                                                       *)
RetiredByLastByte(chunks) == chunks[Len(chunks)].end_byte - 1
RetiredBy(chunks) == chunks[Len(chunks)].end_byte

(* Mutation: one byte too many is waited for.                               *)
MustWaitOneMore(bytes) == Len(bytes) <= options.max_tokens
MustWait(bytes) == Len(bytes) < options.max_tokens

(* A cancelled push takes no byte of its block.                             *)
PushCancelled ==
  /\ cancel_token
  /\ returned' = "cancelled"
  /\ UNCHANGED <<options, residual_buffer, cancel_token, pushed, retired, dropped, batches>>

PushWaits(block) ==
  /\ ~ cancel_token
  /\ Len(pushed) + Len(block) <= MaxBytes
  /\ MustWait(residual_buffer \o block)
  /\ residual_buffer' = residual_buffer \o block
  /\ pushed' = pushed \o block
  /\ returned' = "ok"
  /\ UNCHANGED <<options, cancel_token, retired, dropped, batches>>

(* Mutation: a push that fails forgets the residual, as flush does.         *)
PushFailsForgets(block) ==
  /\ ~ cancel_token
  /\ Len(pushed) + Len(block) <= MaxBytes
  /\ ~ MustWait(residual_buffer \o block)
  /\ residual_buffer' = <<>>
  /\ pushed' = pushed \o block
  /\ retired' = Len(pushed')
  /\ returned' = ChunkBufferError
  /\ UNCHANGED <<options, cancel_token, dropped, batches>>

(* The block stays in the residual when chunk_buffer fails.                 *)
PushFails(block) ==
  /\ ~ cancel_token
  /\ Len(pushed) + Len(block) <= MaxBytes
  /\ ~ MustWait(residual_buffer \o block)
  /\ residual_buffer' = residual_buffer \o block
  /\ pushed' = pushed \o block
  /\ returned' = ChunkBufferError
  /\ UNCHANGED <<options, cancel_token, retired, dropped, batches>>

(* The residual keeps what follows the last chunk, everything if there is   *)
(* none.                                                                    *)
PushChunks(block) ==
  /\ ~ cancel_token
  /\ ValidOption(options)
  /\ Len(pushed) + Len(block) <= MaxBytes
  /\ ~ MustWait(residual_buffer \o block)
  /\ LET bytes == residual_buffer \o block
         chunks == Chunks(bytes)
         gone == IF chunks = <<>> THEN 0 ELSE RetiredBy(chunks)
     IN /\ batches' = Returned("push", chunks)
        /\ residual_buffer' = SubSeq(bytes, gone + 1, Len(bytes))
        /\ retired' = retired + gone
  /\ pushed' = pushed \o block
  /\ returned' = "ok"
  /\ UNCHANGED <<options, cancel_token, dropped>>

FlushNothing ==
  /\ residual_buffer = <<>>
  /\ returned' = "ok"
  /\ UNCHANGED <<options, residual_buffer, cancel_token, pushed, retired, dropped, batches>>

(* flush clears the residual whether chunk_buffer succeeds or not.          *)
FlushFails ==
  /\ residual_buffer # <<>>
  /\ returned' = ChunkBufferError
  /\ residual_buffer' = <<>>
  /\ retired' = Len(pushed)
  /\ dropped' = dropped \cup retired .. Len(pushed) - 1
  /\ UNCHANGED <<options, cancel_token, pushed, batches>>

FlushChunks ==
  /\ residual_buffer # <<>>
  /\ ValidOption(options)
  /\ batches' = Returned("flush", Chunks(residual_buffer))
  /\ returned' = "ok"
  /\ residual_buffer' = <<>>
  /\ retired' = Len(pushed)
  /\ UNCHANGED <<options, cancel_token, pushed, dropped>>

TokenChanges ==
  /\ cancel_token' \in BOOLEAN
  /\ UNCHANGED <<options, residual_buffer, returned, pushed, retired, dropped, batches>>

PushBytes(block) == PushWaits(block) \/ PushFails(block) \/ PushChunks(block)
Flush == FlushNothing \/ FlushFails \/ FlushChunks

ChunkerNext ==
  \/ PushCancelled
  \/ \E block \in Blocks : PushBytes(block)
  \/ Flush
  \/ TokenChanges

ChunkerSpec == ChunkerInit /\ [][ChunkerNext]_chunker_vars

-----------------------------------------------------------------------------
Covers(batch, p) ==
  \E k \in 1 .. Len(batch.pieces) :
    batch.pieces[k].first_byte <= p /\ p < batch.pieces[k].last_byte

FirstPiece(batch) == batch.pieces[1]
LastPiece(batch) == batch.pieces[Len(batch.pieces)]

(* However the stream is cut into blocks and whichever calls fail or are    *)
(* cancelled, the residual is the unchunked end of what was accepted, and   *)
(* each word byte before it was returned by some call, unless a failed      *)
(* flush dropped it.  Without an overlap no byte is returned by two calls,  *)
(* and none that was dropped.  How much of a call's last chunk the next one *)
(* repeats when there is an overlap is the matter of                        *)
(* OverlappingTailIsRetained.                                               *)
(* Code: lines 39-75 and 88-95 of include/fastchunk/stream_chunker.h.       *)
NoWordByteIsLost ==
  /\ residual_buffer = SubSeq(pushed, retired + 1, Len(pushed))
  /\ \A p \in 0 .. retired - 1 :
       LET covering == {b \in 1 .. Len(batches) : Covers(batches[b], p)}
       IN /\ IsWord(pushed, p) /\ p \notin dropped => covering # {}
          /\ options.overlap_tokens = 0 =>
               /\ \A a, b \in covering : a = b
               /\ p \in dropped => covering = {}

(* Calls return their chunks in stream order: what a later call returns     *)
(* neither begins nor ends before what an earlier call returned, and begins *)
(* behind it when no overlap is asked for.                                  *)
(* Code: the residual of lines 66-74 of include/fastchunk/stream_chunker.h. *)
CallsFollowTheStream ==
  \A i, j \in 1 .. Len(batches) : i < j =>
    LET last == LastPiece(batches[i])
        first == FirstPiece(batches[j])
    IN /\ last.first_byte <= first.first_byte
       /\ last.last_byte <= first.last_byte
       /\ options.overlap_tokens = 0 => last.last_byte <= first.first_byte

(* A call that returned chunks keeps the last overlap_tokens tokens of the  *)
(* last one for the next call, when that chunk has more tokens than these.  *)
(* Stated by lines 23 and 63 of include/fastchunk/stream_chunker.h and by   *)
(* architecture.md:99.                                                      *)
OverlappingTailIsRetained ==
  batches # <<>> =>
    LET batch == batches[Len(batches)]
        last == LastPiece(batch)
        text == SubSeq(pushed, last.first_byte + 1, last.last_byte)
    IN (/\ batch.by = "push"
        /\ dropped = {}
        /\ options.overlap_tokens \in 1 .. Len(Encode(text)) - 1)
         => retired < last.last_byte

(* After a successful call the residual is shorter than max_tokens bytes,   *)
(* or has no word in it: words are not held back for longer than that.      *)
(* Code: lines 44-47 and 64-75.                                             *)
HeldBackIsShortOrBlank ==
  returned = "ok" =>
    \/ Len(residual_buffer) < options.max_tokens
    \/ \A p \in 0 .. Len(residual_buffer) - 1 : ~ IsWord(residual_buffer, p)

=============================================================================
