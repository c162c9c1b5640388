----------------------------- MODULE AbiStream -----------------------------
(***************************************************************************)
(* Chunking through the C ABI (src/abi/spec_abi.cpp): chunker_run and the  *)
(* stream handle of chunker_stream, over an active reader.  A reader in    *)
(* NDJSON mode has a token vector per record, and the handle a stream per  *)
(* record; otherwise there is one of each.  Another thread may set the     *)
(* cancellation token (the C ABI has no call that resets it).              *)
(*                                                                         *)
(* The streams are those of ChunkStream: stream_next loads the token once  *)
(* for every stream it asks, so its loop is a step per load and a step per *)
(* answer.  The reader stays open while its stream is used.  One stream    *)
(* and one run bound a behaviour.  Failed allocations of the handles and   *)
(* null arguments are left out; the diagnostics of a handle are the        *)
(* warnings of what it delivered.                                          *)
(***************************************************************************)
EXTENDS SlidingWindow, SequencesExt

CONSTANTS
  RecordLists,   (* token vectors of a reader's records                    *)
  Options        (* sizes a chunker was created with                       *)

ASSUME AbiStreamAssumption ==
  /\ \A list \in RecordLists :
       list \in Seq(Seq(Token)) /\ \A k \in 1 .. Len(list) : FitsMemory(list[k])
  /\ Options \subseteq {o \in Option : ValidOption(o)}

VARIABLES
  options,        (* of the chunker                                        *)
  ndjson,         (* the reader's record mode                              *)
  vectors,        (* tokens of each record, or of the whole buffer         *)
  cancel_token,
  handle,         (* of the stream: "none", "open", "released"             *)
  at,             (* what the thread that owns the handles is doing        *)
  streams,        (* record_streams, or stream as the only member          *)
  has_stream,     (* stream is not null                                    *)
  record_index,
  cancelled,      (* the handle's flag                                     *)
  returned,       (* what the last stream_next answered                    *)
  delivered,      (* [record, chunk] of every answer so far (history)      *)
  errors,         (* the error slots of the chunker and of the stream      *)
  run_index,      (* the record chunker_run works on                       *)
  result          (* chunks and error of fastchunk_result                  *)

abi_vars == <<options, ndjson, vectors, cancel_token, handle, at, streams, has_stream,
              record_index, cancelled, returned, delivered, errors, run_index, result>>
request == <<options, ndjson, vectors>>
handle_state == <<handle, streams, has_stream, record_index, cancelled, returned, delivered>>
run_state == <<run_index, result>>

NewStream == [start_token_idx |-> 0, chunk_index |-> 0, is_cancelled |-> FALSE]
Located(record, chunk) == [record |-> record, chunk |-> chunk]

AbiStreamTypeOK ==
  /\ options \in Options
  /\ vectors \in RecordLists
  /\ ndjson \in BOOLEAN /\ cancel_token \in BOOLEAN /\ cancelled \in BOOLEAN
  /\ handle \in {"none", "open", "released"}
  /\ at \in {"idle", "pulling", "emitting", "running"}
  /\ streams \in Seq([start_token_idx : SizeT, chunk_index : ChunkIndex,
                      is_cancelled : BOOLEAN])
  /\ has_stream \in BOOLEAN
  /\ record_index \in 0 .. Len(vectors)
  /\ returned \in {"nothing", "chunk", "end", "cancelled"}
  /\ \A k \in DOMAIN delivered : delivered[k].chunk \in Chunk
  /\ errors \in [chunker : {"none", "tokenizer_error"}, stream : {"none", "cancelled"}]
  /\ run_index \in 0 .. Len(vectors)
  /\ result.status \in {"none", "pending", "ok", "tokenizer_error", "cancelled"}

AbiStreamInit ==
  /\ options \in Options
  /\ vectors \in RecordLists
  /\ ndjson \in (IF Len(vectors) = 1 THEN BOOLEAN ELSE {TRUE})
  /\ cancel_token \in BOOLEAN
  /\ handle = "none"
  /\ at = "idle"
  /\ streams = <<>>
  /\ has_stream = FALSE
  /\ record_index = 0
  /\ cancelled = FALSE
  /\ returned = "nothing"
  /\ delivered = <<>>
  /\ errors = [chunker |-> "none", stream |-> "none"]
  /\ run_index = 0
  /\ result = [status |-> "none", chunks |-> <<>>]

-----------------------------------------------------------------------------
(* fastchunk_chunker_stream: a stream per record or one for the buffer.  It *)
(* leaves an error of an earlier call in the chunker's slot.                *)
ChunkerStream ==
  /\ at = "idle" /\ handle = "none"
  /\ handle' = "open"
  /\ streams' = [k \in 1 .. Len(vectors) |-> NewStream]
  /\ has_stream' = ~ ndjson
  /\ UNCHANGED <<request, cancel_token, at, record_index, cancelled, returned, delivered,
                 errors, run_state>>

(* The tokenizer fails on a record: the handle goes with what it has.       *)
ChunkerStreamFails ==
  /\ at = "idle" /\ handle = "none"
  /\ vectors # <<>>
  /\ errors' = [errors EXCEPT !.chunker = "tokenizer_error"]
  /\ UNCHANGED <<request, cancel_token, at, handle_state, run_state>>

(* The stream stream_next asks: its position in streams, 0 for none.        *)
Active ==
  IF has_stream THEN 1
  ELSE IF ndjson /\ record_index < Len(streams) THEN record_index + 1
  ELSE 0

Keeping == UNCHANGED <<request, cancel_token, handle, cancelled, run_state>>

CallStreamNext ==
  /\ at = "idle" /\ handle = "open"
  /\ at' = "pulling"
  /\ Keeping
  /\ UNCHANGED <<streams, has_stream, record_index, returned, delivered, errors>>

NoStreamLeft ==
  /\ at = "pulling"
  /\ Active = 0
  /\ returned' = "end"
  /\ at' = "idle"
  /\ Keeping
  /\ UNCHANGED <<streams, has_stream, record_index, delivered, errors>>

StreamCancelled ==
  /\ at = "pulling"
  /\ Active # 0
  /\ streams[Active].is_cancelled \/ cancel_token
  /\ streams' = [streams EXCEPT ![Active].is_cancelled = TRUE]
  /\ returned' = "cancelled"
  /\ errors' = [errors EXCEPT !.stream = "cancelled"]
  /\ at' = "idle"
  /\ Keeping
  /\ UNCHANGED <<has_stream, record_index, delivered>>

StreamAdmitted ==
  /\ at = "pulling"
  /\ Active # 0
  /\ ~ streams[Active].is_cancelled
  /\ ~ cancel_token
  /\ at' = "emitting"
  /\ Keeping
  /\ UNCHANGED <<streams, has_stream, record_index, returned, delivered, errors>>

Position == streams[Active].start_token_idx
Tokens == vectors[Active]

(* Mutation: the end of a record is taken for the end of the input.         *)
RecordEndEndsTheCall ==
  /\ at = "emitting"
  /\ Position >= Len(Tokens)
  /\ IF has_stream
     THEN has_stream' = FALSE /\ UNCHANGED record_index
     ELSE record_index' = record_index + 1 /\ UNCHANGED has_stream
  /\ returned' = "end"
  /\ at' = "idle"
  /\ Keeping
  /\ UNCHANGED <<streams, delivered, errors>>

(* The stream has ended: the loop goes on with the next one.                *)
StreamEnded ==
  /\ at = "emitting"
  /\ Position >= Len(Tokens)
  /\ IF has_stream
     THEN has_stream' = FALSE /\ UNCHANGED record_index
     ELSE record_index' = record_index + 1 /\ UNCHANGED has_stream
  /\ at' = "pulling"
  /\ Keeping
  /\ UNCHANGED <<streams, returned, delivered, errors>>

StreamGivesChunk ==
  /\ at = "emitting"
  /\ Position < Len(Tokens)
  /\ LET oversized == IsOversized(options, Tokens, Position)
         index == streams[Active].chunk_index
         last == WindowEnd(options, Tokens, Position)
     IN /\ delivered' = Append(delivered,
             Located(Active, ChunkAt(Tokens, Position, last, index, oversized)))
        /\ streams' = [streams EXCEPT
             ![Active].start_token_idx = NextStart(options, Tokens, Position),
             ![Active].chunk_index = NextIndex(index)]
  /\ returned' = "chunk"
  /\ at' = "idle"
  /\ Keeping
  /\ UNCHANGED <<has_stream, record_index, errors>>

StreamNext ==
  CallStreamNext \/ NoStreamLeft \/ StreamCancelled \/ StreamAdmitted \/ StreamEnded
    \/ StreamGivesChunk

(* Mutation: only a stream of the whole buffer is cancelled.                *)
StreamCancelNotRecords ==
  /\ at = "idle" /\ handle = "open"
  /\ streams' = IF has_stream THEN [streams EXCEPT ![1].is_cancelled = TRUE] ELSE streams
  /\ cancelled' = TRUE
  /\ UNCHANGED <<request, cancel_token, handle, at, has_stream, record_index, returned,
                 delivered, errors, run_state>>

(* fastchunk_stream_cancel: the streams that are left, ended ones included. *)
StreamCancel ==
  /\ at = "idle" /\ handle = "open"
  /\ streams' = IF has_stream \/ ndjson
                THEN [k \in DOMAIN streams |-> [streams[k] EXCEPT !.is_cancelled = TRUE]]
                ELSE streams
  /\ cancelled' = TRUE
  /\ UNCHANGED <<request, cancel_token, handle, at, has_stream, record_index, returned,
                 delivered, errors, run_state>>

StreamRelease ==
  /\ at = "idle" /\ handle = "open"
  /\ handle' = "released"
  /\ streams' = <<>>
  /\ has_stream' = FALSE
  /\ record_index' = 0
  /\ errors' = [errors EXCEPT !.stream = "none"]
  /\ UNCHANGED <<request, cancel_token, at, cancelled, returned, delivered, run_state>>

(* fastchunk_chunker_clear_error and fastchunk_stream_clear_error.          *)
ClearHandleError(slot) ==
  /\ at = "idle"
  /\ errors' = [errors EXCEPT ![slot] = "none"]
  /\ UNCHANGED <<request, cancel_token, at, handle_state, run_state>>

-----------------------------------------------------------------------------
(* fastchunk_chunker_run: chunk_buffer for each record, by its contract:    *)
(* every window, unless the token is set, or an error and nothing.  Such a  *)
(* call is a step, at the last load of the token it makes.  The chunks of   *)
(* the records before a failed one stay.                                    *)

StartRun ==
  /\ at = "idle" /\ result.status = "none"
  /\ at' = "running"
  /\ result' = [status |-> "pending", chunks |-> <<>>]
  /\ errors' = [errors EXCEPT !.chunker = "none"]
  /\ UNCHANGED <<request, cancel_token, handle_state, run_index>>

RunRecord ==
  /\ at = "running"
  /\ run_index < Len(vectors)
  /\ ~ cancel_token
  /\ result' = [result EXCEPT !.chunks = @ \o
       [k \in 1 .. WindowCount(options, Len(vectors[run_index + 1])) |->
          Located(run_index + 1, Plain(RefChunk(options, vectors[run_index + 1], k - 1)))]]
  /\ run_index' = run_index + 1
  /\ UNCHANGED <<request, cancel_token, handle_state, at, errors>>

(* Mutation: a failed record ends the loop and the call succeeds.           *)
RunFailsQuietly(status) ==
  /\ at = "running"
  /\ run_index < Len(vectors)
  /\ status = "cancelled" => cancel_token
  /\ result' = [result EXCEPT !.status = "ok"]
  /\ at' = "idle"
  /\ UNCHANGED <<request, cancel_token, handle_state, errors, run_index>>

RunFails(status) ==
  /\ at = "running"
  /\ run_index < Len(vectors)
  /\ status = "cancelled" => cancel_token
  /\ result' = [result EXCEPT !.status = status]
  /\ at' = "idle"
  /\ UNCHANGED <<request, cancel_token, handle_state, errors, run_index>>

RunEnds ==
  /\ at = "running"
  /\ run_index = Len(vectors)
  /\ result' = [result EXCEPT !.status = "ok"]
  /\ at' = "idle"
  /\ UNCHANGED <<request, cancel_token, handle_state, errors, run_index>>

ChunkerRun ==
  StartRun \/ RunRecord \/ RunEnds \/ \E s \in {"tokenizer_error", "cancelled"} : RunFails(s)

(* fastchunk_cancellation_request, called by any thread.                    *)
CancellationRequest ==
  /\ cancel_token' = TRUE
  /\ UNCHANGED <<request, handle_state, at, errors, run_state>>

AbiStreamNext ==
  \/ ChunkerStream \/ ChunkerStreamFails \/ StreamNext \/ StreamCancel \/ StreamRelease
  \/ ChunkerRun
  \/ \E slot \in {"chunker", "stream"} : ClearHandleError(slot)
  \/ CancellationRequest

AbiStreamSpec == AbiStreamInit /\ [][AbiStreamNext]_abi_vars

-----------------------------------------------------------------------------
(* The windows of every record, and all of them in record order.            *)
RecordWindows ==
  [r \in 1 .. Len(vectors) |->
    [k \in 1 .. WindowCount(options, Len(vectors[r])) |->
       Located(r, RefChunk(options, vectors[r], k - 1))]]
Everything == FlattenSeq(RecordWindows)

(* The handle delivers the windows of the records, record after record,     *)
(* with an index that begins again at each, none twice and none left out,   *)
(* and it says the end only after the last of them.                         *)
(* Code: the loop of lines 681-710 of src/abi/spec_abi.cpp.                 *)
StreamFollowsRecords ==
  /\ IsPrefix(delivered, Everything)
  /\ returned = "end" => delivered = Everything

(* The end and a cancellation are final answers, whatever the caller and    *)
(* the token do afterwards; and after stream_cancel no chunk comes, from    *)
(* whichever record.                                                        *)
(* Code: lines 688-709 and 734-748 of src/abi/spec_abi.cpp.                 *)
FinalAnswersStay ==
  [][/\ returned \in {"end", "cancelled"} => returned' = returned /\ delivered' = delivered
     /\ cancelled => delivered' = delivered]_abi_vars

(* The result of chunker_run is what the stream of the same reader gives,   *)
(* without the warnings; after an error it holds the windows of the records *)
(* before the failed one, complete.                                         *)
(* Code: lines 545-584 of src/abi/spec_abi.cpp.                             *)
RunHoldsWholeRecords ==
  LET given == Len(result.chunks)
  IN /\ given <= Len(Everything)
     /\ \A k \in 1 .. given :
          result.chunks[k] = Located(Everything[k].record, Plain(Everything[k].chunk))
     /\ \A k \in 1 .. Len(Everything) : k <= given <=> Everything[k].record <= run_index
     /\ result.status = "ok" => run_index = Len(vectors)

=============================================================================
