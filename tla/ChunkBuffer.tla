---------------------------- MODULE ChunkBuffer ----------------------------
(***************************************************************************)
(* ChunkerImpl (src/core/chunker.cpp).  A caller uses one of its two       *)
(* operations: stream_buffer, whose stream it pulls and cancels itself, or *)
(* chunk_buffer, which opens a stream and pulls it to its end, copying     *)
(* every view into a ChunkResult; the first error ends that call and the   *)
(* results so far are dropped with the frame.                              *)
(***************************************************************************)
EXTENDS ChunkStream

VARIABLES
  operation, (* "stream_buffer" or "chunk_buffer"                          *)
  results,   (* the local vector of ChunkResult                            *)
  outcome    (* what the call returned: "pending" until it returns         *)

buffer_vars == <<options, tokens, phase, start_token_idx, chunk_index, is_cancelled,
                 cancel_token, returned, delivered, operation, results, outcome>>

Contract == INSTANCE ChunkingContract WITH Unchecked <- {}

BufferInit ==
  /\ StreamInit
  /\ operation \in {"stream_buffer", "chunk_buffer"}
  /\ results = <<>>
  /\ outcome = Contract!Pending

Running == operation = "chunk_buffer" /\ outcome = Contract!Pending

(* stream_buffer: its error is the error of the call.                       *)
OpenStream ==
  /\ Running
  /\ StreamBuffer
  /\ outcome' = IF phase' = "rejected" THEN Contract!Failed(returned') ELSE outcome
  /\ UNCHANGED <<operation, results>>

BeginPull ==
  /\ Running
  /\ BeginNext
  /\ UNCHANGED <<operation, results, outcome>>

(* Mutation: the loop stops pulling when the token is set, and returns what *)
(* it has as if it were everything.                                         *)
PullCancelledKeepsResults ==
  /\ Running
  /\ NextCancelled
  /\ outcome' = Contract!Succeeded(results)
  /\ UNCHANGED <<operation, results>>

PullCancelled ==
  /\ Running
  /\ NextCancelled
  /\ outcome' = Contract!Failed("cancelled")
  /\ UNCHANGED <<operation, results>>

(* Mutation: the loop goes on pulling after end of stream.                  *)
PullEndIgnored ==
  /\ Running
  /\ NextEnd
  /\ UNCHANGED <<operation, results, outcome>>

PullEnd ==
  /\ Running
  /\ NextEnd
  /\ outcome' = Contract!Succeeded(results)
  /\ UNCHANGED <<operation, results>>

PullChunk ==
  /\ Running
  /\ NextChunk
  /\ results' = Append(results, Plain(delivered'[Len(delivered')]))
  /\ UNCHANGED <<operation, outcome>>

CallerThread == OpenStream \/ BeginPull \/ PullCancelled \/ PullEnd \/ PullChunk
OtherThread == TokenHolder /\ UNCHANGED <<operation, results, outcome>>

(* A stream of the caller's own: what it is asked for, and when, is up to   *)
(* the caller.                                                              *)
StreamCaller ==
  /\ operation = "stream_buffer"
  /\ StreamBuffer \/ CallNext \/ CancelStream
  /\ UNCHANGED <<operation, results, outcome>>

BufferNext == CallerThread \/ StreamCaller \/ OtherThread

(* A thread inside chunk_buffer runs to the end of its call; the other      *)
(* thread need never act, nor a stream be pulled.                           *)
BufferSpec == BufferInit /\ [][BufferNext]_buffer_vars /\ WF_buffer_vars(CallerThread)

-----------------------------------------------------------------------------
(* chunk_buffer is all or nothing: it returns every window of the closed    *)
(* form in order, or one error and no chunk, and it reports a cancellation  *)
(* only while the token is set.                                             *)
(* Code: the loop of lines 161-192 of src/core/chunker.cpp.                 *)
BufferImplementsContract == Contract!ContractSpec

(* The call returns, for every accepted or refused pair of sizes up to the  *)
(* largest std::size_t.                                                     *)
(* Code: the loop ends because each window moves start_token_idx_ forward   *)
(* (lines 92-105).                                                          *)
BufferCallReturns == operation = "chunk_buffer" => <>(outcome # Contract!Pending)

=============================================================================
