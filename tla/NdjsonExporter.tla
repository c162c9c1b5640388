--------------------------- MODULE NdjsonExporter ---------------------------
(***************************************************************************)
(* NdjsonExporter (include/fastchunk/ndjson_exporter.h): export_stream     *)
(* pulls a ChunkStream and writes a line per chunk; export_chunks writes   *)
(* the lines of a vector of chunks.  A write that fails is repeated, up to *)
(* a limit, after a delay.                                                 *)
(*                                                                         *)
(* The std::ostream is external: a write is accepted whole, or the stream  *)
(* goes bad after none or some of the line's bytes.  output is what it has *)
(* accepted, a sequence of whole and torn lines.                           *)
(***************************************************************************)
EXTENDS ChunkStream, FiniteSets

CONSTANT Policies   (* the constructor's limits on attempts and delays      *)

ASSUME PolicyAssumption ==
  Policies \subseteq [max_attempts : SizeT, initial_delay_ms : SizeT, max_delay_ms : SizeT]

VARIABLES
  policy,    (* max_attempts_, initial_delay_ms_, max_delay_ms_            *)
  source,    (* which of the two calls this is                             *)
  watched,   (* whether export_stream was given the token                  *)
  at,        (* where the exporting thread is                              *)
  index,     (* index: chunks written                                      *)
  chunk,     (* the chunk being written                                    *)
  attempt,   (* attempt, in write_with_retry                               *)
  delay,     (* delay, in write_with_retry                                 *)
  sleeps,    (* the delays slept for this chunk (history)                  *)
  output,    (* what the stream has accepted                               *)
  result     (* what the call returned                                     *)

exporter_vars == <<options, tokens, phase, start_token_idx, chunk_index, is_cancelled,
                   cancel_token, returned, delivered, policy, source, watched, at,
                   index, chunk, attempt, delay, sleeps, output, result>>
call == <<policy, source, watched>>
retries == <<attempt, delay, sleeps>>

PlainChunk == [first : Nat, last : Nat, start_byte : Nat, end_byte : Nat,
               chunk_index : ChunkIndex]
NoChunk == [first |-> 0, last |-> 0, start_byte |-> 0, end_byte |-> 0, chunk_index |-> 0]
Pending == [status |-> "pending", record_index |-> 0]

ExporterTypeOK ==
  /\ StreamTypeOK
  /\ policy \in Policies
  /\ source \in {"stream", "vector"}
  /\ watched \in BOOLEAN
  /\ at \in {"loop", "pulling", "writing", "returned"}
  /\ index \in SizeT
  /\ chunk \in PlainChunk
  /\ attempt \in SizeT
  /\ delay \in SizeT
  /\ sleeps \in Seq(SizeT \ {0})
  /\ output \in Seq([chunk : PlainChunk, whole : BOOLEAN])
  /\ result \in [status : {"pending", "ok", "cancelled", "export_failed"},
                 record_index : SizeT]

(* The stream has been opened, so its sizes are usable.                     *)
ExporterInit ==
  /\ options \in {o \in Options : ValidOption(o)}
  /\ tokens \in Inputs
  /\ phase = "ready"
  /\ start_token_idx = 0
  /\ chunk_index = 0
  /\ is_cancelled = FALSE
  /\ cancel_token \in BOOLEAN
  /\ returned = "opened"
  /\ delivered = <<>>
  /\ policy \in Policies
  /\ source \in {"stream", "vector"}
  /\ watched \in BOOLEAN
  /\ at = "loop"
  /\ index = 0
  /\ chunk = NoChunk
  /\ attempt = 0
  /\ delay = 0
  /\ sleeps = <<>>
  /\ output = <<>>
  /\ result = Pending

Attempts == IF policy.max_attempts = 0 THEN 1 ELSE policy.max_attempts

Return(status, record) ==
  /\ at' = "returned"
  /\ result' = [status |-> status, record_index |-> record]

StartWriting(next) ==
  /\ at' = "writing"
  /\ chunk' = next
  /\ attempt' = 0
  /\ delay' = policy.initial_delay_ms
  /\ sleeps' = <<>>

-----------------------------------------------------------------------------
(* export_stream: the token, then next().                                   *)

CheckToken ==
  /\ at = "loop" /\ source = "stream"
  /\ IF watched /\ cancel_token
     THEN Return("cancelled", 0)
     ELSE at' = "pulling" /\ UNCHANGED result
  /\ UNCHANGED <<stream_vars, call, index, chunk, retries, output>>

PullBegins ==
  /\ at = "pulling"
  /\ BeginNext
  /\ UNCHANGED <<call, at, index, chunk, retries, output, result>>

(* Mutation: an error of the stream ends the export like its end.           *)
PullFailsQuietly ==
  /\ at = "pulling"
  /\ NextCancelled
  /\ Return("ok", 0)
  /\ UNCHANGED <<call, index, chunk, retries, output>>

PullFails ==
  /\ at = "pulling"
  /\ NextCancelled
  /\ Return("cancelled", 0)
  /\ UNCHANGED <<call, index, chunk, retries, output>>

PullEnds ==
  /\ at = "pulling"
  /\ NextEnd
  /\ Return("ok", 0)
  /\ UNCHANGED <<call, index, chunk, retries, output>>

PullsChunk ==
  /\ at = "pulling"
  /\ NextChunk
  /\ StartWriting(Plain(delivered'[Len(delivered')]))
  /\ UNCHANGED <<call, index, output, result>>

-----------------------------------------------------------------------------
(* export_chunks: the vector is what chunk_buffer returned for the input.   *)

Vector == AllChunks(options, tokens)

TakeChunk ==
  /\ at = "loop" /\ source = "vector"
  /\ index < Len(Vector)
  /\ StartWriting(Plain(Vector[index + 1]))
  /\ UNCHANGED <<stream_vars, call, index, output, result>>

NoMoreChunks ==
  /\ at = "loop" /\ source = "vector"
  /\ index >= Len(Vector)
  /\ Return("ok", 0)
  /\ UNCHANGED <<stream_vars, call, index, chunk, retries, output>>

-----------------------------------------------------------------------------
(* write_with_retry.                                                        *)

WriteLine ==
  /\ at = "writing"
  /\ output' = Append(output, [chunk |-> chunk, whole |-> TRUE])
  /\ index' = index + 1
  /\ at' = "loop"
  /\ UNCHANGED <<stream_vars, call, chunk, retries, result>>

(* A failed write leaves nothing, or a part of the line.                    *)
Leaves(torn) ==
  output' = IF torn THEN Append(output, [chunk |-> chunk, whole |-> FALSE]) ELSE output

(* Mutation: the limit does not apply to the doubled delay.                 *)
NextDelayUncapped == IF policy.max_delay_ms = 0 THEN delay ELSE (delay * 2) % SizeModulus

NextDelay ==
  IF policy.max_delay_ms = 0 THEN delay
  ELSE LesserOf(policy.max_delay_ms, (delay * 2) % SizeModulus)

(* Mutation: a failed write goes back to the caller's loop, where the same  *)
(* chunk is taken again with its attempts counted from zero.                *)
RetryStartsOver(torn) ==
  /\ at = "writing"
  /\ attempt + 1 < Attempts
  /\ Leaves(FALSE)
  /\ at' = "loop"
  /\ UNCHANGED <<stream_vars, call, index, chunk, retries, result>>

(* Mutation: the retry loop goes on with the next chunk.                    *)
RetrySkipsTheChunk(torn) ==
  /\ at = "writing"
  /\ attempt + 1 < Attempts
  /\ Leaves(torn)
  /\ at' = "loop"
  /\ UNCHANGED <<stream_vars, call, index, chunk, retries, result>>

Retry(torn) ==
  /\ at = "writing"
  /\ attempt + 1 < Attempts
  /\ Leaves(torn)
  /\ attempt' = attempt + 1
  /\ IF delay # 0
     THEN sleeps' = Append(sleeps, delay) /\ delay' = NextDelay
     ELSE UNCHANGED <<sleeps, delay>>
  /\ UNCHANGED <<stream_vars, call, at, index, chunk, result>>

GiveUp(torn) ==
  /\ at = "writing"
  /\ attempt + 1 >= Attempts
  /\ Leaves(torn)
  /\ Return("export_failed", index)
  /\ UNCHANGED <<stream_vars, call, index, chunk, retries>>

-----------------------------------------------------------------------------
ExportStream == CheckToken \/ PullBegins \/ PullFails \/ PullEnds \/ PullsChunk
ExportChunks == TakeChunk \/ NoMoreChunks
WriteWithRetry == WriteLine \/ \E torn \in BOOLEAN : Retry(torn) \/ GiveUp(torn)

Exporting == ExportStream \/ ExportChunks \/ WriteWithRetry

TokenOwner ==
  /\ TokenHolder
  /\ UNCHANGED <<call, at, index, chunk, retries, output, result>>

ExporterNext == Exporting \/ TokenOwner

(* The exporting thread keeps running; the token's owner need not act, and  *)
(* no write has to succeed.                                                 *)
ExporterSpec ==
  ExporterInit /\ [][ExporterNext]_exporter_vars /\ WF_exporter_vars(Exporting)

-----------------------------------------------------------------------------
WholeLines(n) == Cardinality({k \in 1 .. n : output[k].whole})

(* The output is the windows of the input in order, each a whole line once; *)
(* a torn line belongs to the chunk whose whole line comes next, whichever  *)
(* writes fail and however the call ends.                                   *)
(* Code: lines 27-79 and 161-176 of include/fastchunk/ndjson_exporter.h.    *)
OutputFollowsReference ==
  \A k \in 1 .. Len(output) :
    output[k].chunk = Plain(RefChunk(options, tokens, WholeLines(k - 1)))

(* Each way to end says how much was written: success everything, a failure *)
(* exactly the records before the one it names, and a cancellation some     *)
(* records and nothing torn after them.                                     *)
(* Code: lines 33-36, 47-55, 74-78 and 191-206 of                           *)
(* include/fastchunk/ndjson_exporter.h.                                     *)
ResultMatchesOutput ==
  /\ result.status = "ok" =>
       WholeLines(Len(output)) = WindowCount(options, Len(tokens))
  /\ result.status = "export_failed" =>
       WholeLines(Len(output)) = result.record_index
  /\ result.status = "cancelled" /\ output # <<>> =>
       output[Len(output)].whole

(* The delays between the attempts for one chunk never shrink and stay      *)
(* within the limit, when it is one config.cpp accepts (not below the       *)
(* initial delay) and its double still is a std::size_t.                    *)
(* Code: lines 163-173 of include/fastchunk/ndjson_exporter.h.              *)
DelaysGrowWithinLimit ==
  policy.initial_delay_ms <= policy.max_delay_ms /\ 2 * policy.max_delay_ms < SizeModulus =>
    /\ \A k \in 1 .. Len(sleeps) : sleeps[k] <= policy.max_delay_ms
    /\ \A k \in 1 .. Len(sleeps) - 1 : sleeps[k] <= sleeps[k + 1]
    /\ Len(sleeps) < Attempts

(* The call returns even if every write fails.                              *)
(* Code: the loops of lines 30, 45 and 164 of                               *)
(* include/fastchunk/ndjson_exporter.h.                                     *)
ExportReturns == <>(at = "returned")

(* The output of a successful export is NDJSON: every record has a line of  *)
(* its own.                                                                 *)
(* Code: line 168 of include/fastchunk/ndjson_exporter.h, which clears the  *)
(* stream's state and leaves the torn line in place.                        *)
EveryRecordHasItsOwnLine ==
  result.status = "ok" => \A k \in 1 .. Len(output) : output[k].whole

=============================================================================
