------------------------- MODULE DirectoryPipeline -------------------------
(***************************************************************************)
(* DirectoryPipeline (src/directory_pipeline.cpp): run processes the files *)
(* of a directory in batches of threads and returns a document per file;   *)
(* export_streaming writes the chunks of one file after the other.         *)
(*                                                                         *)
(* Files are numbered in the order of their paths.  The chunker and the    *)
(* exporter are replaced by what they promise: they succeed, fail, or stop *)
(* because the token is set.  A record that an exporter failed to write is *)
(* not counted as output; NdjsonExporter says what it may leave behind.    *)
(***************************************************************************)
EXTENDS Integers, Sequences, FiniteSets, SequencesExt

CONSTANTS
  Directories,   (* what a directory may hold: sequences of files          *)
  WorkerCounts,  (* effective values of concurrency.workers                *)
  FileLimits     (* values of max_files_per_directory                      *)

(* A file's own path below the root may be hidden; a big one (1 MiB) is     *)
(* chunked in parallel when there is more than one worker.                  *)
File == [regular : BOOLEAN, hidden : BOOLEAN, big : BOOLEAN, chunks : Nat]

ASSUME DirectoryAssumption == Directories \subseteq Seq(File)
ASSUME WorkerAssumption == WorkerCounts \subseteq Nat \ {0}
ASSUME LimitAssumption == FileLimits \subseteq Nat

VARIABLES
  operation,     (* "run" or "export", the method called                   *)
  is_directory,  (* whether input.path names a directory or a file         *)
  root_dotted,   (* whether a component of input.path begins with a dot    *)
  files,         (* what the directory holds, or the one file              *)
  settings,      (* the configuration                                      *)
  cancel_token,  (* the caller's token                                     *)
  at,            (* where the calling thread is                            *)
  paths,         (* the collected paths, sorted                            *)
  start,         (* paths before the current batch, or before this file    *)
  batch,         (* futures launched in this batch                         *)
  gathered,      (* futures of this batch collected                        *)
  written,       (* chunks of the file being exported that are written     *)
  work,          (* where the thread processing each file is               *)
  document,      (* each file's DocumentResult                             *)
  results,       (* documents delivered by run, by number                  *)
  output,        (* chunks written by export_streaming                     *)
  telemetry,     (* events recorded                                        *)
  outcome        (* what the call returned                                 *)

pipeline_vars == <<operation, is_directory, root_dotted, files, settings, cancel_token, at,
                   paths, start, batch, gathered, written, work, document, results, output,
                   telemetry, outcome>>
input == <<operation, is_directory, root_dotted, files, settings>>
progress == <<paths, start, batch, gathered, written>>
threads == <<work, document>>
delivered == <<results, output, telemetry>>

Errors == {"cancelled", "resource_limit_exceeded", "io_error", "tokenizer_error",
           "export_failed", "invalid_configuration"}
Document == [error : {"none"} \cup Errors, chunks : BOOLEAN,
             diagnostics : SUBSET {"reader", "chunker"}]
Blank == [error |-> "none", chunks |-> FALSE, diagnostics |-> {}]
Written == [file : Nat, chunk : Nat]
Event == [metric : {"bytes", "chunks", "duration"}, file : Nat,
          value : {"bytes", "chunks", "milliseconds"}]

Numbers == 1 .. Len(files)

PipelineTypeOK ==
  /\ operation \in {"run", "export"}
  /\ is_directory \in BOOLEAN /\ root_dotted \in BOOLEAN
  /\ files \in Directories
  /\ settings \in [workers : WorkerCounts, max_files : FileLimits,
                   include_hidden : BOOLEAN, ordered : BOOLEAN, valid : BOOLEAN]
  /\ cancel_token \in BOOLEAN
  /\ at \in {"called", "collecting", "single", "launching", "gathering", "unwinding",
             "next", "opening", "exporting", "returned"}
  /\ paths \in Seq(Numbers)
  /\ start \in 0 .. Len(paths)
  /\ batch \in 0 .. settings.workers
  /\ gathered \in 0 .. batch
  /\ work \in [Numbers -> {"none", "started", "preparing", "chunking", "done"}]
  /\ document \in [Numbers -> Document]
  /\ results \in Seq(Numbers)
  /\ written \in Nat
  /\ output \in Seq(Written)
  /\ telemetry \in Seq(Event)
  /\ outcome \in {"pending", "ok"} \cup Errors

PipelineInit ==
  /\ operation \in {"run", "export"}
  /\ is_directory \in BOOLEAN /\ root_dotted \in BOOLEAN
  /\ files \in {d \in Directories : is_directory \/ (Len(d) = 1 /\ d[1].regular)}
  /\ settings \in [workers : WorkerCounts, max_files : FileLimits,
                   include_hidden : BOOLEAN, ordered : BOOLEAN, valid : BOOLEAN]
  /\ cancel_token \in BOOLEAN
  /\ at = "called"
  /\ paths = <<>> /\ start = 0 /\ batch = 0 /\ gathered = 0 /\ written = 0
  /\ work = [f \in Numbers |-> "none"]
  /\ document = [f \in Numbers |-> Blank]
  /\ results = <<>> /\ output = <<>> /\ telemetry = <<>>
  /\ outcome = "pending"

Return(what) ==
  /\ at' = "returned"
  /\ outcome' = what

-----------------------------------------------------------------------------
(* process_file, on a thread of its own or on the caller's.                 *)

InParallel(f) == settings.workers > 1 /\ files[f].big

Finish(f, result) ==
  /\ work' = [work EXCEPT ![f] = "done"]
  /\ document' = [document EXCEPT ![f] = result]

Failing(f, error) == [document[f] EXCEPT !.error = error]

(* Mutation: only the launching loop looks at the token.                    *)
StartFileUnchecked(f) ==
  /\ work[f] = "started"
  /\ work' = [work EXCEPT ![f] = "preparing"]
  /\ UNCHANGED document

StartFile(f) ==
  /\ work[f] = "started"
  /\ IF cancel_token
     THEN Finish(f, Failing(f, "cancelled"))
     ELSE work' = [work EXCEPT ![f] = "preparing"] /\ UNCHANGED document

(* The limits on the file, opening it, the limits on what was read, the     *)
(* tokenizer: any of them may refuse the file.                              *)
PrepareFile(f) ==
  /\ work[f] = "preparing"
  /\ \/ \E error \in {"resource_limit_exceeded", "io_error"} : Finish(f, Failing(f, error))
     \/ \E error \in {"resource_limit_exceeded", "tokenizer_error"} :
          Finish(f, [Failing(f, error) EXCEPT !.diagnostics = {"reader"}])
     \/ /\ work' = [work EXCEPT ![f] = "chunking"]
        /\ document' = [document EXCEPT ![f].diagnostics = {"reader"}]

(* Only the sequential chunker is given the token.  A document with too     *)
(* many chunks keeps none of them.                                          *)
ChunkFile(f) ==
  /\ work[f] = "chunking"
  /\ \/ /\ ~ InParallel(f) /\ cancel_token
        /\ Finish(f, Failing(f, "cancelled"))
     \/ \E error \in {"tokenizer_error", "resource_limit_exceeded"} :
          Finish(f, Failing(f, error))
     \/ Finish(f, [error |-> "none", chunks |-> TRUE,
                   diagnostics |-> document[f].diagnostics \cup {"chunker"}])

ProcessFile(f) ==
  /\ StartFile(f) \/ PrepareFile(f) \/ ChunkFile(f)
  /\ UNCHANGED <<input, cancel_token, at, progress, delivered, outcome>>

-----------------------------------------------------------------------------
(* Both methods: the configuration, then the paths.                         *)

RefuseConfiguration ==
  /\ at = "called"
  /\ ~ settings.valid
  /\ Return("invalid_configuration")
  /\ UNCHANGED <<input, cancel_token, progress, threads, delivered>>

TakeSingleFile ==
  /\ at = "called"
  /\ settings.valid /\ ~ is_directory
  /\ paths' = <<1>>
  /\ IF operation = "run"
     THEN at' = "single" /\ work' = [work EXCEPT ![1] = "started"]
     ELSE at' = "next" /\ UNCHANGED work
  /\ UNCHANGED <<input, cancel_token, start, batch, gathered, written, document, delivered,
                 outcome>>

(* hidden_path looks at every component of the path, the root's included.   *)
HiddenPath(f) == root_dotted \/ files[f].hidden

Listed == {f \in Numbers : files[f].regular /\ (settings.include_hidden \/ ~ HiddenPath(f))}

(* std::sort by path.                                                       *)
SortedByPath(seq) ==
  LET D == DOMAIN seq
  IN CHOOSE t \in {[k \in D |-> seq[p[k]]] : p \in Bijection(D, D)} :
       \A i, j \in D : i < j => t[i] <= t[j]

CollectPaths ==
  /\ at = "called"
  /\ settings.valid /\ is_directory
  /\ paths' = SortedByPath(SetToSeq(Listed))
  /\ IF operation = "run"
     THEN IF Cardinality(Listed) > settings.max_files
          THEN Return("resource_limit_exceeded")
          ELSE at' = "launching" /\ UNCHANGED outcome
     ELSE at' = "next" /\ UNCHANGED outcome
  /\ UNCHANGED <<input, cancel_token, start, batch, gathered, written, threads, delivered>>

-----------------------------------------------------------------------------
(* run.                                                                     *)

DocumentEvents(f) ==
  <<[metric |-> "bytes", file |-> f, value |-> "bytes"],
    [metric |-> "chunks", file |-> f, value |-> "chunks"]>>

(* The one file: its bytes metric is given the number of chunks.            *)
ReturnSingle ==
  /\ at = "single"
  /\ work[1] = "done"
  /\ results' = <<1>>
  /\ telemetry' = <<[metric |-> "bytes", file |-> 1, value |-> "chunks"],
                    [metric |-> "chunks", file |-> 1, value |-> "chunks"]>>
  /\ Return("ok")
  /\ UNCHANGED <<input, cancel_token, progress, threads, output>>

BatchEnd == IF start + settings.workers < Len(paths) THEN start + settings.workers ELSE Len(paths)

(* The token is read before each launch.  A set token ends the call, but    *)
(* the futures of the batch wait for their threads first.                   *)
LaunchFile ==
  /\ at = "launching"
  /\ start + batch < BatchEnd
  /\ IF cancel_token
     THEN at' = "unwinding" /\ UNCHANGED <<batch, work>>
     ELSE /\ work' = [work EXCEPT ![paths[start + batch + 1]] = "started"]
          /\ batch' = batch + 1
          /\ UNCHANGED at
  /\ UNCHANGED <<input, cancel_token, paths, start, gathered, written, document, delivered,
                 outcome>>

BatchLaunched ==
  /\ at = "launching"
  /\ start + batch = BatchEnd
  /\ batch > 0
  /\ at' = "gathering"
  /\ UNCHANGED <<input, cancel_token, progress, threads, delivered, outcome>>

(* Mutation: the documents are taken as their threads finish.               *)
GatherAnyDocument ==
  /\ at = "gathering"
  /\ gathered < batch
  /\ \E k \in start + 1 .. start + batch :
       /\ work[paths[k]] = "done"
       /\ telemetry' = telemetry \o DocumentEvents(paths[k])
       /\ results' = Append(results, paths[k])
  /\ gathered' = gathered + 1
  /\ UNCHANGED <<input, cancel_token, at, paths, start, batch, written, threads, output, outcome>>

(* future.get() in launch order, then the events and the document.          *)
GatherDocument ==
  /\ at = "gathering"
  /\ gathered < batch
  /\ LET f == paths[start + gathered + 1]
     IN /\ work[f] = "done"
        /\ telemetry' = telemetry \o DocumentEvents(f)
        /\ results' = Append(results, f)
  /\ gathered' = gathered + 1
  /\ UNCHANGED <<input, cancel_token, at, paths, start, batch, written, threads, output, outcome>>

(* Mutation: the next batch begins with the futures of this one.            *)
BatchNotCleared ==
  /\ at = "gathering"
  /\ gathered = batch
  /\ start' = start + batch
  /\ gathered' = 0
  /\ at' = "launching"
  /\ UNCHANGED <<input, cancel_token, paths, batch, written, threads, delivered, outcome>>

BatchGathered ==
  /\ at = "gathering"
  /\ gathered = batch
  /\ start' = start + batch
  /\ batch' = 0 /\ gathered' = 0
  /\ at' = "launching"
  /\ UNCHANGED <<input, cancel_token, paths, written, threads, delivered, outcome>>

ReturnDocuments ==
  /\ at = "launching"
  /\ start = Len(paths)
  /\ results' = IF settings.ordered THEN SortedByPath(results) ELSE results
  /\ Return("ok")
  /\ UNCHANGED <<input, cancel_token, progress, threads, output, telemetry>>

(* Mutation: a cancelled call returns while its threads run.                *)
UnwindAtOnce ==
  /\ at = "unwinding"
  /\ results' = <<>>
  /\ Return("cancelled")
  /\ UNCHANGED <<input, cancel_token, progress, threads, output, telemetry>>

(* The documents gathered so far are dropped; their events are not.         *)
Unwind ==
  /\ at = "unwinding"
  /\ \A k \in start + 1 .. start + batch : work[paths[k]] = "done"
  /\ results' = <<>>
  /\ Return("cancelled")
  /\ UNCHANGED <<input, cancel_token, progress, threads, output, telemetry>>

-----------------------------------------------------------------------------
(* export_streaming.                                                        *)

NextPath ==
  /\ at = "next"
  /\ start < Len(paths)
  /\ IF cancel_token
     THEN Return("cancelled")
     ELSE at' = "opening" /\ UNCHANGED outcome
  /\ UNCHANGED <<input, cancel_token, progress, threads, delivered>>

(* Opening the file, the memory and model limits, the tokenizer: the first  *)
(* error ends the export.                                                   *)
OpenPath ==
  /\ at = "opening"
  /\ \/ \E error \in {"io_error", "resource_limit_exceeded", "tokenizer_error"} :
          Return(error)
     \/ at' = "exporting" /\ UNCHANGED outcome
  /\ UNCHANGED <<input, cancel_token, progress, threads, delivered>>

(* The stream and the exporter read the token before each chunk; chunks     *)
(* made in parallel are exported as a vector, which nothing interrupts.     *)
ReadsOn(f) == InParallel(f) \/ ~ cancel_token

ExportChunk ==
  /\ at = "exporting"
  /\ LET f == paths[start + 1]
     IN /\ ReadsOn(f)
        /\ written < files[f].chunks
        /\ output' = Append(output, [file |-> f, chunk |-> written + 1])
  /\ written' = written + 1
  /\ UNCHANGED <<input, cancel_token, at, paths, start, batch, gathered, threads, results,
                 telemetry, outcome>>

(* Encoding fails before the first chunk, writing at any of them.           *)
ExportError(f) ==
  {error \in {"tokenizer_error", "export_failed", "cancelled"} :
     CASE error = "tokenizer_error" -> written = 0
       [] error = "export_failed" -> ReadsOn(f) /\ written < files[f].chunks
       [] error = "cancelled" -> ~ ReadsOn(f)}

(* Mutation: the result of the export is not looked at, and the next file   *)
(* is begun.                                                                *)
ExportErrorIgnored ==
  /\ at = "exporting"
  /\ ExportError(paths[start + 1]) # {}
  /\ start' = start + 1
  /\ written' = 0
  /\ at' = "next"
  /\ UNCHANGED <<input, cancel_token, paths, batch, gathered, threads, delivered, outcome>>

(* The chunks of this file that are written stay in the output.             *)
ExportFails ==
  /\ at = "exporting"
  /\ \E error \in ExportError(paths[start + 1]) : Return(error)
  /\ UNCHANGED <<input, cancel_token, progress, threads, delivered>>

(* A file exported as a vector has no event.                                *)
ExportSucceeds ==
  /\ at = "exporting"
  /\ LET f == paths[start + 1]
     IN /\ ReadsOn(f)
        /\ written = files[f].chunks
        /\ telemetry' = IF InParallel(f) THEN telemetry
             ELSE telemetry \o
               <<[metric |-> "duration", file |-> f, value |-> "milliseconds"],
                 [metric |-> "bytes", file |-> f, value |-> "bytes"]>>
  /\ start' = start + 1
  /\ written' = 0
  /\ at' = "next"
  /\ UNCHANGED <<input, cancel_token, paths, batch, gathered, threads, results, output,
                 outcome>>

ExportDone ==
  /\ at = "next"
  /\ start = Len(paths)
  /\ Return("ok")
  /\ UNCHANGED <<input, cancel_token, progress, threads, delivered>>

-----------------------------------------------------------------------------
TokenChanges ==
  /\ cancel_token' \in BOOLEAN
  /\ UNCHANGED <<input, at, progress, threads, delivered, outcome>>

Run ==
  \/ ReturnSingle \/ LaunchFile \/ BatchLaunched
  \/ GatherDocument \/ BatchGathered \/ ReturnDocuments \/ Unwind
ExportStreaming ==
  NextPath \/ OpenPath \/ ExportChunk \/ ExportFails \/ ExportSucceeds \/ ExportDone

Caller == RefuseConfiguration \/ TakeSingleFile \/ CollectPaths \/ Run \/ ExportStreaming
FileThread == \E f \in Numbers : ProcessFile(f)

PipelineNext == Caller \/ FileThread \/ TokenChanges

(* The calling thread and the threads of std::async keep running.           *)
PipelineSpec ==
  /\ PipelineInit
  /\ [][PipelineNext]_pipeline_vars
  /\ WF_pipeline_vars(Caller)
  /\ WF_pipeline_vars(FileThread)

-----------------------------------------------------------------------------
Processing == {f \in Numbers : work[f] \notin {"none", "done"}}

(* Never more files in work than workers, and none when the call returns,   *)
(* cancelled or not: the threads read the caller's configuration by         *)
(* reference.                                                               *)
(* Code: lines 232-248 of src/directory_pipeline.cpp.                       *)
ThreadsStayInTheCall ==
  /\ Cardinality(Processing) <= settings.workers
  /\ at = "returned" => Processing = {}

(* run returns one document for each collected path, in path order for      *)
(* either result_order, however the threads interleave; what was recorded   *)
(* in telemetry so far are the two events of each document in that order.   *)
(* Code: lines 244-268 of src/directory_pipeline.cpp.                       *)
DocumentsFollowPaths ==
  operation = "run" =>
    /\ outcome = "ok" => results = paths
    /\ at \in {"launching", "gathering"} => results = SubSeq(paths, 1, start + gathered)
    /\ is_directory =>
         /\ Len(telemetry) = 2 * (start + gathered)
         /\ \A k \in 1 .. start + gathered :
              <<telemetry[2 * k - 1], telemetry[2 * k]>> = DocumentEvents(paths[k])

IsWritten(f, c) == \E k \in 1 .. Len(output) : output[k] = [file |-> f, chunk |-> c]

(* By file and then by place in the file.                                   *)
Before(w, v) == w.file < v.file \/ (w.file = v.file /\ w.chunk < v.chunk)

ChunksOf(f) == {[file |-> f, chunk |-> c] : c \in 1 .. files[f].chunks}
ChunksToWrite == UNION {ChunksOf(paths[i]) : i \in 1 .. Len(paths)}

(* However export_streaming ends, its output is a prefix of the chunks of   *)
(* all collected files in path order: each chunk at most once, and none     *)
(* before those it follows; the file it stopped in may be written in part.  *)
(* A successful call has written them all, and an event is recorded only of *)
(* a file whose every chunk is written.                                     *)
(* Code: lines 308-398 of src/directory_pipeline.cpp.                       *)
ExportIsPrefix ==
  operation = "export" =>
    /\ \A j, k \in 1 .. Len(output) : j < k => Before(output[j], output[k])
    /\ \A k \in 1 .. Len(output) :
         /\ output[k] \in ChunksToWrite
         /\ \A w \in ChunksToWrite : Before(w, output[k]) => IsWritten(w.file, w.chunk)
    /\ outcome = "ok" => \A w \in ChunksToWrite : IsWritten(w.file, w.chunk)
    /\ \A k \in 1 .. Len(telemetry) :
         LET f == telemetry[k].file
         IN f \in Numbers /\ \A c \in 1 .. files[f].chunks : IsWritten(f, c)

(* With a token that was set before the call and stays set, no document     *)
(* gets chunks and no chunk is written, in parallel or not.                 *)
(* Code: lines 42, 238 and 310 of src/directory_pipeline.cpp.               *)
SetTokenStopsEverything ==
  [](cancel_token) =>
    [](/\ \A f \in Numbers : ~ document[f].chunks
       /\ operation = "export" => output = <<>>)

(* Both methods return.                                                     *)
(* Code: the loops of lines 232-265 and 308-397 and the waits of line 246.  *)
PipelineReturns == <>(at = "returned")

(* A successful run over a directory has a document for every regular file  *)
(* whose own path is not hidden.                                            *)
(* Code: hidden_path, lines 26-32 of src/directory_pipeline.cpp, applied to *)
(* the whole path in lines 207 and 291.                                     *)
VisibleFilesAreProcessed ==
  is_directory /\ outcome = "ok" =>
    \A f \in Numbers : files[f].regular /\ ~ files[f].hidden =>
      \E k \in 1 .. Len(results) : results[k] = f

=============================================================================
