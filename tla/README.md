# FastChunk in TLA+

TLA+ modules, TLC configurations and TLAPS proofs for FastChunk, a C++20 library
that reads text, cuts it into token-bounded chunks and exports them. The models
follow the source, not its documents; paths below are relative to the repository.

Contents: [the system](#the-system), [the modules](#the-modules),
[the runs](#the-runs), [fairness](#fairness), [the proofs](#the-proofs),
[what is only model-checked](#what-is-only-model-checked),
[divergences](#divergences-found), [not modelled](#not-modelled),
[plan](#plan).

## The system

A buffer comes from a reader, a tokenizer turns it into a vector of byte ranges, a
chunker cuts that vector into overlapping windows, and the windows become chunks
that are pulled, collected or exported. A directory pipeline does this for many
files, with telemetry on the side.

| Component | Source | State | Operations | Interacts with |
| --- | --- | --- | --- | --- |
| Chunk stream | `src/core/chunker.cpp` `ChunkStreamImpl` | next token, chunk index, own cancel flag | `stream_buffer`, `next`, `cancel` | reads the caller's `CancellationToken` |
| Sequential chunker | `src/core/chunker.cpp` `chunk_buffer` | local result vector | `chunk_buffer` | pulls a chunk stream |
| Parallel chunker | `include/parallel_chunker.h` | window plan, futures, merged vector | `chunk_buffer_parallel` | worker threads; falls back to `chunk_buffer` |
| Stateful stream chunker | `include/fastchunk/stream_chunker.h` | residual bytes | `push_bytes`, `flush` | calls `chunk_buffer` |
| NDJSON exporter | `include/fastchunk/ndjson_exporter.h` | the output stream, retry policy | `export_chunks`, `export_stream` | pulls a chunk stream, writes an `ostream` |
| Directory pipeline | `src/directory_pipeline.cpp` | path list, batch of futures, documents | `run`, `export_streaming` | all of the above, one thread per file |
| Asynchronous telemetry | `src/telemetry.cpp` | bounded queue, delivered events, diagnostics, stop flag | `record`, `shutdown`, reads | one worker thread; an exporter |
| Bounded telemetry | `src/telemetry.cpp` | bounded vector | `record`, reads | same queue rule, no thread |
| Cancellation token | `include/fastchunk/core.h` | one relaxed atomic | `request_cancel`, `reset` | read by stream, exporter, pipeline |
| Reader | `src/io/mmap_reader.cpp` | mapping, descriptor, copied buffer | `open`, `close` | UTF-8 validation or repair |
| UTF-8, NDJSON parser, metadata | `include/simd_utf8.h`, `include/ndjson_parser.h`, `include/metadata_processor.hpp` | none | pure functions | reader, C ABI |
| C ABI | `src/abi/spec_abi.cpp` | reader, chunker, stream, token handles | create, open, next, cancel, destroy | wraps reader and chunker |
| Tokenizers | `src/tokenizers/tokenizers.cpp`, Rust backends | model handles | `encode` | called by every chunker |
| Configuration | `src/config.cpp` | configuration record | `load_configuration`, `validate` | read by the command line and the pipeline |
| Command line | `src/cli/main.cpp` | its words, the settings, the export file | parse, override, export, exit | loads a configuration, drives the pipeline |
| Python bindings | `src/bindings/python/` | iterator, warning mode | `stream_file`, `__next__`, `close`, `set_warning_mode` | a chunk stream; Python's warnings run Python code |

What is hard in each, and what makes it correct:

* **Chunk stream.** Index arithmetic on `std::size_t` with sizes up to its maximum,
  a step back (the overlap) that must still be a step forward, an oversized-token
  branch, a 32-bit chunk index that wraps, and a token another thread sets and
  resets at any time. Correct when what it delivers is always a prefix of the
  windows given by a closed formula, the end means everything was delivered, and a
  reported cancellation is final.
* **Sequential chunker.** All the windows or one error and no chunk, and it returns.
* **Parallel chunker.** Slices rounded up, tasks left without work, workers that
  hold the caller's frame by reference, results in any order. Correct when it
  cannot be told from the sequential chunker, and no worker outlives the call.
* **Stateful stream chunker.** Blocks of any size, failures between calls. Correct
  when no word byte is lost or reordered across calls, and exactly the overlap is
  repeated.
* **NDJSON exporter.** Writes that fail in whole or part, retries with a doubling
  delay, cancellation between chunks. Correct when the output is the chunks in
  order and the result says how many.
* **Directory pipeline.** Files processed on threads and gathered in order, a token
  read by two threads at three places. Correct when documents follow paths, no
  thread outlives the call, a set token stops the work, and an export that fails in
  the middle of a file leaves a beginning of the whole output.
* **Telemetry.** A condition variable, a queue at its limit, recording during an
  export, shutdown during an export, several closing threads. Correct when events
  keep their order, none vanishes silently, shutdown drains, nobody sleeps forever.
* **Reader.** Several resources taken one by one, each of which may fail, over
  handles that keep what earlier calls left. Correct when nothing of the operating
  system is lost and an active handle shows the input as its policy says.
* **UTF-8, NDJSON lines.** Three copies of one byte test; offsets that must survive
  repair, blank lines and carriage returns. Correct against a definition that does
  not scan.
* **C ABI chunking.** One handle over many streams, with a token read by each of
  them. Correct when it delivers the records' windows in order, its final answers
  stay, and a failed run holds whole records.
* **JSON scanner.** Nested values, escapes, duplicate keys, three kinds of closing.
  Correct when it takes exactly the lines a grammar takes, with the grammar's id.
* **Configuration, command line.** Three layers given in any order, two validations,
  an export file that is emptied when it is opened. Correct when the last word, else
  the file, else the default is in force, a refusal touches nothing, and success
  means the whole output.
* **Python iterator.** Threads share it and Python code runs in the middle of a call.
  Correct when each chunk goes to one caller and an end is one for all.

The list of hazards, each at its line, is in `PROJECT.json`.

## The modules

| Module | Models | Uses |
| --- | --- | --- |
| `SlidingWindow` | the window arithmetic shared by both chunkers, and its closed form | |
| `ChunkStream` | `stream_buffer`, `next`, `cancel`, the token | `SlidingWindow` |
| `ChunkingContract` | abstract specification of a chunking call | `SlidingWindow` |
| `ChunkBuffer` | `ChunkerImpl`: `chunk_buffer`, or a stream its caller pulls | extends `ChunkStream`; implements the contract |
| `ParallelChunker` | `chunk_buffer_parallel` | `SlidingWindow`; implements the contract |
| `WhitespaceTokens` | the whitespace tokenizer's boundaries | `SlidingWindow` |
| `StreamChunker` | `push_bytes`, `flush` | `WhitespaceTokens`; `chunk_buffer` by the contract's answer |
| `NdjsonExporter` | `export_chunks`, `export_stream`, `write_with_retry` | extends `ChunkStream` |
| `DirectoryPipeline` | `run`, `process_file`, `export_streaming` | chunker and exporter by what they promise |
| `AsyncTelemetry` | `AsyncTelemetryCollector` | |
| `Utf8` | `validate`, `repair_utf8_bytes`, `repair_utf8`, and their reference | |
| `JsonScanner` | `NdjsonParser::JsonScanner` | |
| `NdjsonLines` | `NdjsonParser::parse` | extends `JsonScanner` |
| `JsonGrammar` | the reference for a line: a grammar that reduces it bottom up | `JsonScanner`'s symbols |
| `MmapReader` | `open`, `close` over the operating system | `Utf8` |
| `AbiReader` | `fastchunk_reader_*` | extends `MmapReader`, `NdjsonLines`, `JsonGrammar` |
| `AbiStream` | `fastchunk_chunker_run`, `_stream`, `fastchunk_stream_*` | `SlidingWindow`; `chunk_buffer` by the contract |
| `Configuration` | the defaults, `validate`, `load_configuration` | |
| `CommandLine` | `main` and `parse` of the program | extends `Configuration`; the pipeline by what it promises |
| `PythonBindings` | the iterator `ChunkStream`, `set_warning_mode`, the exceptions | the stream as `ChunkStream` has it, without a token |
| `SmallInputs`, `MC*` | bounded instances | |
| `OperatorProofs` | lemmas on folds, recursion over numbers and the windows | `SlidingWindow` |
| `StreamProofs` | theorems on the stream and the two that pull it | `ChunkBuffer`, `NdjsonExporter`, `OperatorProofs` |
| `ParallelChunkerProofs`, `DirectoryPipelineProofs`, `CommandLineProofs` | theorems on the module of that name | it and `OperatorProofs` |
| `JsonProofs` | the scanner of a line finds what the grammar finds | `JsonGrammar`, `OperatorProofs` |
| `AbiProofs` | theorems on the handles of the C ABI | `AbiReader`, `AbiStream`, `JsonProofs` |
| `StatefulObjectProofs` | theorems on the objects whose state outlives a call | `AsyncTelemetry`, `PythonBindings`, `StreamChunker`, `OperatorProofs` |

### How the models correspond to the code

**Data.** A token is its byte range. A chunk is its span of tokens, its byte range
and its index: its text, ids, record id and offsets are functions of these and of
the call's context, and are left out. Machine integers keep their width through the
constants `SizeModulus` (`std::size_t`) and `IndexModulus` (`std::uint32_t`).

**ChunkStream.** Variables carry the names of `ChunkStreamImpl`'s members.
`StreamBuffer` is the whole of `stream_buffer` with its guards in order and a
tokenizer that may fail. One call of `next` is two steps, because the token is
loaded once, at its start: `BeginNext` or `NextCancelled`, then `NextChunk` or
`NextEnd`; `RequestCancel` and `ResetToken` of another thread come anywhere
between. A relaxed load that still sees an old value is the interleaving in which
the store comes later. `WindowEnd`, `IsOversized`, `NextStart` are lines 51-59 and
92-105 as written, modulo `SizeModulus`.

**ChunkBuffer.** Each pull of the loop is a step of `ChunkStream` joined with what
the loop does with it. `Contract!ContractSpec` is the refinement; the mapping is
the identity on `options`, `tokens`, `cancel_token` and `outcome`. A behaviour uses
one of the two operations: `operation` says which, and `StreamCaller` is a caller that
pulls and cancels a stream of its own.

**ParallelChunker.** The caller encodes, plans one window per step, launches one
task per step and collects one future per step; a worker makes one chunk per step.
Workers run as soon as they are launched. The call may be left early with workers
still running: `LaunchFails` (`std::async` throws), `CollectFails` after
`WorkerThrows` (`get()` throws it again) or after an exception of the merge itself.
The error return at lines 119-122 leaves the loop at the same place; no worker's
lambda returns an error, so an exception is what takes that exit. `Unwind` is
what happens then: the destructors of the futures, which wait because they come
from `std::async`. Pairs of sizes that break the rule of
`stream_buffer` are unspecified in the contract this module implements, because
nothing refuses them here (see the divergences). A plan that would not end is cut off
at `MaxWindows`, where `push_back` throws.

**StreamChunker.** Bytes are words or spaces. Positions count the whole stream, so
bytes can be followed across calls; `dropped` are those `flush` forgets when
`chunk_buffer` fails. A call is one step: only one thread uses the object, and its
token is read once, at the start. What is kept of the residual is what lies behind the
last chunk's end, so chunks of two calls do not overlap: `OverlappingTailIsRetained`
states what the comments promise and is violated. The properties that hold are
written so that a version which does keep the overlap would satisfy them too.

**NdjsonExporter.** `CheckToken` and the stream's own check are separate loads. A
write is accepted whole, or the stream goes bad after none or part of the line;
`output` is the sequence of whole and torn lines. The stream has no buffer of its
own here.

**DirectoryPipeline.** Files are numbered in path order and have four attributes:
regular, hidden below the root, big (1 MiB), and how many chunks they are cut into. `root_dotted` says that a component of
the configured root begins with a dot. Each step of `process_file` that reads the
token is a step of its thread; every limit and failure is one of the error outcomes
of `PrepareFile` and `ChunkFile`. `Unwind` is the return inside the launching loop:
the destructors of the futures wait. `std::async` itself is taken to succeed.
`export_streaming` writes chunk by chunk (`ExportChunk`) and may fail or be cancelled
before each of them (`ExportFails`); what it has written of the file stays in
`output`. A record that failed is not counted there: what it leaves is the matter of
`NdjsonExporter`.

**AsyncTelemetry.** `mutex_` makes each locked block a step. The worker's wait is
`WorkerWaits` (predicate false), woken by `NotifyOne` or `SpuriousWakeup`; taking a
batch, exporting, reporting and delivering are four steps with the lock free
between them, so records and shutdowns fall in between. `accepted` numbers events.

**Utf8.** Bytes are numbers. The validator and the two repairs have a length test
each, translated one by one from `simd_utf8.h:69`, `mmap_reader.cpp:46` and
`spec_abi.cpp:263`; `RepairWith` is the loop the two repairs share. The reference
decodes code points and looks at each byte by itself. `Character` is UTF-8 as RFC 3629
has it: the shortest form of a code point that is no surrogate. The code lets more
through, under every policy, and `Tolerated` names it: three- and four-byte forms of
smaller code points, a surrogate in four bytes among them. `ActiveInputFollowsPolicy`
speaks of both together (`Accepted`), `ActiveInputIsUtf8` of characters alone and is
violated.

**JsonScanner.** A position is the number of bytes scanned. Each function of the
scanner is the set of places it may stop at, empty when it fails, so `&&` and early
returns become unions; the loops over members and elements are one recursive function
of where the scanner is, which gives what each of its three parts finds from there. Strings are scanned with their escapes, which matters
for keys and ids.

**JsonGrammar.** It is written independently and uses nothing of the scanner but the
names of the bytes: it shifts a line byte by byte and reduces strings, values, members
and brackets, never going forward to look for an end. Spaces, escapes, words and
numbers are those of RFC 8259 (`JsonSpace`, `Escaped`, `JsonWords`, `JsonNumber`).
Where the parser's lines are another language the difference has a name:
`ToleratedSpace` (vertical tab and form feed), `ToleratedLiteral` (anything that begins
with a digit) and `RefusedLiteral` (a signed number, a word with space behind it).
`DialectIds` is JSON with these differences. Left to both: `\u`
stays as it is written, with four bytes behind it (`JsonRead` leaves such lines out,
since JSON says another thing of their keys), a byte of a string above 127 is taken as
it is, and with no id field the dialect still asks of an empty key what it asks of the
field. `LinesAreJudgedByGrammar` says that the scanner is the dialect, and that for a
line that is an object of JSON it finds the object's id, but for the lines with a
refused literal, of which it finds none.

**NdjsonLines.** `ParseRecords` is the loop of `parse` with its offsets, over the
scanner. A generated id, made of the record's place, is left empty.

**MmapReader.** A state is the reader's members and `os`, the descriptors and
mappings taken. `Open` gives the set of outcomes of a call, one for each step that
can fail, and `Close` the state it leaves; the handle's actions choose among them.

**AbiReader.** Each C function is a step, since one thread owns a handle. A failed
open leaves in the handle what the code leaves: a file that is open although parsing
failed stays open until the next open or close. The file and the caller's buffer are
fixed in a behaviour.

**AbiStream.** `stream_next` is a loop over the record streams; each turn is a step
that loads the token (`StreamAdmitted`, `StreamCancelled`) and a step that answers
(`StreamGivesChunk`, `StreamEnded`), so the token may be set in the middle of a call
that passes several ended streams. `chunker_run` is a step per record. The reader
stays open, as its lifetime rule asks of the caller.

**Configuration.** A record with a field for each option that a rule or the command
line looks at; a document says which options it gives, which of all the options, those
that are only carried along included, have a scalar of the wrong type, and which
sections hold unknown keys. `Rules` are the tests of
`validate` in their order and `SectionOrder` the sections in theirs, since the first
error is the one reported. A word an enumeration does not know counts as its first
value, in the file and on the command line (`Meaning`).

**CommandLine.** One step per word, then `LoadFile`, `Override`, `OpenOutput`, one
step per exported file, and `Finish`. Contents are sequences of chunks. `Input` is what
`export_streaming` takes of the input: below a directory the files its recursive and
hidden filters let through, which are none below a path with a dotted component. A
line on the disk is a record, behind the torn remains of attempts that failed and were
repeated (`Line`, `Torn`: at most `max_attempts - 1` of them, as `ndjson_exporter.h:161`
does). `Flushed` lets output reach the disk at any moment, and what an exit leaves may
be cut in the middle of a line (`Left`); `tail_lost` says that the last of it did not
reach it, behind the exit code. `OpenOutput` empties the export file before the input is
read, as `std::ofstream` does before `export_streaming` is called.

**PythonBindings.** The interpreter lock makes a call one step, except where
`warnings.warn` shows a warning: `NextWarns` leaves the thread there with its view,
other threads (or the code that shows the warning) call on, and `WarningShown` makes
the dict from whatever memory the view points to by then. `chunk_id` is the only field
whose memory a later call overwrites (`chunker.cpp:73`).

## The runs

| Run | Question | Instance and why it is enough |
| --- | --- | --- |
| `chunker` | a stream's deliveries against the closed form, final cancellation; `chunk_buffer` refines the contract and returns | every mixture of up to 3 short and long tokens and up to 6 short ones; windows 0-4 and the largest `size_t`, overlaps 0-3; `SizeModulus` 12 so that sums wrap, `IndexModulus` 4 so that the index wraps within 6 windows |
| `parallel_chunker` | refinement for 1, 2, 3, 5 threads, slices, no leaked worker, also when a thread cannot be started or one throws | up to 7 windows: more than, as many as and fewer than the tasks, with empty slices (5 tasks, 7 windows) |
| `stateful_objects`: the chunker | bytes across calls | 5 bytes in blocks of 0-3, sizes 0-3: cuts inside words, blank runs, several pushes and flushes |
| `stateful_objects`: the iterator | shared iteration | 2 threads, up to 3 windows, each with or without a diagnostic: a call overtaken by one and by two others, which is all that tells an id that is the newest from one that is not |
| `ndjson_exporter` | output and results | up to 4 chunks, six retry policies, any subset of writes failing |
| `directory_pipeline` | threads, order, events, token, partly written files | up to 3 files of up to 2 chunks, 1 or 2 workers: one full and one partial batch |
| `async_telemetry` | order, loss, drain, wake-ups | capacities 0, 1, 3, batches of 2, 5 events, 2 closing threads: overflow while a batch is out, a partial last batch |
| `abi`: the reader | resources, repair, records | sequences of 1-4 bytes on both sides of every limit of the three byte tests, opened with every policy; lines of JSON, well and badly formed (nested, escaped, with duplicate keys, empty ids, wrong brackets), blank lines, both line ends, no last line feed, opened as records with and without an id field; literals of every kind, tolerated and refused ones among them; two descriptors and addresses, one more than a handle uses |
| `abi`: the stream | the handle's answers, the token, whole records | up to three records, empty ones included, of up to 4 tokens; windows 1-3 with every smaller overlap; `IndexModulus` 2, so that the index wraps within a record |
| `command_line` | who wins, what is touched, what success means | every pair of 25 groups of words, alone, behind a complete command and over a complete file; 20 documents that break each kind of rule, repeat writes or take hidden files; an input that is a file, a directory with a hole, a hidden file and a deeper one, a directory with a dotted name, or the export file itself |
| `hidden_root`, `export_lines`, `overlap_across_calls`, `valid_utf8` | findings | expected violations, over the instances above |

Two runs check two models each, because each pair has the same caller and no state in
common: a behaviour of `abi` uses a reader handle or a stream over a reader, one of
`stateful_objects` a stream chunker or a Python iterator (`used` in the MC modules),
and the part that is not used keeps one fixed input.

The properties of a run are those that can fail for more than one reason. The type
invariants of `ParallelChunker`, `StreamChunker`, `NdjsonExporter`,
`DirectoryPipeline`, `AsyncTelemetry`, `AbiReader` and `AbiStream` are in their modules
as declarations of the variables' ranges and are in no configuration file; that of
`ChunkStream` is, because it bounds the arithmetic. That of `AsyncTelemetry` is proved;
its queue's limit is a part of `LossIsReported`.

Bounds that exist only in the models: `MaxWindows` (memory), `MaxBytes`
(`StreamChunker`), `MaxEvents` (`AsyncTelemetry`), one stream and one run per
behaviour (`AbiStream`), and the pools of `MmapReader`. Deadlock is checked where a
system never stops by itself: `chunker`, `parallel_chunker` and both models of
`stateful_objects` always have an enabled step of the caller, in `abi` only a destroyed
reader has none (`MCFinished`), and in `command_line` only `Exited` is left at the end,
so that a program stuck before its exit would show. The other runs say
`CHECK_DEADLOCK FALSE` where the last call has returned.

No run uses symmetry. Each property has a mutation of the code's model that breaks
it, kept in the module beside the definition it replaces (marked `Mutation:`).

## Fairness

Weak fairness is given to threads that are inside a call: the thread executing
`chunk_buffer`, `chunk_buffer_parallel`, an export or a pipeline method, the threads
they start with `std::async`, the telemetry worker, and a thread that has set
`stopping_` and is on its way to the join. The operating system schedules runnable
threads; nothing in those steps waits except on what the models show. Not fair:
callers (nobody must record, push, shut down, pull or iterate), the token's owner, spurious
wake-ups, and the success of writes or exports. That an export ends is the curl
timeout of `src/telemetry.cpp:95` (`CURLOPT_TIMEOUT_MS`, 5000).

## The proofs

Checked by TLAPS for all values of the constants under the assumptions the modules
name. Each says what the code is given, and TLC evaluates it on every instance:
`ModulusAssumption` (the moduli are positive); `InputAssumption` and
`AbiStreamAssumption` (inputs are token vectors that fit in memory, `FitsMemory`: a
token takes 24 bytes, so twice their number stays below `SizeModulus`; in
`PythonBindings`, sequences of Booleans; options of an ABI handle satisfy the rule its
creation checks); `OptionAssumption`, `PolicyAssumption`, `ThreadAssumption`,
`WorkerAssumption`, `LimitAssumption`, `CapacityAssumption`, `BatchAssumption`,
`EventAssumption`, `MemoryAssumption` (arguments have their types; a pool of workers is
not empty); `DirectoryAssumption` (a directory is a sequence of files);
`PoolAssumption` (descriptors and addresses are numbers above zero); `SourceAssumption`
(files are sequences of bytes, options are options); `CommandLineAssumption` (words are
strings, contents sequences of chunks, a directory's files are files, the file that
`--config` names is a document) and `DashedAssumption` (options begin with two dashes;
which other words do is left open).

No inductive invariant below is the property itself: each adds what a step of the
program relies on.

* `OperatorProofs`. Lemmas on the machine arithmetic: the sum `start + max_tokens`
  either does not wrap or is beyond the input (`FitsMemory` is what makes this true),
  and `WindowStep`: one turn of the loop computes the next window of the closed form;
  `LastWindow`: the last of `WindowCount` windows ends the input. Then what stands in
  for induction. The induction theorems of the library cannot be used, but
  every non-empty set of numbers has a least element (`LeastNatural`, since `<` is well
  founded), and from it follow `FromTheEnd` (what passes from all later positions to
  this one holds everywhere) and `BackwardRecursion` (a function computed
  from the end of a sequence exists). So loops written as recursive functions over
  positions, and the fold `FlattenSeq`, can be reasoned about (`FlattenGrows`,
  `LaidEndToEnd`). Last the windows of a chunking call as a whole: their bytes lie
  between the first token and the last (`WindowsSpan`), and every token is in one of
  them (`WindowsCover`).
* `StreamProofs`. `StreamInv` adds to the type invariant that position and chunk index
  are those of the number of windows delivered, and that these follow the reference.
  `DeliveredFollowsReference` is not inductive alone: it says nothing of where the
  stream stands, from which the next window is computed. From it follow
  `StreamTypeCorrect`, `WindowArithmeticNeverWraps` (the sums of machine integers are
  those of numbers in every reachable state; that they lie in their type says nothing,
  since the model takes them modulo its size), `StreamFollowsReference`, `StreamIsComplete` (end of stream means
  all tokens delivered with exactly the configured overlap) and the action property
  `StreamCancellationIsFinal`. `BufferInv` adds that the vector under construction is
  the delivered chunks without their diagnostics, and that the stream inside
  `chunk_buffer` has not been cancelled by anyone; with it `BufferRefinesContract`
  proves, step by step, that `ChunkBuffer` implements `ChunkingContract`.
  `ExporterInv` relates three counters of the exporter (lines, chunk index, position of
  the stream) and bounds the next delay; from it follow `ExporterFollowsReference`
  (the output is the windows in order, and at most one torn line behind each failed
  attempt), `ExporterResultIsHonest` and `ExporterDelaysGrow`.
* `ParallelChunkerProofs`. `ParallelInv`: the plan so far is the closed form's windows,
  the phase says how much of it there is, the slices cut it in order and without
  rest, a worker's chunks are those of its slice, the merged vector is the slices up to
  the one being collected; a call that has returned has every worker finished, since
  `Unwind` and `ReturnMerged` both wait. From it: `SlicesPartition`, `NoWorkerOutlives`, and
  `ParallelRefinesContract`: the parallel chunker implements the same contract as the
  sequential one, for every number of threads, where the contract allows a thread to
  fail (`ThreadFails`). `ParallelTypeOK` is not a theorem: with
  sizes nothing has checked, a planned window may lie outside the tokens, and what
  the code then reads is undefined, so the proof speaks of windows that were made
  from the tokens (`Made`).
* `StatefulObjectProofs`, the stateful chunker. First the tokenizer's loop: `EncodeFindsTokens` proves that
  what it collects are the maximal runs of word bytes, in order and inside the text, so
  that no word byte is left out; with `WindowsSpan` and `WindowsCover` the chunks of a
  block cover every word byte of it (`ChunksCoverWords`). Then `ChunkerInv`: the
  residual is what is left of the stream behind the bytes retired
  (`ResidualIsTheRest`), and the batches returned follow each other up to that point
  and hold each word byte before it that no failed flush dropped (`BatchesUpTo`).
  `NoWordByteIsLost` alone is not inductive: it does not say that the batches
  end where the residual begins, without which the next batch could leave a byte out.
  From it: `WordBytesAreKept`, `CallsInStreamOrder`, `HeldBackIsLittle`. The invariant is
  stronger than these: it follows the code, which repeats nothing, while the properties
  allow the documented overlap.
* `DirectoryPipelineProofs`. `PipelineInv`: a thread at work has the single file, or a
  file of the batch whose document is not collected; documents are the paths collected
  so far; events come in pairs for them; the chunks an export has written are those
  of the files before `start` and the first `written` of the next (`ChunksExported`),
  without which a failure in the middle of a file could be followed by anything. From it: `NoThreadOutlivesTheCall`,
  `DocumentsComeInPathOrder`, `ExportWritesAPrefix`. That `paths` is in order is the
  one statement about the sort: `SortedByPath` proves that an ascending arrangement of
  a finite set exists and is unique, by ranks. `SetTokenStops` is a statement about
  behaviours in which the token stays set; with it, `NothingGoesOn` is kept by every
  step: no thread is past its first test, and no chunk is written.
* `AbiProofs`, the streams. `AbiStreamInv`: the answers so far are the first of `Everything`,
  the windows of all records laid end to end (`RecordWindows`); the active stream is
  at the window after those it gave and the later ones at their beginning
  (`StreamsAtNextWindow`); a final answer fits the state of the streams
  (`FinalAnswers`); a run's chunks are those of whole records (`RunShape`). From it:
  `StreamDeliversRecords`, `RunKeepsWholeRecords` and the action property
  `AnswersAreFinal`.
* `AbiProofs`, the reader. First the bytes: `LengthIsAccepted` (the test by bit patterns
  takes n bytes exactly when the decoded code point makes a character of them or one of
  the sequences that `Tolerated` names),
  `ErrorOffsetIsFirstStray` (the scan jumps from character to character and still stops
  at the first byte that is in none), `RepairIsReference` (both loops write what the
  reference writes byte by byte, and the result validates). None of them says that the
  result is UTF-8, which it is not (`valid_utf8`). The argument is by
  boundaries: a position that is in the middle of no character; the length test leads
  from one to the next. Then the handle. `ReaderInv`: what the process holds is what
  the reader will give back (`Tidy`), a destroyed handle has no descriptor, and the view
  of an active handle is in memory that is still there (`ViewIsHeld`), which
  `NothingLeaks` alone does not say. `PolicyInv` adds that the data follow the policy
  and that an encoding error names the first stray byte. From them: `ReaderLeaksNothing`
  and `ReaderFollowsPolicy`, for every input and every pool. Last the records.
  `ParseRecords` runs over the lines from the last one back, so that its loop exists
  by `FromTheEnd` (`ParserRuns`). The code's end of a line, with its test for a carriage
  return, is the reference's (`LineIsContent`), and `LineTaken` puts one line in front
  of those that follow it: under the error policy the first malformed line overrides
  whatever came of the later ones. `ParserFollowsLines` is the two together for a whole
  text. `RecordsInv` says of an active handle that its records follow the lines of the
  data it shows, and of one whose last open was refused that an error which blames a
  line names the first malformed one; from it `ReaderRecordsFollowLines` and, with
  `ScannerFollowsGrammar` below, `ReaderJudgesByGrammar`.
* `JsonProofs`. `ScannerFollowsGrammar`: for every line and every field the scanner
  finds an id exactly when the dialect's grammar does, the same one, and only one. The two have
  nothing in common that an induction could run over: the scanner goes from a place to
  the places behind it, the grammar keeps a stack. What relates them is `Judged`: the
  function that says, for each place of the line and each reading the grammar may be
  in there, which ids are found at the end. It exists by `BackwardRecursion`
  (`JudgedExists`), and `DialectIds` is its value at the start (`GrammarFromStart`). The
  proof shows that it is also what the scanner finds. First the reduction: a rule
  looks at the top of the stack alone and at most one fires (`OneRule`), so `Reduce` is
  computed for each way a token meets a stack (`NextMemberPush` and its like). Then one
  token at a time: a string, with its escapes, or a literal read byte by byte leaves
  what `ParseString` or `Literal` finds (`StringReads`, `LiteralReads`, together
  `TokenAhead`). Where the scanner fails the grammar reads on, so every failure needs
  an argument of its own: the stack is then one that no later token mends (`Doomed`: an
  item on it does not fit on the three below, which every push keeps, `DoomedPush`), and
  nothing is found from it (`DoomedJudged`). Last the values within values: `ScannedRead` says of
  every place, from the end of the line back, that a value, a member or an element
  there reads as the scanner finds it, under any stack; `TopReads` does the same for the
  members of the record, whose keys and values are kept, and relates the ids told
  member by member from the front to those the last field decides (`StartIds`). That
  JSON's own grammar finds the same id in a line without a refused literal is
  `ReadingsAgree`: up to the first such literal the two have the same readings.
* `CommandLineProofs`. `AcceptedInv`: until the export file of a configuration that
  validates is opened the disk is as it was, and from then on only that file differs;
  a validated configuration has an export the program knows (`ValidExport`, from the
  least broken rule). `OnlyAcceptedWrite` follows. `OutputInv` adds what an export has
  done: the lines written hold the records of the first n of the files that the filters
  take and that are there (`OutputSoFar`), and what is to come are the others, each still
  holding what it held (`OutputLeft`; the export file is not among them: `NextFile`).
  `SuccessIsTheWholeOutput` speaks only of the end and says nothing of the files to
  come. From it `SuccessWroteAll`: the lines are laid end to end by `FlattenGrows`, each
  holds its record whatever is torn in front of it (`ContentHolds`, `MoreLinesHold`), and
  what a failure or a lost tail leaves is a beginning of them, the last one perhaps cut
  (`LeftBegun`). `AcceptedStep` also types
  the contents as tuples of words; `Word` is `STRING`, with the words that the
  model writes itself named, since the provers know the members of no `STRING`.
  `SettingsInv` is about the parse: the options given are those that the heads before
  the current word give (`GivenBy`), where a head is a word that is not the value of
  the option before it, and the word looked at is itself a head, unless the words are
  at their end. `EffectiveSettings` says nothing before the settings are complete; this
  is what each step of the parse hands to the next (`ParseStep`, with one lemma for
  each kind of word: the latest mention is the greatest, `MaxOfMore`). `IsValue` looks
  at the words from the left, so that it exists is `BackwardRecursion` on the words
  reversed (`IsValueUnfolded`). A file that loads is taken whole (`LoadedFile`: were a
  section broken, the first one would have been reported), and the words over the file
  are as expected (`OverIsExpected`); `SettingsAreAsSaid` follows.
* `StatefulObjectProofs`, the collector. `TelemetryInv` is the three safety invariants plus what
  makes them inductive: known events are not newer than the last accepted one; the
  worker holds a batch only between taking and delivering; a terminated worker left
  nothing; while the worker lives and `stopping_` is set, some thread is inside
  `shutdown`. Taking and delivering a batch leave `Known` (delivered, batch, queue
  in a row) unchanged, so only `Record` needs an argument about order: dropping the
  head of the last part and appending a newer event keeps an ascending sequence.
  The theorems hold for any number of closing threads and any capacity.
* `StatefulObjectProofs`, the iterator. `PythonInv` has `EachWindowOnce` and
  `OnlyWarnedChunksAreOvertaken` and three parts they need: the shape of the state; the
  window a thread holds while its warning is shown is newer than every chunk the
  thread has returned, and its view was overwritten only by a later window; and what a
  thread was told about the end stays true of the stream.
  Without the second part a late dict could belong to a thread that has already
  returned a newer one; without the third `EndIsTheEndForAll` does not follow, since
  a thread's last answer says nothing of the stream. The theorems hold for any set of
  threads and any input.

Two properties are stated element by element where a fold stood before, so that they
can be proved: the events of `DocumentsFollowPaths` and `RunHoldsWholeRecords`. They say
the same. What an open makes of the lines and what makes a line a record are two
properties, `RecordsFollowLines` and `LinesAreJudgedByGrammar`. The grammar's reading of a
line is a recursive function of the number of bytes read, and the scanner's function takes
the place alone, so that `BackwardRecursion` applies to both. `MmapReader`'s `Taking` and `NdjsonLines`' `Adding` name parts of a definition
for the same reason. `WhitespaceTokens`' `Encode` is the code's loop over positions
(no sort of a set of starts stands in for it), and `CommandLine`'s `Present` keeps the
files that are there by a fold on which lemmas exist. `ValueOptions` and `Flags` are
functions by cases, since the provers do not know `:>` and `@@`, and what
`EffectiveSettings` says of the words has names of its own (`Mentioned`, `LastSaid`,
`Expected`), so that the lemmas can speak of any set of heads.

## What is only model-checked

* Liveness (`BufferCallReturns`, `ParallelCallReturns`, `ExportReturns`,
  `PipelineReturns`, `QueueIsWorkedOff`, `ShutdownReturns`): outside the prover's reach.
* The type invariants of the modules other than `ChunkStream` and `AsyncTelemetry` are
  replaced in the proofs by the shape their invariants need.

## Divergences found

Four runs end in an expected violation; `PROJECT.json` quotes the lines.

1. `hidden_root`: with a root such as `./documents` (the README's own example) every
   file counts as hidden and the run succeeds with no document.
2. `export_lines`: a retry after a partial write leaves a line that is not JSON.
   `SuccessIsTheWholeOutput` counts such a line as the record's, and says so.
3. `overlap_across_calls`: `stream_chunker.h:23` and `:63` and `architecture.md:99`
   promise that overlapping token context is kept between calls of `push_bytes`; the
   code keeps what lies behind the last chunk and nothing of it.
4. `valid_utf8`: `simd_utf8.h:18` and `architecture.md:80` promise valid UTF-8;
   E0 80 80 and other overlong forms pass under every policy, and so do surrogates in
   four bytes (F0 8D A0 80), which are refused in three.

Observed without a run: the parallel chunker never validates its sizes, as
`stream_buffer` does (an overlap as large as the window plans until memory is
exhausted, one near `SIZE_MAX` skips tokens; `ParallelChunker` has both, and its
contract leaves the answer open); it has no token, where `architecture.md`
4.2 promises that its workers stop when one is set; a lossy repair's diagnostics never reach the C ABI, where
`architecture.md:189` describes their propagation (`open_path` takes those of a
`Result` that has none, `open_buffer` clears them at `spec_abi.cpp:416`); a failed `chunker_stream` leaves
its error in the chunker, and a later successful one does not clear it; `chunk_index` and byte offsets restart with every
`push_bytes`; a block's edge may cut a word in two tokens; a blank residual grows
without limit; the second caller of `shutdown` returns before the drain is over; a
batch that could not be exported still counts as delivered; the single-file run
reports the number of chunks as bytes processed; `export.on_error: continue` is
accepted and ignored; `architecture.md` 2.4 describes newline-aligned partitions
where the code tokenizes once and slices windows.

In the program and the bindings, also without a run:
`README.md:103` puts one validation behind the overrides, but a file is also validated
by itself (`config.cpp:320`), so a file that only the command line completes is
refused; opening the export file empties it even when it is, or lies below, the input;
`--json-errors` is not honoured when the export file cannot be opened
(`main.cpp:235`); `--max-tokens many` ends in an uncaught exception; a tail that
cannot be written at the end is success; the warning mode and Python's filter are set
in two steps, between which another thread may run; `README.md:236` says that
diagnostics become warnings, but `chunk_buffer` passes none on, so `Chunker.chunk` and
`chunk_file` never warn; `configuration_parse_failed` becomes the base
`FastchunkError`; `chunk_file` returns a vector of a type that is not registered.
The JSON scanner refuses valid objects, with a negative number or a word with space
before its delimiter in them, as "not a valid object" (`ndjson_parser.h:203`, `:265`;
`LinesAreJudgedByGrammar` says exactly which), and takes any text that begins with a digit (`ndjson_parser.h:203`),
vertical tabs and form feeds as space, and any four bytes behind `\u`.

## Not modelled

* Curl exporters (network I/O; the collector takes from them that an export ends) and
  the bounded collector (one locked step with the queue rule of `AsyncTelemetry`).
* The Rust tokenizers and the factory over them: third-party algorithms behind one
  call; every chunker model takes any token vector or an error.
* The metadata merge: a pure function on text without state.
* The legacy `fastchunk_abi.cpp`: not built.
* Python: `Reader`, `Chunker`, `chunk_file`, `load_configuration_json`, each a
  conversion around one call of a modelled component.
* Configuration: the values of options that no rule looks at (limits, encodings, queue
  sizes; that they may fail to be read is modelled) and `effective_json`; the YAML
  library is external.
* Command line: the texts, and the telemetry, which has a model of its own. An
  exception of the file system library while the input is listed. The stream buffer of
  `std::ofstream`, which may hold several lines when a write fails: a failed write is
  taken to tear the line being written and no other.
* Of the reader: its move operations, the Windows build, a file that changes while it
  is mapped.
* Of the C ABI: creation of tokenizer and chunker handles, null arguments, failed
  allocations of a handle, accessors that copy fields, and streams that outlive their
  reader (no document of the repository states the rule; the models keep it).
* Benchmarks and scripts.

## Plan

The modules are done, in this order: `SlidingWindow`, `ChunkStream` and its proofs,
`ChunkBuffer` against `ChunkingContract`; `ParallelChunker`; `AsyncTelemetry` with its
proofs, `StreamChunker`; `NdjsonExporter`, `DirectoryPipeline`; `Utf8`, `NdjsonLines`,
`MmapReader`, `AbiReader`; `AbiStream`; `JsonScanner`, `Configuration`, `CommandLine`;
`PythonBindings` with its proofs. What is left to model is the composition of the
parallel chunker and the exporter with the pipeline in place of what they promise.

The proofs cover every safety and action property of the passing runs.
