-------------------------- MODULE ParallelChunker --------------------------
(***************************************************************************)
(* ParallelChunker::chunk_buffer_parallel (include/parallel_chunker.h).    *)
(*                                                                         *)
(* The calling thread encodes the whole buffer once, plans the windows,    *)
(* cuts them into one slice per task, starts a thread per slice and        *)
(* collects the futures in order.  The threads run at any speed, also      *)
(* while the caller is still launching others.  One step of a worker is    *)
(* one window; one step of the caller is one window planned, one task      *)
(* launched or one future collected.  A thread that cannot be started and  *)
(* a worker or a merge that throws end the call early, with other threads  *)
(* still at work: what waits for them is the destructor of each future.    *)
(*                                                                         *)
(* cancel_token is the CancellationToken of the operation that made the    *)
(* call (DirectoryPipeline::run): the function has no parameter for it.    *)
(***************************************************************************)
EXTENDS SlidingWindow

CONSTANTS
  Inputs,         (* token vectors the tokenizer can return                *)
  Options,        (* option pairs a caller may pass                        *)
  ThreadCounts,   (* values of num_threads, 0 included                     *)
  MaxWindows      (* windows that fit in memory: push_back then throws     *)

ASSUME InputAssumption ==
  \A tokens \in Inputs :
    tokens \in Seq(Token) /\ FitsMemory(tokens) /\ Len(tokens) <= MaxWindows
ASSUME OptionAssumption == Options \subseteq Option
ASSUME ThreadAssumption == ThreadCounts \subseteq Nat
ASSUME MemoryAssumption == MaxWindows \in Nat

VARIABLES
  options, tokens, num_threads,   (* the arguments                         *)
  phase,          (* where the caller's thread is                          *)
  start,          (* loop variable of the planning loop                    *)
  windows,        (* the planned windows                                   *)
  task,           (* loop variable of the launching loop                   *)
  futures,        (* slices [window_begin, window_end) handed to threads   *)
  local,          (* for each future, the chunks its thread has made       *)
  thrown,         (* futures whose thread ended with an exception          *)
  collected,      (* futures already collected                             *)
  global_results, (* the merged vector                                     *)
  cancel_token,
  outcome

parallel_vars == <<options, tokens, num_threads, phase, start, windows, task, futures,
                   local, thrown, collected, global_results, cancel_token, outcome>>
arguments == <<options, tokens, num_threads>>
plan == <<start, windows>>
workers == <<futures, local, thrown>>
merge == <<collected, global_results>>

Contract == INSTANCE ChunkingContract
              WITH Unchecked <- {o \in Options : ~ ValidOption(o)}

Phases == {"called", "planning", "planned", "launching", "collecting", "unwinding", "returned"}
PlainChunk == [first : Nat, last : Nat, start_byte : Nat, end_byte : Nat,
               chunk_index : ChunkIndex]
Window == [first : SizeT, last : SizeT, oversized : BOOLEAN]
Slice == [window_begin : Nat, window_end : Nat]

ParallelTypeOK ==
  /\ options \in Options /\ tokens \in Inputs /\ num_threads \in ThreadCounts
  /\ phase \in Phases
  /\ start \in SizeT
  /\ windows \in Seq(Window)
  /\ task \in Nat
  /\ futures \in Seq(Slice)
  /\ local \in Seq(Seq(PlainChunk)) /\ Len(local) = Len(futures)
  /\ thrown \subseteq 1 .. Len(futures)
  /\ collected \in 0 .. Len(futures)
  /\ global_results \in Seq(PlainChunk)
  /\ cancel_token \in BOOLEAN
  /\ (outcome = Contract!Pending) = (phase # "returned")

ParallelInit ==
  /\ options \in Options /\ tokens \in Inputs /\ num_threads \in ThreadCounts
  /\ phase = "called"
  /\ start = 0
  /\ windows = <<>>
  /\ task = 0
  /\ futures = <<>>
  /\ local = <<>>
  /\ thrown = {}
  /\ collected = 0
  /\ global_results = <<>>
  /\ cancel_token \in BOOLEAN
  /\ outcome = Contract!Pending

Return(result) ==
  /\ phase' = "returned"
  /\ outcome' = result

-----------------------------------------------------------------------------
(* The calling thread.                                                      *)

(* An empty buffer has no chunk and is not tokenized.                       *)
ReturnEmpty ==
  /\ phase = "called"
  /\ tokens = <<>>
  /\ Return(Contract!Succeeded(<<>>))
  /\ UNCHANGED <<arguments, plan, task, workers, merge, cancel_token>>

Encode ==
  /\ phase = "called"
  /\ \/ phase' = "planning" /\ UNCHANGED outcome
     \/ Return(Contract!Failed("tokenizer_error"))
  /\ UNCHANGED <<arguments, plan, task, workers, merge, cancel_token>>

(* One turn of the planning loop.                                           *)
PlanWindow ==
  /\ phase = "planning"
  /\ start < Len(tokens)
  /\ Len(windows) < MaxWindows
  /\ LET end == WindowEnd(options, tokens, start)
         oversized == IsOversized(options, tokens, start)
     IN windows' = Append(windows,
                     [first |-> start,
                      last |-> IF oversized THEN start + 1 ELSE end,
                      oversized |-> oversized])
  /\ start' = NextStart(options, tokens, start)
  /\ UNCHANGED <<arguments, phase, task, workers, merge, cancel_token, outcome>>

(* A plan that outgrows memory ends the call with std::bad_alloc.           *)
PlanExhaustsMemory ==
  /\ phase = "planning"
  /\ start < Len(tokens)
  /\ Len(windows) = MaxWindows
  /\ Return(Contract!Failed("bad_alloc"))
  /\ UNCHANGED <<arguments, plan, task, workers, merge, cancel_token>>

PlanDone ==
  /\ phase = "planning"
  /\ start >= Len(tokens)
  /\ phase' = "planned"
  /\ UNCHANGED <<arguments, plan, task, workers, merge, cancel_token, outcome>>

Threads == IF num_threads = 0 THEN 1 ELSE num_threads
OnlyOneTask == Len(windows) < 2 \/ Threads = 1

(* The sequential fallback, by what chunk_buffer promises of a call without *)
(* a token; the tokenizer runs again.                                       *)
FallBack ==
  /\ phase = "planned"
  /\ OnlyOneTask
  /\ \/ Contract!Succeed
     \/ Contract!Refuse
  /\ phase' = "returned"
  /\ UNCHANGED <<arguments, plan, task, workers, merge, cancel_token>>

StartLaunching ==
  /\ phase = "planned"
  /\ ~ OnlyOneTask
  /\ phase' = "launching"
  /\ UNCHANGED <<arguments, plan, task, workers, merge, cancel_token, outcome>>

ActualTasks == LesserOf(Threads, Len(windows))

(* Mutation: the division truncates, so the last windows are in no slice.   *)
WindowsPerTaskTruncated == Len(windows) \div ActualTasks
WindowsPerTask == (Len(windows) + ActualTasks - 1) \div ActualTasks

SliceOf(t) ==
  [window_begin |-> t * WindowsPerTask,
   window_end   |-> LesserOf(Len(windows), t * WindowsPerTask + WindowsPerTask)]

(* Mutation: the loop tries the same task again when its slice is empty.    *)
LaunchTaskStuck ==
  /\ phase = "launching"
  /\ task < ActualTasks
  /\ LET slice == SliceOf(task)
     IN IF slice.window_begin >= slice.window_end
        THEN UNCHANGED <<futures, local, task>>
        ELSE /\ futures' = Append(futures, slice)
             /\ local' = Append(local, <<>>)
             /\ task' = task + 1
  /\ UNCHANGED <<arguments, phase, plan, thrown, merge, cancel_token, outcome>>

(* Rounding up may leave the last tasks without a window: they get no       *)
(* thread.                                                                  *)
LaunchTask ==
  /\ phase = "launching"
  /\ task < ActualTasks
  /\ LET slice == SliceOf(task)
     IN IF slice.window_begin >= slice.window_end
        THEN UNCHANGED <<futures, local>>
        ELSE /\ futures' = Append(futures, slice)
             /\ local' = Append(local, <<>>)
  /\ task' = task + 1
  /\ UNCHANGED <<arguments, phase, plan, thrown, merge, cancel_token, outcome>>

(* std::async throws std::system_error when the thread cannot be started.   *)
LaunchFails ==
  /\ phase = "launching"
  /\ task < ActualTasks
  /\ SliceOf(task).window_begin < SliceOf(task).window_end
  /\ phase' = "unwinding"
  /\ UNCHANGED <<arguments, plan, task, workers, merge, cancel_token, outcome>>

AllLaunched ==
  /\ phase = "launching"
  /\ task = ActualTasks
  /\ phase' = "collecting"
  /\ UNCHANGED <<arguments, plan, task, workers, merge, cancel_token, outcome>>

-----------------------------------------------------------------------------
(* A worker thread: the next window of its slice becomes a chunk.           *)

SliceLength(f) == futures[f].window_end - futures[f].window_begin
Finished(f) == f \in thrown \/ Len(local[f]) = SliceLength(f)

WorkerChunk(f) ==
  /\ ~ Finished(f)
  /\ LET index == futures[f].window_begin + Len(local[f])
         window == windows[index + 1]
     IN local' = [local EXCEPT ![f] =
                    Append(@, Plain(ChunkAt(tokens, window.first, window.last,
                                            index % IndexModulus, FALSE)))]
  /\ UNCHANGED <<arguments, phase, plan, task, futures, thrown, merge, cancel_token, outcome>>

(* A copy that fails ends the thread; get() throws it again.                *)
WorkerThrows(f) ==
  /\ ~ Finished(f)
  /\ thrown' = thrown \cup {f}
  /\ UNCHANGED <<arguments, phase, plan, task, futures, local, merge, cancel_token, outcome>>

Worker(f) == WorkerChunk(f) \/ WorkerThrows(f)

-----------------------------------------------------------------------------
(* chunk_index and the id follow from the place in the merged vector.       *)
Renumbered(chunks, base) ==
  [k \in 1 .. Len(chunks) |->
     [chunks[k] EXCEPT !.chunk_index = (base + k - 1) % IndexModulus]]

(* Mutation: whichever future is ready first is merged first.               *)
CollectFutureAnyOrder ==
  /\ phase = "collecting"
  /\ collected < Len(futures)
  /\ \E f \in 1 .. Len(futures) :
       /\ Finished(f)
       /\ f \notin thrown
       /\ global_results' = global_results \o Renumbered(local[f], Len(global_results))
  /\ collected' = collected + 1
  /\ UNCHANGED <<arguments, phase, plan, task, workers, cancel_token, outcome>>

(* fut.get() blocks until the worker is done; its chunks are renumbered and *)
(* appended.                                                                *)
CollectFuture ==
  /\ phase = "collecting"
  /\ collected < Len(futures)
  /\ Finished(collected + 1)
  /\ collected + 1 \notin thrown
  /\ global_results' = global_results \o
                       Renumbered(local[collected + 1], Len(global_results))
  /\ collected' = collected + 1
  /\ UNCHANGED <<arguments, phase, plan, task, workers, cancel_token, outcome>>

(* get() throws what its worker threw, or the merge itself throws: the loop *)
(* is left while the threads behind may still run.  The error return of the *)
(* loop, which no worker's result takes, leaves it at the same place.       *)
CollectFails ==
  /\ phase = "collecting"
  /\ collected < Len(futures)
  /\ Finished(collected + 1)
  /\ phase' = "unwinding"
  /\ UNCHANGED <<arguments, plan, task, workers, merge, cancel_token, outcome>>

(* Mutation: the futures' destructors do not wait, as those of a promise or *)
(* of a packaged task would not.                                            *)
UnwindAtOnce ==
  /\ phase = "unwinding"
  /\ Return(Contract!Failed("thread_failed"))
  /\ UNCHANGED <<arguments, plan, task, workers, merge, cancel_token>>

(* The vector of futures is destroyed before the plan and the tokens, and   *)
(* the destructor of a future of std::async waits for its thread.           *)
Unwind ==
  /\ phase = "unwinding"
  /\ \A f \in 1 .. Len(futures) : Finished(f)
  /\ Return(Contract!Failed("thread_failed"))
  /\ UNCHANGED <<arguments, plan, task, workers, merge, cancel_token>>

ReturnMerged ==
  /\ phase = "collecting"
  /\ collected = Len(futures)
  /\ Return(Contract!Succeeded(global_results))
  /\ UNCHANGED <<arguments, plan, task, workers, merge, cancel_token>>

(* The owner of the operation's token; nobody in the call reads it.         *)
TokenChanges ==
  /\ cancel_token' \in BOOLEAN
  /\ UNCHANGED <<arguments, phase, plan, task, workers, merge, outcome>>

Caller ==
  \/ ReturnEmpty \/ Encode
  \/ PlanWindow \/ PlanExhaustsMemory \/ PlanDone
  \/ FallBack \/ StartLaunching \/ LaunchTask \/ LaunchFails \/ AllLaunched
  \/ CollectFuture \/ CollectFails \/ Unwind \/ ReturnMerged

ParallelNext ==
  \/ Caller
  \/ \E f \in 1 .. Len(futures) : Worker(f)
  \/ TokenChanges

(* Every thread the call started, and the calling thread, keep running.     *)
ParallelSpec ==
  /\ ParallelInit
  /\ [][ParallelNext]_parallel_vars
  /\ WF_parallel_vars(Caller)
  /\ WF_parallel_vars(\E f \in 1 .. Len(futures) : Worker(f))

-----------------------------------------------------------------------------
(* For usable options the result is that of the sequential chunk_buffer,    *)
(* for every number of threads and every interleaving of the workers, or a  *)
(* failed thread's exception: chunk indices and token coverage do not       *)
(* depend on the thread count.                                              *)
(* Code: all of include/parallel_chunker.h against src/core/chunker.cpp.    *)
ParallelImplementsContract == Contract!ContractSpec

(* The slices handed to threads are never empty, follow one another without *)
(* gap or overlap, and together are every planned window, although the      *)
(* rounding up leaves some tasks without one.                               *)
(* Code: lines 59-71 of include/parallel_chunker.h.                         *)
SlicesPartitionWindows ==
  phase = "collecting" =>
    /\ \A f \in 1 .. Len(futures) :
         /\ futures[f].window_begin < futures[f].window_end
         /\ futures[f].window_begin = IF f = 1 THEN 0 ELSE futures[f - 1].window_end
    /\ Len(futures) > 0 /\ futures[Len(futures)].window_end = Len(windows)

(* No worker is still running when the call is left, at its end or by an    *)
(* exception with later futures outstanding: the workers read the options,  *)
(* tokens and windows of its frame by reference.                            *)
(* Code: the captures of line 74, the get() of line 118, the exits of lines *)
(* 74 and 118-122 through the destructors of `futures`.                     *)
NoWorkerOutlivesTheCall ==
  phase = "returned" => \A f \in 1 .. Len(futures) : Finished(f)

(* The call returns, whatever the options.                                  *)
(* Code: every loop and every wait of chunk_buffer_parallel.                *)
ParallelCallReturns == <>(phase = "returned")

=============================================================================
