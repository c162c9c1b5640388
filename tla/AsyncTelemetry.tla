--------------------------- MODULE AsyncTelemetry ---------------------------
(***************************************************************************)
(* AsyncTelemetryCollector (src/telemetry.cpp): any thread records events  *)
(* into a bounded queue that drops its oldest event when full, one worker  *)
(* thread exports them in batches, and closing threads stop the collector. *)
(*                                                                         *)
(* mutex_ makes every locked block one step: no block waits inside except  *)
(* the worker on condition_, which releases the mutex.  Exporting happens  *)
(* outside the lock and ends (CURLOPT_TIMEOUT_MS), well or badly.          *)
(* Events are numbered in the order in which record() accepted them.       *)
(***************************************************************************)
EXTENDS Integers, Sequences, FiniteSets

CONSTANTS
  Capacities,   (* capacity_ values                                        *)
  BatchLimit,   (* events per export: 64                                   *)
  Closers,      (* threads that call shutdown() or run the destructor      *)
  MaxEvents     (* bound on accepted events                                *)

ASSUME CapacityAssumption == Capacities \subseteq Nat
ASSUME BatchAssumption == BatchLimit \in Nat \ {0}
ASSUME EventAssumption == MaxEvents \in Nat

VARIABLES
  capacity,     (* capacity_                                               *)
  queue,        (* queue_                                                  *)
  stopping,     (* stopping_                                               *)
  worker,       (* where the worker thread is                              *)
  batch,        (* the worker's local batch                                *)
  delivered,    (* delivered_events_                                       *)
  diagnostics,  (* diagnostics_, as counts per kind                        *)
  closer,       (* where each closing thread is in shutdown()              *)
  accepted      (* events accepted so far (history)                        *)

telemetry_vars == <<capacity, queue, stopping, worker, batch, delivered,
                    diagnostics, closer, accepted>>

WorkerStates == {"testing", "waiting", "exporting", "reporting", "delivering", "terminated"}
CloserStates == {"outside", "notifying", "joining", "returned"}
Events == 1 .. MaxEvents

TelemetryTypeOK ==
  /\ capacity \in Capacities
  /\ queue \in Seq(Events)
  /\ stopping \in BOOLEAN
  /\ worker \in WorkerStates
  /\ batch \in Seq(Events) /\ Len(batch) <= BatchLimit
  /\ delivered \in Seq(Events)
  /\ diagnostics \in [overflow : Nat, delivery_failed : Nat]
  /\ closer \in [Closers -> CloserStates]
  /\ accepted \in 0 .. MaxEvents

TelemetryInit ==
  /\ capacity \in Capacities
  /\ queue = <<>>
  /\ stopping = FALSE
  /\ worker = "testing"
  /\ batch = <<>>
  /\ delivered = <<>>
  /\ diagnostics = [overflow |-> 0, delivery_failed |-> 0]
  /\ closer = [c \in Closers |-> "outside"]
  /\ accepted = 0

-----------------------------------------------------------------------------
(* notify_one: the worker is the only thread that ever waits.               *)
NotifyOne == worker' = IF worker = "waiting" THEN "testing" ELSE worker

(* Mutation: the limit is tested with the wrong comparison.                 *)
IsFullOneLate == capacity # 0 /\ Len(queue) > capacity

(* The bounded queue of both collectors: the oldest event makes room for    *)
(* the new one, and a collector of capacity 0 keeps nothing.                *)
IsFull == capacity # 0 /\ Len(queue) >= capacity

WithRoom(events) == IF IsFull THEN Tail(events) ELSE events
Pushed(events, event) == IF capacity # 0 THEN Append(WithRoom(events), event) ELSE events

(* Mutation: the event is pushed without waking the worker.                 *)
RecordWithoutNotify ==
  /\ accepted < MaxEvents
  /\ ~ stopping
  /\ queue' = Pushed(queue, accepted + 1)
  /\ diagnostics' = [diagnostics EXCEPT !.overflow = @ + (IF IsFull THEN 1 ELSE 0)]
  /\ accepted' = accepted + 1
  /\ UNCHANGED <<capacity, stopping, worker, batch, delivered, closer>>

(* Mutation: a full queue refuses the new event and counts nothing.         *)
RecordDropsSilently ==
  /\ accepted < MaxEvents
  /\ ~ stopping
  /\ queue' = IF IsFull THEN queue ELSE Pushed(queue, accepted + 1)
  /\ NotifyOne
  /\ accepted' = accepted + 1
  /\ UNCHANGED <<capacity, stopping, batch, delivered, diagnostics, closer>>

Record ==
  /\ accepted < MaxEvents
  /\ ~ stopping
  /\ queue' = Pushed(queue, accepted + 1)
  /\ diagnostics' = [diagnostics EXCEPT !.overflow = @ + (IF IsFull THEN 1 ELSE 0)]
  /\ NotifyOne
  /\ accepted' = accepted + 1
  /\ UNCHANGED <<capacity, stopping, batch, delivered, closer>>

-----------------------------------------------------------------------------
(* The worker thread.                                                       *)

BatchSize == IF Len(queue) < BatchLimit THEN Len(queue) ELSE BatchLimit

(* The predicate of the wait, under the lock.                               *)
WorkerWaits ==
  /\ worker = "testing"
  /\ ~ stopping /\ queue = <<>>
  /\ worker' = "waiting"
  /\ UNCHANGED <<capacity, queue, stopping, batch, delivered, diagnostics, closer, accepted>>

(* Mutation: stopping_ alone ends the worker.                               *)
WorkerTerminatesUndrained ==
  /\ worker = "testing"
  /\ stopping
  /\ worker' = "terminated"
  /\ UNCHANGED <<capacity, queue, stopping, batch, delivered, diagnostics, closer, accepted>>

WorkerTerminates ==
  /\ worker = "testing"
  /\ stopping /\ queue = <<>>
  /\ worker' = "terminated"
  /\ UNCHANGED <<capacity, queue, stopping, batch, delivered, diagnostics, closer, accepted>>

WorkerTakesBatch ==
  /\ worker = "testing"
  /\ queue # <<>>
  /\ batch' = SubSeq(queue, 1, BatchSize)
  /\ queue' = SubSeq(queue, BatchSize + 1, Len(queue))
  /\ worker' = "exporting"
  /\ UNCHANGED <<capacity, stopping, delivered, diagnostics, closer, accepted>>

SpuriousWakeup ==
  /\ worker = "waiting"
  /\ worker' = "testing"
  /\ UNCHANGED <<capacity, queue, stopping, batch, delivered, diagnostics, closer, accepted>>

(* export_batch succeeds, or there is no exporter.                          *)
ExportSucceeds ==
  /\ worker = "exporting"
  /\ worker' = "delivering"
  /\ UNCHANGED <<capacity, queue, stopping, batch, delivered, diagnostics, closer, accepted>>

ExportFails ==
  /\ worker = "exporting"
  /\ worker' = "reporting"
  /\ UNCHANGED <<capacity, queue, stopping, batch, delivered, diagnostics, closer, accepted>>

(* add_diagnostic takes and releases the lock.                              *)
ReportFailure ==
  /\ worker = "reporting"
  /\ worker' = "delivering"
  /\ diagnostics' = [diagnostics EXCEPT !.delivery_failed = @ + 1]
  /\ UNCHANGED <<capacity, queue, stopping, batch, delivered, closer, accepted>>

(* Mutation: the newest batch is put in front.                              *)
DeliverBatchInFront ==
  /\ worker = "delivering"
  /\ delivered' = batch \o delivered
  /\ batch' = <<>>
  /\ worker' = "testing"
  /\ UNCHANGED <<capacity, queue, stopping, diagnostics, closer, accepted>>

(* The batch joins delivered_events_, exported or not, and the loop tests   *)
(* again.                                                                   *)
DeliverBatch ==
  /\ worker = "delivering"
  /\ delivered' = delivered \o batch
  /\ batch' = <<>>
  /\ worker' = "testing"
  /\ UNCHANGED <<capacity, queue, stopping, diagnostics, closer, accepted>>

-----------------------------------------------------------------------------
(* shutdown().                                                              *)

BeginShutdown(c) ==
  /\ closer[c] = "outside"
  /\ ~ stopping
  /\ stopping' = TRUE
  /\ closer' = [closer EXCEPT ![c] = "notifying"]
  /\ UNCHANGED <<capacity, queue, worker, batch, delivered, diagnostics, accepted>>

(* Somebody else is stopping the collector already.                         *)
AlreadyStopping(c) ==
  /\ closer[c] = "outside"
  /\ stopping
  /\ closer' = [closer EXCEPT ![c] = "returned"]
  /\ UNCHANGED <<capacity, queue, stopping, worker, batch, delivered, diagnostics, accepted>>

(* Mutation: the worker is not woken.                                       *)
NotifyWorkerForgotten(c) ==
  /\ closer[c] = "notifying"
  /\ closer' = [closer EXCEPT ![c] = "joining"]
  /\ UNCHANGED <<capacity, queue, stopping, worker, batch, delivered, diagnostics, accepted>>

NotifyWorker(c) ==
  /\ closer[c] = "notifying"
  /\ NotifyOne
  /\ closer' = [closer EXCEPT ![c] = "joining"]
  /\ UNCHANGED <<capacity, queue, stopping, batch, delivered, diagnostics, accepted>>

JoinWorker(c) ==
  /\ closer[c] = "joining"
  /\ worker = "terminated"
  /\ closer' = [closer EXCEPT ![c] = "returned"]
  /\ UNCHANGED <<capacity, queue, stopping, worker, batch, delivered, diagnostics, accepted>>

-----------------------------------------------------------------------------
Worker ==
  \/ WorkerWaits \/ WorkerTerminates \/ WorkerTakesBatch
  \/ ExportSucceeds \/ ExportFails \/ ReportFailure \/ DeliverBatch

CloserStep(c) == BeginShutdown(c) \/ AlreadyStopping(c) \/ NotifyWorker(c) \/ JoinWorker(c)
FinishShutdown(c) == NotifyWorker(c) \/ JoinWorker(c)

TelemetryNext == Record \/ Worker \/ SpuriousWakeup \/ \E c \in Closers : CloserStep(c)

(* The worker and a thread inside shutdown() keep running.  Nobody has to   *)
(* record, nobody has to call shutdown, and no wake-up comes by itself.     *)
TelemetrySpec ==
  /\ TelemetryInit
  /\ [][TelemetryNext]_telemetry_vars
  /\ WF_telemetry_vars(Worker)
  /\ \A c \in Closers : WF_telemetry_vars(FinishShutdown(c))

-----------------------------------------------------------------------------
(* Every accepted event the collector still knows, delivered first.         *)
Known == delivered \o batch \o queue

(* Events are delivered in the order in which they were accepted, whatever  *)
(* is dropped, batched or recorded while a batch is being exported.         *)
(* Code: record and worker_loop, lines 198-241 of src/telemetry.cpp.        *)
EventsKeepTheirOrder ==
  \A i, j \in 1 .. Len(Known) : i < j => Known[i] < Known[j]

(* The queue stays within its capacity, and what it loses by that does not  *)
(* vanish without a diagnostic: the events not delivered and not on their   *)
(* way are as many as the overflow diagnostics, as long as the collector    *)
(* keeps events at all.                                                     *)
(* Code: lines 203-210 and 225-240 of src/telemetry.cpp.                    *)
LossIsReported ==
  /\ Len(queue) <= capacity
  /\ capacity # 0 => accepted = Len(Known) + diagnostics.overflow

(* The thread that stopped the collector returns from shutdown() only when  *)
(* everything accepted has been delivered or reported lost, and nothing     *)
(* will be delivered afterwards.                                            *)
(* Code: shutdown, lines 243-254 of src/telemetry.cpp, and the exit test of *)
(* line 223.                                                                *)
ShutdownDrains ==
  (stopping /\ \A c \in Closers : closer[c] \in {"outside", "returned"}) =>
    /\ worker = "terminated" /\ queue = <<>> /\ batch = <<>>
    /\ capacity # 0 => accepted = Len(delivered) + diagnostics.overflow

(* An event in the queue does not stay there: it is delivered, or reported  *)
(* lost.                                                                    *)
(* Code: the wait of line 221 and the notify of line 211.                   *)
QueueIsWorkedOff ==
  \A e \in 1 .. MaxEvents :
    (\E k \in 1 .. Len(queue) : queue[k] = e) ~>
      (\A k \in 1 .. Len(queue) : queue[k] # e)

(* shutdown() returns, whatever the worker was doing when it was called.    *)
(* Code: lines 221-224 and 251-253 of src/telemetry.cpp.                    *)
ShutdownReturns ==
  \A c \in Closers : (closer[c] = "notifying") ~> (closer[c] = "returned")

=============================================================================
