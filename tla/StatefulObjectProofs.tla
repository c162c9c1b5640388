------------------------ MODULE StatefulObjectProofs ------------------------
(***************************************************************************)
(* Theorems of three objects whose state outlives a call.                  *)
(*                                                                         *)
(*   AsyncTelemetry, shared by threads: no event is lost, reordered or     *)
(*   exported twice, for every capacity, batch limit, set of closing       *)
(*   threads and bound on the events.                                      *)
(*   PythonBindings, shared by threads: the iterator gives each window to  *)
(*   one thread, whatever runs while a warning is shown.                   *)
(*   StreamChunker, kept from push to push: for every set of options and   *)
(*   blocks and any length of the stream, the tokens found in a buffer     *)
(*   hold every word of it, the chunks hold every token, and so what       *)
(*   push_bytes and flush return, and what they keep, is the whole stream. *)
(*                                                                         *)
(* The three have no state in common.                                      *)
(***************************************************************************)
EXTENDS AsyncTelemetry, PythonBindings, StreamChunker, OperatorProofs

-----------------------------------------------------------------------------
(* The asynchronous collector.                                              *)

(* What the collector keeps in order: an ascending sequence of events.      *)
Ascending(events) == \A i, j \in 1 .. Len(events) : i < j => events[i] < events[j]
AtMost(events, n) == \A i \in 1 .. Len(events) : events[i] <= n

(* Nothing the collector still knows is newer than the last accepted event. *)
KnownIsPast == AtMost(Known, accepted)

(* The worker holds events only between taking and delivering them.         *)
BatchIsHeldWhileExporting ==
  worker \in {"testing", "waiting", "terminated"} => batch = <<>>

WorkerEndsDrained == worker = "terminated" => stopping /\ queue = <<>>

(* As long as the worker runs, the thread that set stopping_ is inside      *)
(* shutdown().                                                              *)
StopperWaits ==
  stopping =>
    \/ worker = "terminated"
    \/ \E c \in Closers : closer[c] \in {"notifying", "joining"}

TelemetryInv ==
  /\ TelemetryTypeOK
  /\ EventsKeepTheirOrder
  /\ KnownIsPast
  /\ LossIsReported
  /\ BatchIsHeldWhileExporting
  /\ WorkerEndsDrained
  /\ StopperWaits

-----------------------------------------------------------------------------
(* A queue cut in two parts is still the same events.                       *)
LEMMA CutQueue ==
  ASSUME NEW S, NEW q \in Seq(S), NEW n \in 0 .. Len(q)
  PROVE  /\ SubSeq(q, 1, n) \in Seq(S)
         /\ SubSeq(q, n + 1, Len(q)) \in Seq(S)
         /\ Len(SubSeq(q, 1, n)) = n
         /\ Len(SubSeq(q, n + 1, Len(q))) = Len(q) - n
         /\ SubSeq(q, 1, n) \o SubSeq(q, n + 1, Len(q)) = q
<1>1. Len(q) \in Nat /\ \A i \in 1 .. Len(q) : q[i] \in S
  BY LenProperties, ElementOfSeq
<1>2. SubSeq(q, 1, n) \in Seq(S) /\ Len(SubSeq(q, 1, n)) = n
  <2>1. \A i \in 1 .. n : q[i] \in S
    BY <1>1
  <2>2. QED
    BY <1>1, <2>1, SubSeqProperties, SMT
<1>3. /\ SubSeq(q, n + 1, Len(q)) \in Seq(S)
      /\ Len(SubSeq(q, n + 1, Len(q))) = Len(q) - n
  <2>1. \A i \in n + 1 .. Len(q) : q[i] \in S
    BY <1>1
  <2>2. QED
    BY <1>1, <2>1, SubSeqProperties, SMT
<1>4. SubSeq(q, 1, n) \o SubSeq(q, n + 1, Len(q)) = SubSeq(q, 1, Len(q))
  <2>1. 1 \in 1 .. Len(q) + 1 /\ n \in 1 - 1 .. Len(q) /\ Len(q) \in n .. Len(q)
    BY <1>1
  <2>2. QED
    BY <2>1, ConcatAdjacentSubSeq
<1>5. SubSeq(q, 1, Len(q)) = q
  BY SubSeqFull
<1>6. QED
  BY <1>2, <1>3, <1>4, <1>5, ZenonT(40)

(* Adding a newer event at the end keeps a sequence ascending.              *)
LEMMA AppendAscending ==
  ASSUME NEW S, S \subseteq Nat, NEW p \in Seq(S), NEW q \in Seq(S),
         NEW n \in Nat, n + 1 \in S,
         Ascending(p \o q), AtMost(p \o q, n)
  PROVE  /\ Len(p \o Append(q, n + 1)) = Len(p) + Len(q) + 1
         /\ Ascending(p \o Append(q, n + 1))
         /\ AtMost(p \o Append(q, n + 1), n + 1)
<1> DEFINE old == p \o q
           new == p \o Append(q, n + 1)
<1>1. Len(p) \in Nat /\ Len(q) \in Nat
  BY LenProperties
<1>2. /\ old \in Seq(S) /\ Len(old) = Len(p) + Len(q)
      /\ \A i \in 1 .. Len(old) : old[i] = IF i <= Len(p) THEN p[i] ELSE q[i - Len(p)]
  BY ConcatProperties
<1>3. /\ Append(q, n + 1) \in Seq(S)
      /\ Len(Append(q, n + 1)) = Len(q) + 1
      /\ \A i \in 1 .. Len(q) : Append(q, n + 1)[i] = q[i]
      /\ Append(q, n + 1)[Len(q) + 1] = n + 1
  BY AppendProperties
<1>4. /\ Len(new) = Len(p) + Len(q) + 1
      /\ \A i \in 1 .. Len(new) :
           new[i] = IF i <= Len(p) THEN p[i] ELSE Append(q, n + 1)[i - Len(p)]
  <2>1. /\ Len(new) = Len(p) + Len(Append(q, n + 1))
        /\ \A i \in 1 .. Len(p) + Len(Append(q, n + 1)) :
             new[i] = IF i <= Len(p) THEN p[i] ELSE Append(q, n + 1)[i - Len(p)]
    BY <1>3, ConcatProperties
  <2>2. Len(new) = Len(p) + Len(q) + 1
    BY <1>1, <1>3, <2>1
  <2>3. QED
    BY <2>1, <2>2
<1>5. new[Len(old) + 1] = n + 1
  BY <1>1, <1>2, <1>3, <1>4
<1>6. \A i \in 1 .. Len(old) : new[i] = old[i]
  BY <1>1, <1>2, <1>3, <1>4
<1>7. Len(old) \in Nat /\ \A i \in 1 .. Len(old) : old[i] \in Nat
  <2>1. \A i \in 1 .. Len(old) : old[i] \in S
    BY <1>2, ElementOfSeq
  <2>2. \A i \in 1 .. Len(old) : old[i] \in Nat
    BY <2>1, Zenon
  <2>3. Len(old) \in Nat
    BY <1>1, <1>2
  <2>4. QED
    BY <2>2, <2>3
<1>8. Len(new) = Len(old) + 1
  BY <1>1, <1>2, <1>4
<1>9. \A i \in 1 .. Len(old) : old[i] <= n
  BY DEF AtMost
<1>10. \A i, j \in 1 .. Len(old) : i < j => old[i] < old[j]
  BY DEF Ascending
<1> HIDE DEF old, new
<1>11. Ascending(new)
  <2>1. SUFFICES ASSUME NEW i \in 1 .. Len(new), NEW j \in 1 .. Len(new), i < j
                 PROVE  new[i] < new[j]
    BY DEF Ascending
  <2>2. i \in 1 .. Len(old) /\ new[i] = old[i]
    BY <1>6, <1>7, <1>8, <2>1
  <2>3. CASE j = Len(old) + 1
    BY <1>5, <1>7, <1>9, <2>2, <2>3
  <2>4. CASE j # Len(old) + 1
    <3>1. j \in 1 .. Len(old) /\ new[j] = old[j]
      BY <1>6, <1>7, <1>8, <2>4
    <3>2. QED
      BY <1>10, <2>1, <2>2, <3>1
  <2>5. QED
    BY <2>3, <2>4
<1>12. AtMost(new, n + 1)
  BY <1>5, <1>6, <1>7, <1>8, <1>9 DEF AtMost
<1>13. QED
  BY <1>4, <1>11, <1>12 DEF new

(* Dropping the first event of the second part keeps a sequence ascending.  *)
LEMMA DropAscending ==
  ASSUME NEW S, S \subseteq Nat, NEW p \in Seq(S), NEW q \in Seq(S), q # <<>>,
         NEW n \in Nat,
         Ascending(p \o q), AtMost(p \o q, n)
  PROVE  /\ Tail(q) \in Seq(S) /\ Len(Tail(q)) = Len(q) - 1
         /\ Ascending(p \o Tail(q))
         /\ AtMost(p \o Tail(q), n)
<1> DEFINE old == p \o q
           new == p \o Tail(q)
<1>1. Len(p) \in Nat /\ Len(q) \in Nat \ {0}
  BY LenProperties, EmptySeq
<1>2. /\ old \in Seq(S) /\ Len(old) = Len(p) + Len(q)
      /\ \A i \in 1 .. Len(old) : old[i] = IF i <= Len(p) THEN p[i] ELSE q[i - Len(p)]
  BY ConcatProperties
<1>3. /\ Tail(q) \in Seq(S) /\ Len(Tail(q)) = Len(q) - 1
      /\ \A i \in 1 .. Len(q) - 1 : Tail(q)[i] = q[i + 1]
  BY HeadTailProperties
<1>4. /\ Len(new) = Len(p) + Len(q) - 1
      /\ \A i \in 1 .. Len(new) : new[i] = IF i <= Len(p) THEN p[i] ELSE Tail(q)[i - Len(p)]
  <2>1. /\ Len(new) = Len(p) + Len(Tail(q))
        /\ \A i \in 1 .. Len(p) + Len(Tail(q)) :
             new[i] = IF i <= Len(p) THEN p[i] ELSE Tail(q)[i - Len(p)]
    BY <1>3, ConcatProperties
  <2>2. Len(new) = Len(p) + Len(q) - 1
    BY <1>1, <1>3, <2>1
  <2>3. QED
    BY <2>1, <2>2
<1>5. \A i \in 1 .. Len(new) : new[i] = old[IF i <= Len(p) THEN i ELSE i + 1]
  <2>1. TAKE i \in 1 .. Len(new)
  <2>2. CASE i <= Len(p)
    BY <1>1, <1>2, <1>4, <2>2
  <2>3. CASE ~ (i <= Len(p))
    <3>1. new[i] = Tail(q)[i - Len(p)]
      BY <1>1, <1>4, <2>3
    <3>2. i - Len(p) \in 1 .. Len(q) - 1
      BY <1>1, <1>4, <2>3
    <3>3. Tail(q)[i - Len(p)] = q[i - Len(p) + 1]
      BY <1>3, <3>2
    <3>4. i + 1 \in 1 .. Len(old) /\ ~ (i + 1 <= Len(p)) /\ i + 1 - Len(p) = i - Len(p) + 1
      BY <1>1, <1>2, <1>4, <2>3
    <3>5. old[i + 1] = q[i - Len(p) + 1]
      BY <1>2, <3>4
    <3>6. QED
      BY <2>3, <3>1, <3>3, <3>5
  <2>4. QED
    BY <2>2, <2>3
<1>6. Len(new) = Len(old) - 1 /\ Len(old) \in Nat
  BY <1>1, <1>2, <1>4
<1>7. \A i \in 1 .. Len(old) : old[i] <= n
  BY DEF AtMost
<1>8. \A i, j \in 1 .. Len(old) : i < j => old[i] < old[j]
  BY DEF Ascending
<1> HIDE DEF old, new
<1>9. Ascending(new)
  <2>1. SUFFICES ASSUME NEW i \in 1 .. Len(new), NEW j \in 1 .. Len(new), i < j
                 PROVE  new[i] < new[j]
    BY DEF Ascending
  <2> DEFINE k == IF i <= Len(p) THEN i ELSE i + 1
             l == IF j <= Len(p) THEN j ELSE j + 1
  <2>2. k \in 1 .. Len(old) /\ l \in 1 .. Len(old) /\ k < l
    BY <1>1, <1>6, <2>1
  <2>3. new[i] = old[k] /\ new[j] = old[l]
    BY <1>5
  <2>4. QED
    BY <1>8, <2>2, <2>3
<1>10. AtMost(new, n)
  BY <1>1, <1>5, <1>6, <1>7 DEF AtMost
<1>11. QED
  BY <1>3, <1>9, <1>10 DEF new

-----------------------------------------------------------------------------
(* The bounded queue after one more event.                                  *)
LEMMA PushKeepsOrder ==
  ASSUME TelemetryInv, accepted < MaxEvents
  PROVE  LET after == delivered \o batch \o Pushed(queue, accepted + 1)
         IN  /\ Pushed(queue, accepted + 1) \in Seq(Events)
             /\ Len(Pushed(queue, accepted + 1)) <= capacity
             /\ Ascending(after)
             /\ AtMost(after, accepted + 1)
             /\ capacity # 0 =>
                  accepted + 1 = Len(after) + diagnostics.overflow + (IF IsFull THEN 1 ELSE 0)
<1> DEFINE p == delivered \o batch
           after == p \o Pushed(queue, accepted + 1)
<1>1. /\ capacity \in Nat /\ accepted \in Nat
      /\ queue \in Seq(Events) /\ Len(queue) <= capacity
      /\ batch \in Seq(Events) /\ delivered \in Seq(Events)
      /\ diagnostics.overflow \in Nat
  BY CapacityAssumption, EventAssumption DEF TelemetryInv, TelemetryTypeOK, LossIsReported
<1>2. p \in Seq(Events) /\ Len(p) \in Nat /\ Len(queue) \in Nat
  BY <1>1, ConcatProperties, LenProperties
<1>3. Ascending(p \o queue) /\ AtMost(p \o queue, accepted)
  BY DEF TelemetryInv, EventsKeepTheirOrder, KnownIsPast, Ascending, Known
<1>4. Events \subseteq Nat /\ accepted + 1 \in Events
  BY <1>1, EventAssumption DEF Events
<1>5. capacity # 0 => accepted = Len(p \o queue) + diagnostics.overflow
  BY DEF TelemetryInv, LossIsReported, Known
<1>6. Len(p \o queue) = Len(p) + Len(queue)
  BY <1>1, <1>2, ConcatProperties
<1> HIDE DEF p
<1>7. CASE capacity = 0
  <2>1. Pushed(queue, accepted + 1) = queue
    BY <1>7 DEF Pushed
  <2>2. AtMost(p \o queue, accepted + 1)
    <3>1. p \o queue \in Seq(Events)
      BY <1>1, <1>2, ConcatProperties
    <3>2. \A i \in 1 .. Len(p \o queue) : (p \o queue)[i] \in Events
      BY <3>1, ElementOfSeq
    <3>3. \A i \in 1 .. Len(p \o queue) :
            (p \o queue)[i] \in Nat /\ (p \o queue)[i] <= accepted
      BY <1>3, <1>4, <3>2, Zenon DEF AtMost
    <3>4. QED
      BY <1>1, <3>3 DEF AtMost
  <2>3. QED
    BY <1>1, <1>3, <1>7, <2>1, <2>2 DEF p
<1>8. CASE capacity # 0 /\ ~ IsFull
  <2>1. Pushed(queue, accepted + 1) = Append(queue, accepted + 1)
    BY <1>8 DEF Pushed, WithRoom
  <2>2. /\ Len(after) = Len(p) + Len(queue) + 1
        /\ Ascending(after) /\ AtMost(after, accepted + 1)
    BY <1>1, <1>2, <1>3, <1>4, <2>1, AppendAscending, ZenonT(40)
  <2>3. Pushed(queue, accepted + 1) \in Seq(Events)
        /\ Len(Pushed(queue, accepted + 1)) = Len(queue) + 1
    <3>1. /\ Append(queue, accepted + 1) \in Seq(Events)
          /\ Len(Append(queue, accepted + 1)) = Len(queue) + 1
      BY <1>1, <1>4, AppendProperties
    <3>2. QED
      BY <2>1, <3>1
  <2>4. Len(queue) + 1 <= capacity
    BY <1>1, <1>2, <1>8 DEF IsFull
  <2>5. accepted + 1 = Len(after) + diagnostics.overflow + (IF IsFull THEN 1 ELSE 0)
    BY <1>1, <1>2, <1>5, <1>6, <1>8, <2>2
  <2>6. QED
    BY <2>2, <2>3, <2>4, <2>5 DEF p
<1>9. CASE capacity # 0 /\ IsFull
  <2>1. Pushed(queue, accepted + 1) = Append(Tail(queue), accepted + 1)
    BY <1>9 DEF Pushed, WithRoom
  <2>2. queue # <<>>
    BY <1>1, <1>2, <1>9, EmptySeq DEF IsFull
  <2>3. /\ Tail(queue) \in Seq(Events) /\ Len(Tail(queue)) = Len(queue) - 1
        /\ Ascending(p \o Tail(queue)) /\ AtMost(p \o Tail(queue), accepted)
    BY <1>1, <1>2, <1>3, <1>4, <2>2, DropAscending
  <2>4. /\ Len(after) = Len(p) + Len(Tail(queue)) + 1
        /\ Ascending(after) /\ AtMost(after, accepted + 1)
    BY <1>1, <1>2, <1>4, <2>1, <2>3, AppendAscending, ZenonT(40)
  <2>5. Pushed(queue, accepted + 1) \in Seq(Events)
        /\ Len(Pushed(queue, accepted + 1)) = Len(Tail(queue)) + 1
    <3>1. /\ Append(Tail(queue), accepted + 1) \in Seq(Events)
          /\ Len(Append(Tail(queue), accepted + 1)) = Len(Tail(queue)) + 1
      BY <1>4, <2>3, AppendProperties
    <3>2. QED
      BY <2>1, <3>1
  <2>6. Len(Tail(queue)) + 1 <= capacity
    BY <1>1, <1>2, <2>3
  <2>7. accepted + 1 = Len(after) + diagnostics.overflow + (IF IsFull THEN 1 ELSE 0)
    BY <1>1, <1>2, <1>5, <1>6, <1>9, <2>3, <2>4
  <2>8. QED
    BY <2>4, <2>5, <2>6, <2>7 DEF p
<1>10. QED
  BY <1>7, <1>8, <1>9

(* A step that keeps what is known keeps its order and its accounting.      *)
LEMMA SameKnown ==
  ASSUME TelemetryInv, Known' = Known, Len(queue') <= capacity, accepted' = accepted,
         diagnostics'.overflow = diagnostics.overflow, capacity' = capacity
  PROVE  EventsKeepTheirOrder' /\ KnownIsPast' /\ LossIsReported'
BY DEF TelemetryInv, EventsKeepTheirOrder, KnownIsPast, AtMost, LossIsReported

-----------------------------------------------------------------------------
(* A new collector has accepted nothing.                                    *)
LEMMA TelemetryInitially == TelemetryInit => TelemetryInv
<1> SUFFICES ASSUME TelemetryInit PROVE TelemetryInv
  OBVIOUS
<1>1. <<>> \in Seq(Events) /\ Len(<<>>) = 0
  BY EmptySeq
<1>2. Known = <<>>
  BY <1>1, ConcatEmptySeq DEF TelemetryInit, Known
<1>3. TelemetryTypeOK
  <2>1. capacity \in Capacities /\ Len(batch) <= BatchLimit
    BY <1>1, BatchAssumption DEF TelemetryInit
  <2>2. queue \in Seq(Events) /\ batch \in Seq(Events) /\ delivered \in Seq(Events)
    BY <1>1 DEF TelemetryInit
  <2>3. /\ stopping \in BOOLEAN /\ worker \in WorkerStates
        /\ diagnostics \in [overflow : Nat, delivery_failed : Nat]
        /\ closer \in [Closers -> CloserStates]
        /\ accepted \in 0 .. MaxEvents
    <3>1. diagnostics \in [overflow : Nat, delivery_failed : Nat]
      BY DEF TelemetryInit
    <3>2. closer \in [Closers -> CloserStates]
      BY DEF TelemetryInit, CloserStates
    <3>3. stopping \in BOOLEAN /\ worker \in WorkerStates
      BY DEF TelemetryInit, WorkerStates
    <3>4. accepted \in 0 .. MaxEvents
      BY EventAssumption DEF TelemetryInit
    <3>5. QED
      BY <3>1, <3>2, <3>3, <3>4
  <2>4. QED
    BY <2>1, <2>2, <2>3 DEF TelemetryTypeOK
<1>4. EventsKeepTheirOrder /\ KnownIsPast /\ LossIsReported
  BY <1>1, <1>2, CapacityAssumption
  DEF TelemetryInit, EventsKeepTheirOrder, KnownIsPast, AtMost, LossIsReported
<1>5. BatchIsHeldWhileExporting /\ WorkerEndsDrained /\ StopperWaits
  BY DEF TelemetryInit, BatchIsHeldWhileExporting, WorkerEndsDrained, StopperWaits
<1>6. QED
  BY <1>3, <1>4, <1>5 DEF TelemetryInv

(* What record drops it reports, and what it adds is new.                   *)
LEMMA RecordPreserves == TelemetryInv /\ Record => TelemetryInv'
<1> SUFFICES ASSUME TelemetryInv, Record PROVE TelemetryInv'
  OBVIOUS
<1>1. /\ accepted < MaxEvents /\ ~ stopping
      /\ queue' = Pushed(queue, accepted + 1)
      /\ accepted' = accepted + 1
      /\ diagnostics' = [diagnostics EXCEPT !.overflow = @ + (IF IsFull THEN 1 ELSE 0)]
      /\ worker' = IF worker = "waiting" THEN "testing" ELSE worker
      /\ UNCHANGED <<capacity, stopping, batch, delivered, closer>>
  BY DEF Record, NotifyOne
<1>2. diagnostics \in [overflow : Nat, delivery_failed : Nat] /\ accepted \in 0 .. MaxEvents
  BY DEF TelemetryInv, TelemetryTypeOK
<1>3. /\ diagnostics' \in [overflow : Nat, delivery_failed : Nat]
      /\ diagnostics'.overflow = diagnostics.overflow + (IF IsFull THEN 1 ELSE 0)
  BY <1>1, <1>2
<1>4. Known' = delivered \o batch \o Pushed(queue, accepted + 1)
  BY <1>1 DEF Known
<1>5. TelemetryTypeOK'
  BY <1>1, <1>2, <1>3, PushKeepsOrder, EventAssumption
  DEF TelemetryInv, TelemetryTypeOK, WorkerStates
<1>6. EventsKeepTheirOrder' /\ KnownIsPast'
  BY <1>1, <1>4, PushKeepsOrder DEF EventsKeepTheirOrder, KnownIsPast, Ascending, AtMost
<1>7. LossIsReported'
  <2>1. diagnostics.overflow \in Nat
    BY <1>2
  <2>2. capacity # 0 =>
          accepted + 1 = Len(Known') + diagnostics.overflow + (IF IsFull THEN 1 ELSE 0)
    BY <1>1, <1>4, PushKeepsOrder
  <2>3. Known' \in Seq(Events)
    <3>1. delivered \in Seq(Events) /\ batch \in Seq(Events)
      BY DEF TelemetryInv, TelemetryTypeOK
    <3>2. Pushed(queue, accepted + 1) \in Seq(Events)
      BY <1>1, PushKeepsOrder
    <3>3. delivered \o batch \in Seq(Events)
      BY <3>1, ConcatProperties
    <3>4. QED
      BY <1>4, <3>2, <3>3, ConcatProperties
  <2>4. Len(Known') \in Nat
    BY <2>3, LenProperties
  <2>5. Len(queue') <= capacity'
    BY <1>1, PushKeepsOrder
  <2>6. QED
    BY <1>1, <1>3, <2>1, <2>2, <2>4, <2>5 DEF LossIsReported
<1>8. BatchIsHeldWhileExporting' /\ WorkerEndsDrained' /\ StopperWaits'
  BY <1>1 DEF TelemetryInv, TelemetryTypeOK, WorkerStates,
              BatchIsHeldWhileExporting, WorkerEndsDrained, StopperWaits
<1>9. QED
  BY <1>5, <1>6, <1>7, <1>8 DEF TelemetryInv

(* A batch is the head of the queue, and leaves the order as it is.         *)
LEMMA TakesBatchPreserves == TelemetryInv /\ WorkerTakesBatch => TelemetryInv'
<1> SUFFICES ASSUME TelemetryInv, WorkerTakesBatch PROVE TelemetryInv'
  OBVIOUS
<1>1. /\ worker = "testing" /\ worker' = "exporting"
      /\ batch' = SubSeq(queue, 1, BatchSize)
      /\ queue' = SubSeq(queue, BatchSize + 1, Len(queue))
      /\ UNCHANGED <<capacity, stopping, delivered, diagnostics, closer, accepted>>
  BY DEF WorkerTakesBatch
<1>2. /\ capacity \in Nat /\ queue \in Seq(Events) /\ Len(queue) <= capacity
      /\ delivered \in Seq(Events) /\ batch = <<>>
  BY <1>1, CapacityAssumption
  DEF TelemetryInv, TelemetryTypeOK, LossIsReported, BatchIsHeldWhileExporting
<1>3. Len(queue) \in Nat
  BY <1>2, LenProperties
<1>4. BatchSize \in 0 .. Len(queue) /\ BatchSize <= BatchLimit
  BY <1>3, BatchAssumption DEF BatchSize
<1>5. /\ batch' \in Seq(Events) /\ queue' \in Seq(Events)
      /\ Len(batch') = BatchSize /\ Len(queue') = Len(queue) - BatchSize
      /\ batch' \o queue' = queue
  BY <1>1, <1>2, <1>4, CutQueue
<1>6. TelemetryTypeOK'
  <2>1. Len(batch') <= BatchLimit
    BY <1>4, <1>5
  <2>2. QED
    BY <1>1, <1>5, <2>1 DEF TelemetryInv, TelemetryTypeOK, WorkerStates
<1>7. Known' = Known
  <2>1. Known' = (delivered \o batch') \o queue'
    BY <1>1 DEF Known
  <2>2. (delivered \o batch') \o queue' = delivered \o (batch' \o queue')
    <3>1. \A s, t, u \in Seq(Events) : (s \o t) \o u = s \o (t \o u)
      BY ConcatAssociative
    <3>2. QED
      BY <1>2, <1>5, <3>1, Zenon
  <2>3. Known = delivered \o queue
    BY <1>2, ConcatEmptySeq DEF Known
  <2>4. QED
    BY <1>5, <2>1, <2>2, <2>3
<1>8. EventsKeepTheirOrder' /\ KnownIsPast' /\ LossIsReported'
  <2>1. Len(queue') <= capacity
    BY <1>2, <1>3, <1>4, <1>5
  <2>2. QED
    BY <1>1, <1>7, <2>1, SameKnown
<1>9. BatchIsHeldWhileExporting' /\ WorkerEndsDrained' /\ StopperWaits'
  BY <1>1 DEF TelemetryInv, BatchIsHeldWhileExporting, WorkerEndsDrained, StopperWaits
<1>10. QED
  BY <1>6, <1>8, <1>9 DEF TelemetryInv

(* Delivering a batch moves it behind the delivered events.                 *)
LEMMA DeliverPreserves == TelemetryInv /\ DeliverBatch => TelemetryInv'
<1> SUFFICES ASSUME TelemetryInv, DeliverBatch PROVE TelemetryInv'
  OBVIOUS
<1>1. /\ worker = "delivering" /\ worker' = "testing"
      /\ delivered' = delivered \o batch /\ batch' = <<>>
      /\ UNCHANGED <<capacity, queue, stopping, diagnostics, closer, accepted>>
  BY DEF DeliverBatch
<1>2. delivered \in Seq(Events) /\ batch \in Seq(Events)
  BY DEF TelemetryInv, TelemetryTypeOK
<1>3. /\ delivered' \in Seq(Events) /\ batch' \in Seq(Events)
      /\ Len(batch') = 0 /\ delivered' \o batch' = delivered'
  BY <1>1, <1>2, ConcatProperties, ConcatEmptySeq, EmptySeq
<1>4. TelemetryTypeOK'
  BY <1>1, <1>3, BatchAssumption DEF TelemetryInv, TelemetryTypeOK, WorkerStates
<1>5. Known' = Known
  BY <1>1, <1>3 DEF Known
<1>6. EventsKeepTheirOrder' /\ KnownIsPast' /\ LossIsReported'
  BY <1>1, <1>5, SameKnown DEF TelemetryInv, LossIsReported
<1>7. BatchIsHeldWhileExporting' /\ WorkerEndsDrained' /\ StopperWaits'
  BY <1>1 DEF TelemetryInv, BatchIsHeldWhileExporting, WorkerEndsDrained, StopperWaits
<1>8. QED
  BY <1>4, <1>6, <1>7 DEF TelemetryInv

(* The steps that move no event.                                            *)
LEMMA ControlPreserves ==
  ASSUME TelemetryInv,
         \/ WorkerWaits \/ WorkerTerminates \/ ExportSucceeds \/ ExportFails
         \/ ReportFailure \/ SpuriousWakeup \/ \E c \in Closers : CloserStep(c)
  PROVE  TelemetryInv'
<1>1. /\ UNCHANGED <<capacity, queue, batch, delivered, accepted>>
      /\ worker' \in WorkerStates /\ stopping' \in BOOLEAN
      /\ closer' \in [Closers -> CloserStates]
  <2>1. UNCHANGED <<capacity, queue, batch, delivered, accepted>>
    BY DEF WorkerWaits, WorkerTerminates, ExportSucceeds, ExportFails, ReportFailure,
           SpuriousWakeup, CloserStep, BeginShutdown, AlreadyStopping, NotifyWorker, JoinWorker
  <2>2. worker' \in WorkerStates
    BY DEF TelemetryInv, TelemetryTypeOK, WorkerStates, WorkerWaits, WorkerTerminates,
           ExportSucceeds, ExportFails, ReportFailure, SpuriousWakeup, CloserStep,
           BeginShutdown, AlreadyStopping, NotifyWorker, JoinWorker, NotifyOne
  <2>3. stopping' \in BOOLEAN
    BY DEF TelemetryInv, TelemetryTypeOK, WorkerWaits, WorkerTerminates,
           ExportSucceeds, ExportFails, ReportFailure, SpuriousWakeup, CloserStep,
           BeginShutdown, AlreadyStopping, NotifyWorker, JoinWorker
  <2>4. closer' \in [Closers -> CloserStates]
    <3>1. closer \in [Closers -> CloserStates]
      BY DEF TelemetryInv, TelemetryTypeOK
    <3>2. CASE \E c \in Closers : CloserStep(c)
      <4>1. \E c \in Closers, place \in CloserStates : closer' = [closer EXCEPT ![c] = place]
        BY <3>2 DEF CloserStep, CloserStates, BeginShutdown, AlreadyStopping,
                    NotifyWorker, JoinWorker
      <4>2. QED
        BY <3>1, <4>1
    <3>3. CASE ~ \E c \in Closers : CloserStep(c)
      BY <3>1, <3>3 DEF WorkerWaits, WorkerTerminates, ExportSucceeds, ExportFails,
                        ReportFailure, SpuriousWakeup
    <3>4. QED
      BY <3>2, <3>3
  <2>5. QED
    BY <2>1, <2>2, <2>3, <2>4
<1>2. /\ diagnostics' \in [overflow : Nat, delivery_failed : Nat]
      /\ diagnostics'.overflow = diagnostics.overflow
  BY DEF TelemetryInv, TelemetryTypeOK, WorkerWaits, WorkerTerminates,
         ExportSucceeds, ExportFails, ReportFailure, SpuriousWakeup, CloserStep,
         BeginShutdown, AlreadyStopping, NotifyWorker, JoinWorker
<1>3. TelemetryTypeOK'
  BY <1>1, <1>2 DEF TelemetryInv, TelemetryTypeOK
<1>4. Known' = Known
  BY <1>1 DEF Known
<1>5. EventsKeepTheirOrder' /\ KnownIsPast' /\ LossIsReported'
  BY <1>1, <1>2, <1>4, SameKnown DEF TelemetryInv, LossIsReported
<1>6. BatchIsHeldWhileExporting'
  BY <1>1 DEF TelemetryInv, BatchIsHeldWhileExporting, WorkerWaits, WorkerTerminates,
         ExportSucceeds, ExportFails, ReportFailure, SpuriousWakeup, CloserStep,
         BeginShutdown, AlreadyStopping, NotifyWorker, JoinWorker, NotifyOne
<1>7. WorkerEndsDrained'
  BY <1>1 DEF TelemetryInv, WorkerEndsDrained, WorkerWaits, WorkerTerminates,
         ExportSucceeds, ExportFails, ReportFailure, SpuriousWakeup, CloserStep,
         BeginShutdown, AlreadyStopping, NotifyWorker, JoinWorker, NotifyOne
<1>8. StopperWaits'
  <2>1. CASE \E c \in Closers : CloserStep(c)
    <3>1. PICK c \in Closers : CloserStep(c)
      BY <2>1
    <3>2. closer \in [Closers -> CloserStates]
      BY DEF TelemetryInv, TelemetryTypeOK
    <3>3. CASE BeginShutdown(c) \/ NotifyWorker(c)
      <4>1. closer'[c] \in {"notifying", "joining"}
        BY <3>2, <3>3 DEF BeginShutdown, NotifyWorker
      <4>2. QED
        BY <4>1 DEF StopperWaits
    <3>4. CASE AlreadyStopping(c)
      <4>1. closer[c] = "outside" /\ closer' = [closer EXCEPT ![c] = "returned"]
            /\ worker' = worker /\ stopping' = stopping
        BY <3>4 DEF AlreadyStopping
      <4>2. \A d \in Closers : closer[d] \in {"notifying", "joining"} => closer'[d] = closer[d]
        BY <3>2, <4>1
      <4>3. QED
        BY <4>1, <4>2 DEF TelemetryInv, StopperWaits
    <3>5. CASE JoinWorker(c)
      BY <3>5 DEF JoinWorker, StopperWaits
    <3>6. QED
      BY <3>1, <3>3, <3>4, <3>5 DEF CloserStep
  <2>2. CASE ~ \E c \in Closers : CloserStep(c)
    BY <2>2 DEF TelemetryInv, StopperWaits, WorkerWaits, WorkerTerminates,
         ExportSucceeds, ExportFails, ReportFailure, SpuriousWakeup
  <2>3. QED
    BY <2>1, <2>2
<1>9. QED
  BY <1>3, <1>5, <1>6, <1>7, <1>8 DEF TelemetryInv

(* Every step of the collector keeps the invariant.                         *)
LEMMA TelemetryStep == TelemetryInv /\ [TelemetryNext]_telemetry_vars => TelemetryInv'
<1> SUFFICES ASSUME TelemetryInv, [TelemetryNext]_telemetry_vars PROVE TelemetryInv'
  OBVIOUS
<1>1. CASE Record
  BY <1>1, RecordPreserves
<1>2. CASE WorkerTakesBatch
  BY <1>2, TakesBatchPreserves
<1>3. CASE DeliverBatch
  BY <1>3, DeliverPreserves
<1>4. CASE \/ WorkerWaits \/ WorkerTerminates \/ ExportSucceeds \/ ExportFails
           \/ ReportFailure \/ SpuriousWakeup \/ \E c \in Closers : CloserStep(c)
  BY <1>4, ControlPreserves
<1>5. CASE UNCHANGED telemetry_vars
  BY <1>5 DEF telemetry_vars, TelemetryInv, TelemetryTypeOK, EventsKeepTheirOrder,
              KnownIsPast, AtMost, LossIsReported, BatchIsHeldWhileExporting,
              WorkerEndsDrained, StopperWaits, Known
<1>6. QED
  BY <1>1, <1>2, <1>3, <1>4, <1>5 DEF TelemetryNext, Worker

-----------------------------------------------------------------------------
(* The inductive invariant holds in every reachable state of the collector  *)
(* (record, worker_loop and shutdown, lines 198-254 of src/telemetry.cpp).  *)
THEOREM TelemetryInvariant == TelemetrySpec => []TelemetryInv
<1>1. TelemetryInit => TelemetryInv
  BY TelemetryInitially
<1>2. TelemetryInv /\ [TelemetryNext]_telemetry_vars => TelemetryInv'
  BY TelemetryStep
<1>3. QED
  BY <1>1, <1>2, PTL DEF TelemetrySpec

(* The variables keep their types, and a batch never exceeds its limit      *)
(* (line 226 of src/telemetry.cpp).                                         *)
THEOREM TelemetryTypeCorrect == TelemetrySpec => []TelemetryTypeOK
<1>1. TelemetryInv => TelemetryTypeOK
  BY DEF TelemetryInv
<1>2. QED
  BY <1>1, TelemetryInvariant, PTL

(* Whatever threads record, and however often the queue overflows while a   *)
(* batch is exported, events are delivered in the order they were accepted. *)
THEOREM TelemetryKeepsOrder == TelemetrySpec => []EventsKeepTheirOrder
<1>1. TelemetryInv => EventsKeepTheirOrder
  BY DEF TelemetryInv
<1>2. QED
  BY <1>1, TelemetryInvariant, PTL

(* The queue never exceeds capacity_, and a collector that keeps events     *)
(* loses none without an overflow diagnostic (lines 203-210 of              *)
(* src/telemetry.cpp).                                                      *)
THEOREM TelemetryReportsLoss == TelemetrySpec => []LossIsReported
<1>1. TelemetryInv => LossIsReported
  BY DEF TelemetryInv
<1>2. QED
  BY <1>1, TelemetryInvariant, PTL

(* When the thread that stopped the collector is back from shutdown(), the  *)
(* queue and the last batch have been delivered (lines 223 and 251-253 of   *)
(* src/telemetry.cpp).                                                      *)
THEOREM TelemetryShutdownDrains == TelemetrySpec => []ShutdownDrains
<1>1. TelemetryInv => ShutdownDrains
  <2> SUFFICES ASSUME TelemetryInv, stopping,
                      \A c \in Closers : closer[c] \in {"outside", "returned"}
               PROVE  /\ worker = "terminated" /\ queue = <<>> /\ batch = <<>>
                      /\ capacity # 0 => accepted = Len(delivered) + diagnostics.overflow
    BY DEF ShutdownDrains
  <2>1. worker = "terminated"
    BY DEF TelemetryInv, StopperWaits
  <2>2. queue = <<>> /\ batch = <<>>
    BY <2>1 DEF TelemetryInv, WorkerEndsDrained, BatchIsHeldWhileExporting
  <2>3. Known = delivered
    BY <2>2, ConcatEmptySeq DEF Known, TelemetryInv, TelemetryTypeOK
  <2>4. QED
    BY <2>1, <2>2, <2>3 DEF TelemetryInv, LossIsReported
<1>2. QED
  BY <1>1, TelemetryInvariant, PTL

-----------------------------------------------------------------------------
(* The Python iterator.                                                     *)

AnswerWords ==
  {"nothing", "stream", "dict", "Warning", "StopIteration", "CancellationError", "FileError",
   "InvalidUtf8Error", "DependencyError", "TokenizerError", "InputError", "ConfigurationError"}

Dict == [thread : Threads, window : Nat, chunk_id : Nat]

(* The parts of the state the arguments look at.                            *)
Shape ==
  /\ Len(warns) \in Nat
  /\ next_window \in 1 .. Len(warns) + 1
  /\ at \in [Threads -> {"idle", "warning", "setting"}]
  /\ window \in [Threads -> Nat]
  /\ overwritten \in [Threads -> BOOLEAN]
  /\ answer \in [Threads -> AnswerWords]
  /\ dicts \in Seq(Dict)

(* A thread that shows a warning holds a window later than all it returned, *)
(* and its view was overwritten only by a later one.                        *)
HeldIsNewest ==
  \A t \in Warning :
    /\ \A k \in DOMAIN dicts : dicts[k].thread = t => dicts[k].window < window[t]
    /\ overwritten[t] => window[t] < next_window - 1

(* What a thread was told still holds.                                      *)
FinalAnswersHold ==
  \A t \in Threads :
    /\ answer[t] = "StopIteration" => next_window > Len(warns)
    /\ answer[t] = "CancellationError" => is_cancelled

PythonInv ==
  /\ Shape
  /\ EachWindowOnce
  /\ HeldIsNewest
  /\ OnlyWarnedChunksAreOvertaken
  /\ FinalAnswersHold

-----------------------------------------------------------------------------
(* Nothing has been opened.                                                 *)
LEMMA PythonInvInit == PythonInit => PythonInv
<1> SUFFICES ASSUME PythonInit PROVE PythonInv
  OBVIOUS
<1> USE DEF PythonInit
<1>1. Shape
  <2>1. warns \in Seq(BOOLEAN)
    BY InputAssumption
  <2>2. Len(warns) \in Nat
    BY <2>1
  <2>3. dicts \in Seq(Dict)
    OBVIOUS
  <2> QED
    BY <2>2, <2>3 DEF Shape, AnswerWords
<1>2. Warning = {} /\ DOMAIN dicts = {}
  BY DEF Warning
<1>3. EachWindowOnce
  BY <1>2 DEF EachWindowOnce, Given, HeldWindows
<1>4. HeldIsNewest /\ OnlyWarnedChunksAreOvertaken /\ FinalAnswersHold
  BY <1>2 DEF HeldIsNewest, OnlyWarnedChunksAreOvertaken, FinalAnswersHold
<1> QED
  BY <1>1, <1>3, <1>4 DEF PythonInv

(* The invariant looks at nothing else.                                     *)
LEMMA PythonInvFrame ==
  ASSUME PythonInv,
         UNCHANGED <<warns, next_window, at, window, overwritten, dicts, lost>>,
         Shape', FinalAnswersHold'
  PROVE  PythonInv'
<1>1. Given' = Given /\ Warning' = Warning /\ HeldWindows' = HeldWindows
  BY DEF Given, Warning, HeldWindows
<1>2. EachWindowOnce'
  BY <1>1 DEF PythonInv, EachWindowOnce
<1>3. HeldIsNewest'
  BY <1>1 DEF PythonInv, HeldIsNewest
<1>4. OnlyWarnedChunksAreOvertaken'
  BY <1>1 DEF PythonInv, OnlyWarnedChunksAreOvertaken
<1> QED
  BY <1>2, <1>3, <1>4 DEF PythonInv

(* Nor at who sets the warning mode.                                        *)
LEMMA PythonInvAt ==
  ASSUME PythonInv,
         UNCHANGED <<warns, next_window, window, overwritten, dicts, lost>>,
         NEW t \in Threads, at[t] # "warning", NEW place \in {"idle", "setting"},
         at' = [at EXCEPT ![t] = place],
         Shape', FinalAnswersHold'
  PROVE  PythonInv'
<1>1. Warning' = Warning
  BY DEF Warning, PythonInv, Shape
<1>2. Given' = Given /\ HeldWindows' = HeldWindows
  BY <1>1 DEF Given, HeldWindows
<1>3. EachWindowOnce'
  BY <1>1, <1>2 DEF PythonInv, EachWindowOnce
<1>4. HeldIsNewest'
  BY <1>1 DEF PythonInv, HeldIsNewest
<1>5. OnlyWarnedChunksAreOvertaken'
  BY <1>1, <1>2 DEF PythonInv, OnlyWarnedChunksAreOvertaken
<1> QED
  BY <1>3, <1>4, <1>5 DEF PythonInv

(* A step that changes nothing.                                             *)
LEMMA PythonStutter == PythonInv /\ UNCHANGED python_vars => PythonInv'
<1> SUFFICES ASSUME PythonInv, UNCHANGED python_vars PROVE PythonInv'
  OBVIOUS
<1> USE DEF python_vars, warning_state, held, outcomes
<1>1. Shape' /\ FinalAnswersHold'
  BY DEF PythonInv, Shape, FinalAnswersHold
<1> QED
  BY <1>1, PythonInvFrame

(* An error of stream_file is not taken for a final answer of the stream.   *)
LEMMA OpenErrorIsNotFinal ==
  ASSUME NEW code \in OpenErrors
  PROVE  /\ ExceptionOf(code) \in AnswerWords
         /\ ExceptionOf(code) \notin {"StopIteration", "CancellationError"}
<1>1. CASE code \in {"file_not_found", "io_error", "mapping_failed"}
  <2>1. ExceptionOf(code) = "FileError"
    BY <1>1 DEF ExceptionOf
  <2> QED
    BY <2>1 DEF AnswerWords
<1>2. CASE code = "invalid_utf8"
  BY <1>2 DEF ExceptionOf, AnswerWords
<1>3. CASE code \in {"tokenizer_unavailable", "tokenizer_dependency_missing"}
  <2>1. ExceptionOf(code) = "DependencyError"
    BY <1>3 DEF ExceptionOf
  <2> QED
    BY <2>1 DEF AnswerWords
<1>4. CASE code \in {"tokenizer_model_not_found", "tokenizer_model_invalid", "tokenizer_failed"}
  <2>1. ExceptionOf(code) = "TokenizerError"
    BY <1>4 DEF ExceptionOf
  <2> QED
    BY <2>1 DEF AnswerWords
<1>5. CASE code \in {"invalid_argument", "invalid_configuration"}
  BY <1>5 DEF ExceptionOf, AnswerWords
<1> QED
  BY <1>1, <1>2, <1>3, <1>4, <1>5 DEF OpenErrors

(* The exception of a cancellation.                                         *)
LEMMA CancelledRaises == ExceptionOf("cancelled") = "CancellationError"
BY DEF ExceptionOf

(* stream_file opens a stream that has given nothing.                       *)
LEMMA StreamFileStep ==
  ASSUME PythonInv, NEW t \in Threads, StreamFile(t)
  PROVE  PythonInv'
<1> USE DEF StreamFile, warning_state, held, outcomes, Answers
<1>1. PICK what \in AnswerWords : /\ answer' = [answer EXCEPT ![t] = what]
                             /\ what \notin {"StopIteration", "CancellationError"}
  BY OpenErrorIsNotFinal DEF AnswerWords
<1>2. Shape'
  BY <1>1 DEF PythonInv, Shape
<1>3. FinalAnswersHold'
  BY <1>1 DEF PythonInv, Shape, FinalAnswersHold
<1> QED
  BY <1>2, <1>3, PythonInvFrame

(* A cancelled call takes no window.                                        *)
LEMMA NextCancelledStep ==
  ASSUME PythonInv, NEW t \in Threads, NextCancelled(t)
  PROVE  PythonInv'
<1> USE DEF NextCancelled, warning_state, held, outcomes, Answers, CanCall
<1>1. Shape'
  BY CancelledRaises DEF PythonInv, Shape, AnswerWords
<1>2. FinalAnswersHold'
  BY CancelledRaises DEF PythonInv, Shape, FinalAnswersHold
<1> QED
  BY <1>1, <1>2, PythonInvFrame

(* StopIteration is said only at the end or after close.                    *)
LEMMA NextStopsStep ==
  ASSUME PythonInv, NEW t \in Threads, NextStops(t)
  PROVE  PythonInv'
<1> USE DEF NextStops, warning_state, held, outcomes, Answers
<1>1. Shape'
  BY DEF PythonInv, Shape, AnswerWords
<1>2. FinalAnswersHold'
  BY DEF PythonInv, Shape, FinalAnswersHold
<1> QED
  BY <1>1, <1>2, PythonInvFrame

(* close gives nothing and takes nothing back.                              *)
LEMMA CloseStreamStep ==
  ASSUME PythonInv, NEW t \in Threads, CloseStream(t)
  PROVE  PythonInv'
<1> USE DEF CloseStream, warning_state, held, outcomes
<1>1. Shape' /\ FinalAnswersHold'
  BY DEF PythonInv, Shape, FinalAnswersHold
<1> QED
  BY <1>1, PythonInvFrame

(* The warning mode touches no chunk.                                       *)
LEMMA SetWarningModeStep ==
  ASSUME PythonInv, NEW t \in Threads, SetWarningMode(t)
  PROVE  PythonInv'
<1> USE DEF SetWarningMode, held, outcomes
<1>1. Shape' /\ FinalAnswersHold'
  BY DEF PythonInv, Shape, FinalAnswersHold
<1> QED
  BY <1>1, PythonInvAt

(* Nor does Python's filter.                                                *)
LEMMA SimpleFilterStep ==
  ASSUME PythonInv, NEW t \in Threads, SimpleFilter(t)
  PROVE  PythonInv'
<1> USE DEF SimpleFilter, held, outcomes
<1>1. Shape' /\ FinalAnswersHold'
  BY DEF PythonInv, Shape, FinalAnswersHold
<1> QED
  BY <1>1, PythonInvAt

-----------------------------------------------------------------------------
(* Steps that give windows out.                                             *)

(* A new dict at the end.                                                   *)
LEMMA AppendedDict ==
  ASSUME Shape, NEW d \in Dict, dicts' = Append(dicts, d)
  PROVE  /\ dicts' \in Seq(Dict)
         /\ Len(dicts) \in Nat /\ DOMAIN dicts = 1 .. Len(dicts)
         /\ DOMAIN dicts' = 1 .. Len(dicts) + 1
         /\ \A k \in DOMAIN dicts : dicts'[k] = dicts[k]
         /\ dicts'[Len(dicts) + 1] = d
         /\ Given' = Given \cup {d.window}
<1>1. /\ dicts' \in Seq(Dict)
      /\ Len(dicts) \in Nat /\ DOMAIN dicts = 1 .. Len(dicts)
      /\ DOMAIN dicts' = 1 .. Len(dicts) + 1
      /\ \A k \in DOMAIN dicts : dicts'[k] = dicts[k]
      /\ dicts'[Len(dicts) + 1] = d
  BY DEF Shape
<1>2. Given' = Given \cup {d.window}
  BY <1>1 DEF Given
<1> QED
  BY <1>1, <1>2

(* A thread takes window w: it is new to everyone.                          *)
LEMMA NewWindow ==
  ASSUME PythonInv
  PROVE  /\ next_window \in Nat
         /\ \A w \in Given \cup lost \cup HeldWindows : w \in Nat /\ w < next_window
         /\ (1 .. next_window) = (1 .. next_window - 1) \cup {next_window}
BY DEF PythonInv, Shape, EachWindowOnce

(* A call that returns window w, which nobody had and the caller no longer  *)
(* holds: the rest of the state follows.                                    *)
LEMMA NextQuietStep ==
  ASSUME PythonInv, NEW t \in Threads, NextQuiet(t)
  PROVE  PythonInv'
<1> DEFINE w == next_window
           d == [thread |-> t, window |-> w, chunk_id |-> w]
<1> USE DEF NextQuiet, TakesWindow, Returns, Answers, warning_state
<1>1. /\ Shape /\ EachWindowOnce /\ HeldIsNewest /\ OnlyWarnedChunksAreOvertaken
      /\ FinalAnswersHold
  BY DEF PythonInv
<1>2. d \in Dict /\ dicts' = Append(dicts, d)
  BY <1>1 DEF Shape, Dict
<1>3. Shape'
  BY <1>1, <1>2, AppendedDict DEF Shape, AnswerWords
<1>4. FinalAnswersHold'
  BY <1>1 DEF Shape, FinalAnswersHold, CanCall
<1>5. /\ Warning' = Warning /\ HeldWindows' = HeldWindows /\ lost' = lost
      /\ Given' = Given \cup {w}
  BY <1>1, <1>2, AppendedDict DEF Warning, HeldWindows
<1>6. EachWindowOnce'
  <2>1. (Given \cup lost \cup HeldWindows)' = 1 .. next_window' - 1
    BY <1>1, <1>5, NewWindow DEF EachWindowOnce, Shape
  <2>2. (Given \cap lost = {} /\ Given \cap HeldWindows = {} /\ lost \cap HeldWindows = {})'
    BY <1>1, <1>5, NewWindow DEF EachWindowOnce
  <2>3. \A j, k \in DOMAIN dicts' : j # k => dicts'[j].window # dicts'[k].window
    BY <1>1, <1>2, AppendedDict, NewWindow DEF EachWindowOnce, Given
  <2>4. (\A x, u \in Warning : x # u => window[x] # window[u])'
    BY <1>1, <1>5 DEF EachWindowOnce
  <2>5. (\A v \in lost \cup HeldWindows : warns[v])'
    BY <1>1, <1>5 DEF EachWindowOnce
  <2> QED
    BY <2>1, <2>2, <2>3, <2>4, <2>5 DEF EachWindowOnce
<1>7. HeldIsNewest'
  <2> SUFFICES ASSUME NEW u \in Warning
               PROVE  /\ \A k \in DOMAIN dicts' : dicts'[k].thread = u => dicts'[k].window < window[u]
                      /\ overwritten'[u] => window[u] < next_window' - 1
    BY <1>5 DEF HeldIsNewest
  <2>1. u # t /\ u \in Threads
    BY DEF Warning, CanCall
  <2>2. window[u] \in Nat /\ window[u] < next_window /\ next_window' = next_window + 1
    BY <2>1, NewWindow DEF HeldWindows
  <2>3. \A k \in DOMAIN dicts' : dicts'[k].thread = u => dicts'[k].window < window[u]
    BY <1>1, <1>2, <2>1, AppendedDict DEF HeldIsNewest
  <2> QED
    BY <2>2, <2>3, NewWindow
<1>8. OnlyWarnedChunksAreOvertaken'
  <2> SUFFICES ASSUME NEW k \in DOMAIN dicts'
               PROVE  /\ \A j \in 1 .. k - 1 : dicts'[j].window > dicts'[k].window =>
                           warns[dicts'[k].window] /\ dicts'[j].thread # dicts'[k].thread
                      /\ dicts'[k].chunk_id # dicts'[k].window =>
                           /\ warns[dicts'[k].window]
                           /\ \E v \in (Given \cup lost \cup HeldWindows)' : v > dicts'[k].window
    BY DEF OnlyWarnedChunksAreOvertaken
  <2>1. CASE k \in DOMAIN dicts
    <3>1. k \in 1 .. Len(dicts) /\ \A j \in 1 .. k - 1 : j \in DOMAIN dicts
      BY <1>1, <1>2, <2>1, AppendedDict
    <3>2. dicts'[k] = dicts[k] /\ \A j \in 1 .. k - 1 : dicts'[j] = dicts[j]
      BY <1>1, <1>2, <2>1, <3>1, AppendedDict
    <3> QED
      BY <1>1, <1>5, <2>1, <3>2 DEF OnlyWarnedChunksAreOvertaken
  <2>2. CASE k = Len(dicts) + 1
    <3>1. dicts'[k] = d
      BY <1>1, <1>2, <2>2, AppendedDict
    <3>2. \A j \in 1 .. k - 1 : dicts'[j] = dicts[j] /\ j \in DOMAIN dicts
      BY <1>1, <1>2, <2>2, AppendedDict
    <3>3. \A j \in 1 .. k - 1 : dicts'[j].window \in Nat /\ dicts'[j].window < w
      BY <3>2, NewWindow DEF Given
    <3> QED
      BY <3>1, <3>3, NewWindow
  <2> QED
    BY <1>1, <1>2, <2>1, <2>2, AppendedDict
<1> QED
  BY <1>3, <1>4, <1>6, <1>7, <1>8 DEF PythonInv

(* A warning that is raised takes its window with it.                       *)
LEMMA NextRaisesStep ==
  ASSUME PythonInv, NEW t \in Threads, NextRaises(t)
  PROVE  PythonInv'
<1> USE DEF NextRaises, TakesWindow, Raises, Answers, warning_state
<1>1. /\ Shape /\ EachWindowOnce /\ HeldIsNewest /\ OnlyWarnedChunksAreOvertaken
      /\ FinalAnswersHold
  BY DEF PythonInv
<1>2. Shape'
  BY <1>1 DEF Shape, AnswerWords
<1>3. FinalAnswersHold'
  BY <1>1 DEF Shape, FinalAnswersHold, CanCall
<1>4. /\ Warning' = Warning /\ HeldWindows' = HeldWindows /\ Given' = Given
      /\ lost' = lost \cup {next_window}
  BY DEF Warning, HeldWindows, Given
<1>5. EachWindowOnce'
  <2>1. (Given \cup lost \cup HeldWindows)' = 1 .. next_window' - 1
    BY <1>1, <1>4, NewWindow DEF EachWindowOnce, Shape
  <2>2. (Given \cap lost = {} /\ Given \cap HeldWindows = {} /\ lost \cap HeldWindows = {})'
    BY <1>1, <1>4, NewWindow DEF EachWindowOnce
  <2>3. (\A v \in lost \cup HeldWindows : warns[v])'
    BY <1>1, <1>4 DEF EachWindowOnce, Emits
  <2> QED
    BY <1>1, <1>4, <2>1, <2>2, <2>3 DEF EachWindowOnce
<1>6. HeldIsNewest'
  <2>1. \A u \in Warning : window[u] \in Nat /\ window[u] < next_window
    BY NewWindow DEF HeldWindows
  <2> QED
    BY <1>1, <1>4, <2>1, NewWindow DEF HeldIsNewest
<1>7. OnlyWarnedChunksAreOvertaken'
  BY <1>1, <1>4 DEF OnlyWarnedChunksAreOvertaken
<1> QED
  BY <1>2, <1>3, <1>5, <1>6, <1>7 DEF PythonInv

(* A warning that is shown leaves the window with the thread.               *)
LEMMA NextWarnsStep ==
  ASSUME PythonInv, NEW t \in Threads, NextWarns(t)
  PROVE  PythonInv'
<1> USE DEF NextWarns, TakesWindow, Answers, warning_state, outcomes
<1>1. /\ Shape /\ EachWindowOnce /\ HeldIsNewest /\ OnlyWarnedChunksAreOvertaken
      /\ FinalAnswersHold
  BY DEF PythonInv
<1>2. Shape'
  BY <1>1 DEF Shape
<1>3. FinalAnswersHold'
  BY <1>1 DEF Shape, FinalAnswersHold, CanCall
<1>4. /\ t \notin Warning /\ Warning' = Warning \cup {t}
      /\ window'[t] = next_window /\ \A u \in Warning : window'[u] = window[u]
      /\ Given' = Given
  BY <1>1 DEF Warning, Given, CanCall, Shape
<1>5. HeldWindows' = HeldWindows \cup {next_window}
  BY <1>4 DEF HeldWindows
<1>6. EachWindowOnce'
  <2>1. (Given \cup lost \cup HeldWindows)' = 1 .. next_window' - 1
    BY <1>1, <1>4, <1>5, NewWindow DEF EachWindowOnce, Shape
  <2>2. (Given \cap lost = {} /\ Given \cap HeldWindows = {} /\ lost \cap HeldWindows = {})'
    BY <1>1, <1>4, <1>5, NewWindow DEF EachWindowOnce
  <2>3. \A u \in Warning : window[u] \in Nat /\ window[u] < next_window
    BY NewWindow DEF HeldWindows
  <2>4. (\A x, u \in Warning : x # u => window[x] # window[u])'
    BY <1>1, <1>4, <2>3, NewWindow DEF EachWindowOnce
  <2>5. (\A v \in lost \cup HeldWindows : warns[v])'
    BY <1>1, <1>5 DEF EachWindowOnce, Emits
  <2> QED
    BY <1>1, <2>1, <2>2, <2>4, <2>5 DEF EachWindowOnce
<1>7. HeldIsNewest'
  <2>1. \A u \in Warning : window[u] \in Nat /\ window[u] < next_window
    BY NewWindow DEF HeldWindows
  <2>2. \A k \in DOMAIN dicts : dicts[k].window < next_window
    BY NewWindow DEF Given
  <2>3. ~ overwritten'[t]
    BY DEF CanCall
  <2> QED
    BY <1>1, <1>4, <2>1, <2>2, <2>3, NewWindow DEF HeldIsNewest
<1>8. OnlyWarnedChunksAreOvertaken'
  BY <1>1, <1>4, <1>5 DEF OnlyWarnedChunksAreOvertaken
<1> QED
  BY <1>2, <1>3, <1>6, <1>7, <1>8 DEF PythonInv

(* When the warning has been shown the thread holds its window no longer.   *)
LEMMA LeavesFrees ==
  ASSUME Shape, EachWindowOnce, NEW t \in Threads, at[t] = "warning", Leaves(t)
  PROVE  /\ t \in Warning /\ Warning' = Warning \ {t}
         /\ window[t] \in HeldWindows /\ HeldWindows' = HeldWindows \ {window[t]}
         /\ \A u \in Warning' : window'[u] = window[u] /\ overwritten'[u] = overwritten[u]
         /\ at' \in [Threads -> {"idle", "warning", "setting"}]
         /\ window' \in [Threads -> Nat]
         /\ overwritten' \in [Threads -> BOOLEAN]
<1> USE DEF Leaves, Shape
<1>1. /\ at' \in [Threads -> {"idle", "warning", "setting"}]
      /\ window' \in [Threads -> Nat]
      /\ overwritten' \in [Threads -> BOOLEAN]
  OBVIOUS
<1>2. t \in Warning /\ Warning' = Warning \ {t}
  BY DEF Warning
<1>3. \A u \in Warning' : window'[u] = window[u] /\ overwritten'[u] = overwritten[u]
  BY <1>2 DEF Warning
<1>4. \A u \in Warning : u # t => window[u] # window[t]
  BY <1>2 DEF EachWindowOnce
<1>5. window[t] \in HeldWindows /\ HeldWindows' = HeldWindows \ {window[t]}
  BY <1>2, <1>3, <1>4 DEF HeldWindows
<1> QED
  BY <1>1, <1>2, <1>3, <1>5

(* The dict made after a warning was shown is of the thread's own window.   *)
LEMMA WarningShownStep ==
  ASSUME PythonInv, NEW t \in Threads, WarningShown(t)
  PROVE  PythonInv'
<1> USE DEF WarningShown, Returns, Answers, warning_state
<1>1. /\ Shape /\ EachWindowOnce /\ HeldIsNewest /\ OnlyWarnedChunksAreOvertaken
      /\ FinalAnswersHold
  BY DEF PythonInv
<1>2. PICK chunk_id \in ReadableIds(t) : Returns(t, window[t], chunk_id)
  OBVIOUS
<1> DEFINE w == window[t]
           d == [thread |-> t, window |-> w, chunk_id |-> chunk_id]
<1>3. /\ t \in Warning /\ Warning' = Warning \ {t}
      /\ w \in HeldWindows /\ HeldWindows' = HeldWindows \ {w}
      /\ \A u \in Warning' : window'[u] = window[u] /\ overwritten'[u] = overwritten[u]
      /\ at' \in [Threads -> {"idle", "warning", "setting"}]
      /\ window' \in [Threads -> Nat]
      /\ overwritten' \in [Threads -> BOOLEAN]
  BY <1>1, LeavesFrees
<1>4. /\ w \in Nat /\ w < next_window /\ next_window \in Nat /\ chunk_id \in Nat
      /\ overwritten[t] \in BOOLEAN
      /\ chunk_id # w => overwritten[t]
  BY <1>1, <1>2, <1>3, NewWindow DEF ReadableIds, Damaged, Shape
<1>5. d \in Dict /\ dicts' = Append(dicts, d)
  BY <1>2, <1>4 DEF Dict
<1>6. Given' = Given \cup {w}
  BY <1>1, <1>5, AppendedDict
<1>7. Shape'
  BY <1>1, <1>3, <1>5, AppendedDict DEF Shape, AnswerWords
<1>8. FinalAnswersHold'
  BY <1>1 DEF Shape, FinalAnswersHold
<1>9. (Given \cup lost \cup HeldWindows)' = Given \cup lost \cup HeldWindows
  BY <1>3, <1>6
<1>10. EachWindowOnce'
  <2>1. (Given \cup lost \cup HeldWindows)' = 1 .. next_window' - 1
    BY <1>1, <1>9 DEF EachWindowOnce
  <2>2. (Given \cap lost = {} /\ Given \cap HeldWindows = {} /\ lost \cap HeldWindows = {})'
    BY <1>1, <1>3, <1>6 DEF EachWindowOnce
  <2>3. \A j \in DOMAIN dicts : dicts[j].window # w
    BY <1>1, <1>3 DEF EachWindowOnce, Given
  <2>4. \A j, k \in DOMAIN dicts' : j # k => dicts'[j].window # dicts'[k].window
    BY <1>1, <1>5, <2>3, AppendedDict DEF EachWindowOnce
  <2>5. (\A x, u \in Warning : x # u => window[x] # window[u])'
    BY <1>1, <1>3 DEF EachWindowOnce
  <2>6. (\A v \in lost \cup HeldWindows : warns[v])'
    BY <1>1, <1>3 DEF EachWindowOnce
  <2> QED
    BY <2>1, <2>2, <2>4, <2>5, <2>6 DEF EachWindowOnce
<1>11. HeldIsNewest'
  <2> SUFFICES ASSUME NEW u \in Warning'
               PROVE  /\ \A k \in DOMAIN dicts' : dicts'[k].thread = u => dicts'[k].window < window[u]
                      /\ overwritten[u] => window[u] < next_window - 1
    BY <1>3 DEF HeldIsNewest
  <2>1. u # t /\ u \in Warning
    BY <1>3
  <2>2. \A k \in DOMAIN dicts' : dicts'[k].thread = u => dicts'[k].window < window[u]
    BY <1>1, <1>5, <2>1, AppendedDict DEF HeldIsNewest
  <2> QED
    BY <1>1, <2>1, <2>2 DEF HeldIsNewest
<1>12. OnlyWarnedChunksAreOvertaken'
  <2> SUFFICES ASSUME NEW k \in DOMAIN dicts'
               PROVE  /\ \A j \in 1 .. k - 1 : dicts'[j].window > dicts'[k].window =>
                           warns[dicts'[k].window] /\ dicts'[j].thread # dicts'[k].thread
                      /\ dicts'[k].chunk_id # dicts'[k].window =>
                           /\ warns[dicts'[k].window]
                           /\ \E v \in (Given \cup lost \cup HeldWindows)' : v > dicts'[k].window
    BY DEF OnlyWarnedChunksAreOvertaken
  <2>1. CASE k \in DOMAIN dicts
    <3>1. k \in 1 .. Len(dicts) /\ \A j \in 1 .. k - 1 : j \in DOMAIN dicts
      BY <1>1, <1>5, <2>1, AppendedDict
    <3>2. dicts'[k] = dicts[k] /\ \A j \in 1 .. k - 1 : dicts'[j] = dicts[j]
      BY <1>1, <1>5, <2>1, <3>1, AppendedDict
    <3> QED
      BY <1>1, <1>9, <2>1, <3>2 DEF OnlyWarnedChunksAreOvertaken
  <2>2. CASE k = Len(dicts) + 1
    <3>1. dicts'[k] = d
      BY <1>1, <1>5, <2>2, AppendedDict
    <3>2. \A j \in 1 .. k - 1 : dicts'[j] = dicts[j] /\ j \in DOMAIN dicts
      BY <1>1, <1>5, <2>2, AppendedDict
    <3>3. warns[w]
      BY <1>1, <1>3 DEF EachWindowOnce
    <3>4. \A j \in 1 .. k - 1 : dicts'[j].thread = t => dicts'[j].window < w
      BY <1>1, <1>3, <3>2 DEF HeldIsNewest
    <3>5. \A j \in 1 .. k - 1 : dicts'[j].window \in Nat
      BY <3>2, NewWindow DEF Given
    <3>6. ASSUME chunk_id # w
          PROVE  \E v \in (Given \cup lost \cup HeldWindows)' : v > w
      <4>1. w < next_window - 1
        BY <1>1, <1>3, <1>4, <3>6 DEF HeldIsNewest
      <4>2. next_window - 1 \in 1 .. next_window - 1
        BY <1>4, <4>1
      <4>3. next_window - 1 \in (Given \cup lost \cup HeldWindows)'
        BY <1>1, <1>9, <4>2 DEF EachWindowOnce
      <4> QED
        BY <4>1, <4>3
    <3> QED
      BY <3>1, <3>3, <3>4, <3>5, <3>6, <1>4
  <2> QED
    BY <1>1, <1>5, <2>1, <2>2, AppendedDict
<1> QED
  BY <1>7, <1>8, <1>10, <1>11, <1>12 DEF PythonInv

(* A warning that ends in an exception drops the window of its thread.      *)
LEMMA WarningInterruptedStep ==
  ASSUME PythonInv, NEW t \in Threads, WarningInterrupted(t)
  PROVE  PythonInv'
<1> USE DEF WarningInterrupted, Raises, Answers, warning_state
<1>1. /\ Shape /\ EachWindowOnce /\ HeldIsNewest /\ OnlyWarnedChunksAreOvertaken
      /\ FinalAnswersHold
  BY DEF PythonInv
<1>2. /\ t \in Warning /\ Warning' = Warning \ {t}
      /\ window[t] \in HeldWindows /\ HeldWindows' = HeldWindows \ {window[t]}
      /\ \A u \in Warning' : window'[u] = window[u] /\ overwritten'[u] = overwritten[u]
      /\ at' \in [Threads -> {"idle", "warning", "setting"}]
      /\ window' \in [Threads -> Nat]
      /\ overwritten' \in [Threads -> BOOLEAN]
  BY <1>1, LeavesFrees
<1>3. Given' = Given /\ lost' = lost \cup {window[t]}
  BY DEF Given
<1>4. (Given \cup lost \cup HeldWindows)' = Given \cup lost \cup HeldWindows
  BY <1>2, <1>3
<1>5. Shape'
  BY <1>1, <1>2 DEF Shape, AnswerWords
<1>6. FinalAnswersHold'
  BY <1>1 DEF Shape, FinalAnswersHold
<1>7. EachWindowOnce'
  <2>1. (Given \cup lost \cup HeldWindows)' = 1 .. next_window' - 1
    BY <1>1, <1>4 DEF EachWindowOnce
  <2>2. (Given \cap lost = {} /\ Given \cap HeldWindows = {} /\ lost \cap HeldWindows = {})'
    BY <1>1, <1>2, <1>3 DEF EachWindowOnce
  <2>3. (\A x, u \in Warning : x # u => window[x] # window[u])'
    BY <1>1, <1>2 DEF EachWindowOnce
  <2>4. (\A v \in lost \cup HeldWindows : warns[v])'
    BY <1>1, <1>2, <1>3 DEF EachWindowOnce
  <2> QED
    BY <1>1, <2>1, <2>2, <2>3, <2>4 DEF EachWindowOnce
<1>8. HeldIsNewest'
  BY <1>1, <1>2 DEF HeldIsNewest
<1>9. OnlyWarnedChunksAreOvertaken'
  BY <1>1, <1>4 DEF OnlyWarnedChunksAreOvertaken
<1> QED
  BY <1>5, <1>6, <1>7, <1>8, <1>9 DEF PythonInv

-----------------------------------------------------------------------------
(* Every call of every thread keeps the invariant.                          *)
LEMMA PythonInvStep ==
  PythonInv /\ [PythonNext]_python_vars => PythonInv'
<1> SUFFICES ASSUME PythonInv, [PythonNext]_python_vars PROVE PythonInv'
  OBVIOUS
<1>1. CASE UNCHANGED python_vars
  BY <1>1, PythonStutter
<1>2. ASSUME NEW t \in Threads, Next(t) PROVE PythonInv'
  BY <1>2, NextCancelledStep, NextStopsStep, NextQuietStep, NextRaisesStep, NextWarnsStep,
     WarningShownStep, WarningInterruptedStep DEF Next
<1> QED
  BY <1>1, <1>2, StreamFileStep, CloseStreamStep, SetWarningModeStep, SimpleFilterStep
  DEF PythonNext

(* Each window goes to one call, in whatever order the threads, and the     *)
(* code that shows their warnings, call the iterator.                       *)
(* Code: lines 264-294 of src/bindings/python/fastchunk_py.cpp.             *)
THEOREM PythonEachWindowOnce == PythonSpec => []EachWindowOnce
<1>1. PythonInv => EachWindowOnce
  BY DEF PythonInv
<1> QED
  BY <1>1, PythonInvInit, PythonInvStep, PTL DEF PythonSpec

(* A chunk without a diagnostic is delivered in order and as itself.        *)
(* Code: lines 270-276 of src/bindings/python/fastchunk_py.cpp.             *)
THEOREM PythonOnlyWarnedChunksAreOvertaken == PythonSpec => []OnlyWarnedChunksAreOvertaken
<1>1. PythonInv => OnlyWarnedChunksAreOvertaken
  BY DEF PythonInv
<1> QED
  BY <1>1, PythonInvInit, PythonInvStep, PTL DEF PythonSpec

(* A final answer to one thread is final for all.                           *)
(* Code: lines 267-272 and 297-301 of src/bindings/python/fastchunk_py.cpp. *)
THEOREM PythonEndIsTheEndForAll == PythonSpec => EndIsTheEndForAll
<1>1. PythonInv /\ [PythonNext]_python_vars
        => [is_cancelled \/ (\E t \in Threads : answer[t] \in {"StopIteration", "CancellationError"})
              => next_window' = next_window]_python_vars
  <2> SUFFICES ASSUME PythonInv, PythonNext,
                      is_cancelled \/ (\E t \in Threads : answer[t] \in {"StopIteration", "CancellationError"})
               PROVE  next_window' = next_window
    BY DEF python_vars
  <2>1. is_cancelled \/ next_window > Len(warns)
    BY DEF PythonInv, FinalAnswersHold
  <2>2. next_window \in Nat /\ Len(warns) \in Nat
    BY DEF PythonInv, Shape
  <2>3. ASSUME NEW t \in Threads, TakesWindow(t) PROVE FALSE
    BY <2>1, <2>2, <2>3 DEF TakesWindow
  <2>4. ASSUME NEW t \in Threads, Next(t) PROVE next_window' = next_window
    BY <2>3, <2>4 DEF Next, NextCancelled, NextStops, NextQuiet, NextRaises, NextWarns,
       WarningShown, WarningInterrupted
  <2> QED
    BY <2>4 DEF PythonNext, StreamFile, CloseStream, SetWarningMode, SimpleFilter
<1> QED
  BY <1>1, PythonInvInit, PythonInvStep, PTL DEF PythonSpec, EndIsTheEndForAll
-----------------------------------------------------------------------------
(* The stateful chunker: the tokens of a buffer.                            *)

(* A run of word bytes ends, at the end of the buffer if not before.        *)
LEMMA TokenEnds ==
  ASSUME NEW bytes \in Seq(Byte), NEW p \in 0 .. Len(bytes) - 1, IsWord(bytes, p)
  PROVE  /\ TokenFrom(bytes, p).start_byte = p
         /\ TokenFrom(bytes, p).end_byte \in p + 1 .. Len(bytes)
         /\ TokenFrom(bytes, p) \in Token
<1> DEFINE n == Len(bytes)
           T == {e \in p + 1 .. n : ~ IsWord(bytes, e)}
           Ends(e) == (\A q \in p .. e - 1 : IsWord(bytes, q)) /\ ~ IsWord(bytes, e)
           end == CHOOSE e \in p + 1 .. n : Ends(e)
<1>1. n \in Nat /\ p \in Nat /\ p < n
  OBVIOUS
<1>2. n \in T
  BY <1>1 DEF IsWord
<1>3. PICK e \in T : \A q \in T : e <= q
  <2>1. T \subseteq Nat /\ T # {}
    BY <1>1, <1>2
  <2> HIDE DEF T
  <2> QED
    BY <2>1, LeastNatural
<1>4. e \in p + 1 .. n /\ ~ IsWord(bytes, e)
  BY <1>3
<1>5. ASSUME NEW q \in p .. e - 1 PROVE IsWord(bytes, q)
  <2>1. CASE q = p
    BY <2>1
  <2>2. CASE q # p
    <3>1. q \in p + 1 .. n /\ ~ (e <= q)
      BY <1>1, <1>4, <2>2
    <3> QED
      BY <1>3, <3>1
  <2> QED
    BY <2>1, <2>2
<1>6. Ends(e)
  BY <1>4, <1>5
<1>7. end \in p + 1 .. n
  <2> HIDE DEF Ends
  <2> QED
    BY <1>4, <1>6
<1>8. TokenFrom(bytes, p) = [start_byte |-> p, end_byte |-> end]
  BY DEF TokenFrom
<1> HIDE DEF end
<1>9. [start_byte |-> p, end_byte |-> end] \in Token
  BY <1>1, <1>7 DEF Token
<1> QED
  BY <1>7, <1>8, <1>9

(* What the loop has still to find when it is at p: the tokens behind p, in *)
(* order, with every word byte in one of them.                              *)
TokensBehind(bytes, p, tokens) ==
  /\ tokens \in Seq(Token)
  /\ \A k \in 1 .. Len(tokens) :
       /\ p <= tokens[k].start_byte
       /\ tokens[k].start_byte < tokens[k].end_byte
       /\ tokens[k].end_byte <= Len(bytes)
  /\ \A j, k \in 1 .. Len(tokens) : j < k => tokens[j].end_byte <= tokens[k].start_byte
  /\ \A q \in p .. Len(bytes) - 1 : IsWord(bytes, q) =>
       \E k \in 1 .. Len(tokens) : tokens[k].start_byte <= q /\ q < tokens[k].end_byte

(* Behind a space there is what there is behind the next byte.              *)
LEMMA SpaceSkipped ==
  ASSUME NEW bytes \in Seq(Byte), NEW p \in 0 .. Len(bytes) - 1, ~ IsWord(bytes, p),
         NEW tokens, TokensBehind(bytes, p + 1, tokens)
  PROVE  TokensBehind(bytes, p, tokens)
<1>1. tokens \in Seq(Token) /\ Len(tokens) \in Nat /\ Len(bytes) \in Nat
  BY DEF TokensBehind
<1>2. \A k \in 1 .. Len(tokens) : tokens[k].start_byte \in Nat /\ tokens[k].end_byte \in Nat
  BY <1>1 DEF Token
<1>3. \A k \in 1 .. Len(tokens) : p <= tokens[k].start_byte
  BY <1>2 DEF TokensBehind
<1>4. \A q \in p .. Len(bytes) - 1 : q = p \/ q \in p + 1 .. Len(bytes) - 1
  OBVIOUS
<1> QED
  BY <1>3, <1>4 DEF TokensBehind

(* Behind a word byte there is its token and what follows that.             *)
LEMMA TokenFound ==
  ASSUME NEW bytes \in Seq(Byte), NEW p \in 0 .. Len(bytes) - 1, IsWord(bytes, p),
         NEW tokens, TokensBehind(bytes, TokenFrom(bytes, p).end_byte, tokens)
  PROVE  TokensBehind(bytes, p, <<TokenFrom(bytes, p)>> \o tokens)
<1> DEFINE first == TokenFrom(bytes, p)
           e == first.end_byte
           all == <<first>> \o tokens
           m == Len(tokens)
           n == Len(bytes)
<1>1. first \in Token /\ first.start_byte = p /\ e \in p + 1 .. n /\ p \in Nat /\ n \in Nat
  BY TokenEnds
<1>2. /\ tokens \in Seq(Token) /\ m \in Nat
      /\ \A k \in 1 .. m : /\ tokens[k].start_byte \in Nat /\ tokens[k].end_byte \in Nat
                           /\ e <= tokens[k].start_byte
                           /\ tokens[k].start_byte < tokens[k].end_byte
                           /\ tokens[k].end_byte <= n
  BY DEF TokensBehind, Token
<1> HIDE DEF first, e
<1>3. <<first>> \in Seq(Token) /\ Len(<<first>>) = 1 /\ <<first>>[1] = first
  BY <1>1
<1>4. /\ all \in Seq(Token) /\ Len(all) = m + 1 /\ all[1] = first
      /\ \A k \in 2 .. m + 1 : k - 1 \in 1 .. m /\ all[k] = tokens[k - 1]
  BY <1>2, <1>3, ConcatProperties
<1> HIDE DEF all
<1>5. ASSUME NEW k \in 1 .. Len(all)
      PROVE  /\ p <= all[k].start_byte
             /\ all[k].start_byte < all[k].end_byte
             /\ all[k].end_byte <= n
  <2>1. CASE k = 1
    BY <1>1, <1>4, <2>1 DEF e
  <2>2. CASE k # 1
    <3>1. k \in 2 .. m + 1
      BY <1>2, <1>4, <2>2
    <3>2. all[k] = tokens[k - 1] /\ k - 1 \in 1 .. m
      BY <1>4, <3>1
    <3> QED
      BY <1>1, <1>2, <3>2
  <2> QED
    BY <2>1, <2>2
<1>6. ASSUME NEW j \in 1 .. Len(all), NEW k \in 1 .. Len(all), j < k
      PROVE  all[j].end_byte <= all[k].start_byte
  <2>1. k \in 2 .. m + 1
    BY <1>2, <1>4, <1>6
  <2>2. all[k] = tokens[k - 1] /\ k - 1 \in 1 .. m
    BY <1>4, <2>1
  <2>3. CASE j = 1
    BY <1>2, <1>4, <2>2, <2>3 DEF e
  <2>4. CASE j # 1
    <3>1. j \in 2 .. m + 1 /\ j - 1 < k - 1
      BY <1>2, <1>4, <1>6, <2>4
    <3>2. all[j] = tokens[j - 1] /\ j - 1 \in 1 .. m
      BY <1>4, <3>1
    <3> QED
      BY <2>2, <3>1, <3>2 DEF TokensBehind
  <2> QED
    BY <2>3, <2>4
<1>7. ASSUME NEW q \in p .. n - 1, IsWord(bytes, q)
      PROVE  \E k \in 1 .. Len(all) : all[k].start_byte <= q /\ q < all[k].end_byte
  <2>1. CASE q < e
    <3>1. all[1].start_byte <= q /\ q < all[1].end_byte /\ 1 \in 1 .. Len(all)
      BY <1>1, <1>2, <1>4, <1>7, <2>1 DEF e
    <3> QED
      BY <3>1
  <2>2. CASE ~ (q < e)
    <3>1. q \in e .. n - 1
      BY <1>1, <2>2
    <3>2. PICK k \in 1 .. m : tokens[k].start_byte <= q /\ q < tokens[k].end_byte
      BY <1>7, <3>1 DEF TokensBehind, e, first
    <3> DEFINE j == k + 1
    <3>3. j \in 2 .. m + 1 /\ j - 1 = k /\ j \in 1 .. Len(all)
      BY <1>2, <1>4
    <3> HIDE DEF j
    <3>4. all[j] = tokens[k]
      BY <1>4, <3>3
    <3> QED
      BY <3>2, <3>3, <3>4
  <2> QED
    BY <2>1, <2>2
<1>8. TokensBehind(bytes, p, all)
  BY <1>4, <1>5, <1>6, <1>7 DEF TokensBehind
<1> QED
  BY <1>8 DEF all, first

(* The loop finds every token: each word byte of the buffer is in one.      *)
LEMMA EncodeFindsTokens ==
  ASSUME NEW bytes \in Seq(Byte)
  PROVE  TokensBehind(bytes, 0, Encode(bytes))
<1> DEFINE n == Len(bytes)
           Onward(i) == IF IsWord(bytes, i) THEN TokenFrom(bytes, i).end_byte ELSE i + 1
           Turn(i, v) == IF IsWord(bytes, i) THEN <<TokenFrom(bytes, i)>> \o v ELSE v
           Finds(f) == f = [p \in 0 .. n |->
                              IF p = n THEN <<>>
                              ELSE IF ~ IsWord(bytes, p) THEN f[p + 1]
                              ELSE <<TokenFrom(bytes, p)>> \o f[TokenFrom(bytes, p).end_byte]]
           V == Seq(Token)
           base == <<>>
           further == [i \in 0 .. n - 1 |-> Onward(i)]
           step == [i \in 0 .. n - 1 |-> [v \in V |-> Turn(i, v)]]
<1>1. n \in Nat
  OBVIOUS
<1>2. ASSUME NEW i \in 0 .. n - 1
      PROVE  Onward(i) \in i + 1 .. n
  BY <1>1, TokenEnds
<1>3. ASSUME NEW i \in 0 .. n - 1, NEW v \in Seq(Token)
      PROVE  Turn(i, v) \in Seq(Token)
  <2>1. CASE IsWord(bytes, i)
    <3>1. <<TokenFrom(bytes, i)>> \in Seq(Token)
      BY <2>1, TokenEnds
    <3> QED
      BY <2>1, <3>1, ConcatProperties
  <2> QED
    BY <2>1
<1>4. base \in V /\ <<>> \in Seq(Token)
  OBVIOUS
<1>5. /\ \A i \in 0 .. n - 1 : further[i] = Onward(i) /\ further[i] \in i + 1 .. n
      /\ \A i \in 0 .. n - 1 : \A v \in V : step[i][v] = Turn(i, v) /\ step[i][v] \in V
  <2> HIDE DEF Onward, Turn
  <2> QED
    BY <1>2, <1>3
<1>6. PICK f \in [0 .. n -> V] :
        f = [i \in 0 .. n |-> IF i = n THEN base ELSE step[i][f[further[i]]]]
  <2> HIDE DEF n, V, base, step, further
  <2>1. Computable(n, V, base, further, step)
    BY <1>1, <1>4, <1>5, BackwardRecursion
  <2> QED
    BY <2>1 DEF Computable
<1>7. ASSUME NEW i \in 0 .. n
      PROVE  f[i] = IF i = n THEN <<>>
                    ELSE IF ~ IsWord(bytes, i) THEN f[i + 1]
                    ELSE <<TokenFrom(bytes, i)>> \o f[TokenFrom(bytes, i).end_byte]
  <2>1. CASE i = n
    BY <1>6, <2>1
  <2>2. CASE i # n
    <3>1. i \in 0 .. n - 1
      BY <1>1, <2>2
    <3>2. further[i] = Onward(i) /\ further[i] \in 0 .. n
      <4> HIDE DEF Onward, further
      <4>1. further[i] = Onward(i) /\ further[i] \in i + 1 .. n
        BY <1>5, <3>1
      <4> QED
        BY <1>1, <4>1
    <3>3. f[i] = Turn(i, f[Onward(i)])
      <4> HIDE DEF Onward, Turn, step, further, V
      <4>1. f[i] = step[i][f[further[i]]]
        BY <1>6, <2>2, ZenonT(40)
      <4>2. f[further[i]] \in V
        BY <1>6, <3>2
      <4> QED
        BY <1>5, <3>1, <3>2, <4>1, <4>2
    <3> QED
      BY <2>2, <3>3
  <2> QED
    BY <2>1, <2>2
<1>8. Finds(f)
  <2>1. f = [i \in 0 .. n |-> f[i]]
    BY <1>6
  <2> QED
    BY <1>7, <2>1, Zenon
<1>9. ASSUME NEW g, Finds(g)
      PROVE  TokensBehind(bytes, 0, g[0])
  <2> DEFINE S == {i \in 0 .. n : TokensBehind(bytes, i, g[i])}
  <2>1. /\ g[n] = <<>>
        /\ \A i \in 0 .. n - 1 :
             g[i] = IF ~ IsWord(bytes, i) THEN g[i + 1]
                    ELSE <<TokenFrom(bytes, i)>> \o g[TokenFrom(bytes, i).end_byte]
    <3>1. \A i \in 0 .. n : g[i] = IF i = n THEN <<>>
                                   ELSE IF ~ IsWord(bytes, i) THEN g[i + 1]
                                   ELSE <<TokenFrom(bytes, i)>> \o g[TokenFrom(bytes, i).end_byte]
      BY <1>9, Zenon
    <3>2. n \in 0 .. n /\ \A i \in 0 .. n - 1 : i \in 0 .. n /\ i # n
      BY <1>1
    <3> HIDE DEF n
    <3> QED
      BY <3>1, <3>2
  <2>2. TokensBehind(bytes, n, <<>>)
    BY <1>1, <1>4 DEF TokensBehind
  <2>3. ASSUME NEW i \in 0 .. n, \A j \in i + 1 .. n : j \in S
        PROVE  i \in S
    <3>1. CASE i = n
      BY <2>1, <2>2, <3>1
    <3>2. CASE i # n
      <4>1. i \in 0 .. n - 1
        BY <1>1, <3>2
      <4>2. CASE IsWord(bytes, i)
        <5>1. TokenFrom(bytes, i).end_byte \in i + 1 .. n
          BY <4>1, <4>2, TokenEnds
        <5>2. TokensBehind(bytes, TokenFrom(bytes, i).end_byte, g[TokenFrom(bytes, i).end_byte])
          BY <2>3, <5>1
        <5>3. TokensBehind(bytes, i, <<TokenFrom(bytes, i)>> \o g[TokenFrom(bytes, i).end_byte])
          BY <4>1, <4>2, <5>2, TokenFound
        <5>4. g[i] = <<TokenFrom(bytes, i)>> \o g[TokenFrom(bytes, i).end_byte]
          BY <2>1, <4>1, <4>2
        <5> QED
          BY <5>3, <5>4
      <4>3. CASE ~ IsWord(bytes, i)
        <5>1. i + 1 \in i + 1 .. n
          BY <1>1, <4>1
        <5>2. TokensBehind(bytes, i + 1, g[i + 1])
          BY <2>3, <5>1
        <5> QED
          BY <2>1, <4>1, <4>3, <5>2, SpaceSkipped
      <4> QED
        BY <4>2, <4>3
    <3> QED
      BY <3>1, <3>2
  <2>4. \A i \in 0 .. n : i \in S
    <3> HIDE DEF S
    <3>1. \A i \in 0 .. n : (\A j \in i + 1 .. n : j \in S) => i \in S
      BY <2>3
    <3> HIDE DEF n
    <3> QED
      BY <1>1, <3>1, FromTheEnd
  <2> QED
    BY <1>1, <2>4
<1>10. Encode(bytes) = (CHOOSE g : Finds(g))[0]
  BY DEF Encode
<1>11. TokensBehind(bytes, 0, (CHOOSE g : Finds(g))[0])
  <2> HIDE DEF Finds
  <2> QED
    BY <1>8, <1>9
<1> QED
  BY <1>10, <1>11

(* The chunks of a buffer lie in it, the first begins first and the last    *)
(* ends last, and every word byte is in one of them.                        *)
LEMMA ChunksCoverWords ==
  ASSUME options \in Option, ValidOption(options), NEW bytes \in Seq(Byte)
  PROVE  LET c == Chunks(bytes) IN
         /\ Len(c) \in Nat /\ (c = <<>> <=> Len(c) = 0)
         /\ \A k \in 1 .. Len(c) :
              /\ c[k].start_byte \in Nat /\ c[k].end_byte \in Nat
              /\ c[k].start_byte <= c[k].end_byte
              /\ c[1].start_byte <= c[k].start_byte
              /\ c[k].end_byte <= c[Len(c)].end_byte
              /\ c[k].end_byte <= Len(bytes)
         /\ \A q \in 0 .. Len(bytes) - 1 : IsWord(bytes, q) =>
              \E k \in 1 .. Len(c) : c[k].start_byte <= q /\ q < c[k].end_byte
<1> DEFINE t == Encode(bytes)
           n == Len(t)
           w == WindowCount(options, n)
           d == Stride(options)
           m == options.max_tokens
           c == Chunks(bytes)
           First(k) == k * d
           End(k) == LesserOf(k * d + m, n)
<1>1. /\ t \in Seq(Token) /\ n \in Nat /\ Len(bytes) \in Nat
      /\ \A i \in 1 .. n : /\ t[i].start_byte \in Nat /\ t[i].end_byte \in Nat
                           /\ t[i].start_byte < t[i].end_byte /\ t[i].end_byte <= Len(bytes)
      /\ \A i, j \in 1 .. n : i < j => t[i].end_byte <= t[j].start_byte
      /\ \A q \in 0 .. Len(bytes) - 1 : IsWord(bytes, q) =>
           \E i \in 1 .. n : t[i].start_byte <= q /\ q < t[i].end_byte
  <2>1. TokensBehind(bytes, 0, t)
    BY EncodeFindsTokens
  <2>2. t \in Seq(Token) /\ n \in Nat /\ Len(bytes) \in Nat
    <3> HIDE DEF t
    <3> QED
      BY <2>1 DEF TokensBehind
  <2> HIDE DEF t
  <2>3. \A i \in 1 .. n : t[i].start_byte \in Nat /\ t[i].end_byte \in Nat
    BY <2>2 DEF Token
  <2> QED
    BY <2>1, <2>2, <2>3, SMTT(40) DEF TokensBehind
<1>2. m \in Nat \ {0} /\ d \in Nat \ {0} /\ w \in Nat
  BY <1>1, StrideType, WindowCountType
<1>3. /\ c \in Seq({RefChunk(options, t, k - 1) : k \in 1 .. w})
      /\ Len(c) = w
      /\ \A k \in 1 .. w : c[k] = RefChunk(options, t, k - 1)
  <2>1. c = [k \in 1 .. w |-> RefChunk(options, t, k - 1)]
    BY DEF Chunks, AllChunks
  <2> DEFINE Q == {RefChunk(options, t, k - 1) : k \in 1 .. w}
  <2>2. \A k \in 1 .. w : RefChunk(options, t, k - 1) \in Q
    OBVIOUS
  <2> HIDE DEF c, t, w, Q
  <2>3. /\ c \in [1 .. w -> Q] /\ DOMAIN c = 1 .. w
        /\ \A k \in 1 .. w : c[k] = RefChunk(options, t, k - 1)
    BY <2>1, <2>2
  <2>4. c \in Seq(Q)
    BY <1>2, <2>3, SeqDef
  <2>5. Len(c) = w
    BY <1>2, <2>3, <2>4, LenProperties
  <2> QED
    BY <2>3, <2>4, <2>5 DEF Q
<1>4. c = <<>> <=> Len(c) = 0
  <2> HIDE DEF c
  <2> QED
    BY <1>2, <1>3
<1>5. ASSUME NEW k \in 1 .. w
      PROVE  /\ c[k].start_byte = t[First(k - 1) + 1].start_byte
             /\ c[k].end_byte = t[End(k - 1)].end_byte
  <2>1. /\ c[k].start_byte = TokenAt(t, First(k - 1)).start_byte
        /\ c[k].end_byte = TokenAt(t, End(k - 1) - 1).end_byte
    <3> HIDE DEF c, t, w
    <3> QED
      BY <1>3 DEF RefChunk, ChunkAt, RefFirst, RefLast
  <2>2. End(k - 1) \in Int
    BY <1>1, <1>2 DEF LesserOf
  <2>3. End(k - 1) - 1 + 1 = End(k - 1)
    <3> DEFINE e == End(k - 1)
    <3> HIDE DEF e
    <3>1. e - 1 + 1 = e
      BY <2>2 DEF e
    <3> QED
      BY <3>1 DEF e
  <2> QED
    BY <2>1, <2>3 DEF TokenAt
<1> HIDE DEF c, t
<1>6. CASE n = 0
  <2>1. w = 0
    BY <1>6 DEF WindowCount
  <2> QED
    BY <1>1, <1>3, <1>4, <1>6, <2>1 DEF c
<1>7. CASE n # 0
  <2>1. n \in Nat \ {0}
    BY <1>1, <1>7
  <2>2. w \in Nat \ {0} /\ First(w - 1) < n /\ n <= First(w - 1) + m
    BY <2>1, WindowsSpan
  <2>3. ASSUME NEW k \in 1 .. w
        PROVE  /\ First(k - 1) \in 0 .. n - 1 /\ End(k - 1) \in 1 .. n
               /\ First(k - 1) < End(k - 1)
    <3> DEFINE j == k - 1
               y == j * d
               z == (w - 1) * d
    <3>1. y <= z /\ y \in Nat /\ z \in Nat /\ z < n
      <4>1. j <= w - 1 /\ j \in Nat /\ w - 1 \in Nat
        BY <2>2
      <4> QED
        BY <1>2, <2>2, <4>1, ProductMonotone, SMTT(30)
    <3> HIDE DEF y, z, j, m, n
    <3>2. y \in 0 .. n - 1 /\ LesserOf(y + m, n) \in 1 .. n /\ y < LesserOf(y + m, n)
      BY <1>2, <2>1, <3>1 DEF LesserOf
    <3> QED
      BY <3>2 DEF y, j
  <2>4. First(0) = 0 /\ End(w - 1) = n
    <3> DEFINE z == (w - 1) * d
    <3>1. z \in Int
      BY <1>2
    <3>2. z + m \in Int /\ n <= z + m
      BY <1>2, <2>2, <3>1
    <3> HIDE DEF z, m, n
    <3>3. LesserOf(z + m, n) = n
      BY <2>1, <3>2 DEF LesserOf
    <3> QED
      BY <1>2, <3>3 DEF z
  <2> DEFINE S(k) == First(k - 1) + 1
             E(k) == End(k - 1)
  <2>5. /\ \A k \in 1 .. w : /\ S(k) \in 1 .. n /\ E(k) \in 1 .. n /\ S(k) <= E(k)
                             /\ c[k].start_byte = t[S(k)].start_byte
                             /\ c[k].end_byte = t[E(k)].end_byte
        /\ 1 \in 1 .. w /\ w \in 1 .. w /\ S(1) = 1 /\ E(w) = n
    <3> HIDE DEF First, End
    <3>1. ASSUME NEW k \in 1 .. w
          PROVE  S(k) \in 1 .. n /\ E(k) \in 1 .. n /\ S(k) <= E(k)
      BY <2>1, <2>3
    <3>2. 1 \in 1 .. w /\ w \in 1 .. w /\ S(1) = 1 /\ E(w) = n
      BY <2>2, <2>4
    <3> QED
      BY <1>5, <3>1, <3>2
  <2>6. \A i \in 1 .. n : t[1].start_byte <= t[i].start_byte /\ t[i].end_byte <= t[n].end_byte
    BY <1>1, <2>1, SMTT(30)
  <2>7. ASSUME NEW q \in 0 .. Len(bytes) - 1, IsWord(bytes, q)
        PROVE  \E k \in 1 .. w : c[k].start_byte <= q /\ q < c[k].end_byte
    <3>1. PICK i \in 1 .. n : t[i].start_byte <= q /\ q < t[i].end_byte
      BY <1>1, <2>7
    <3>2. i - 1 \in 0 .. n - 1
      BY <2>1
    <3>3. PICK k \in 0 .. w - 1 : First(k) <= i - 1 /\ i - 1 < End(k)
      BY <2>1, <3>2, WindowsCover DEF RefFirst, RefLast
    <3> DEFINE l == k + 1
    <3>4. l \in 1 .. w /\ l - 1 = k
      BY <1>2
    <3> HIDE DEF l, First, End
    <3>9. S(l) = First(k) + 1 /\ E(l) = End(k)
      BY <3>4
    <3> HIDE DEF S, E
    <3>10. S(l) \in 1 .. n /\ E(l) \in 1 .. n
      BY <2>5, <3>4
    <3>5. S(l) \in 1 .. n /\ E(l) \in 1 .. n /\ S(l) <= i /\ i <= E(l)
      <4> DEFINE a == S(l)
                 b == E(l)
                 x == First(k)
      <4>1. a = x + 1 /\ x <= i - 1 /\ i - 1 < b /\ a \in 1 .. n /\ b \in 1 .. n
        BY <3>3, <3>9, <3>10
      <4>2. x \in Int
        BY <1>2 DEF First
      <4> HIDE DEF a, b, x
      <4>3. a <= i /\ i <= b
        BY <2>1, <4>1, <4>2
      <4> QED
        BY <3>10, <4>3 DEF a, b
    <3>6. t[S(l)].start_byte <= t[i].start_byte /\ t[i].end_byte <= t[E(l)].end_byte
      <4> DEFINE a == S(l)
                 b == E(l)
      <4> HIDE DEF a, b
      <4>1. a \in 1 .. n /\ b \in 1 .. n /\ a <= i /\ i <= b
        BY <3>5 DEF a, b
      <4>2. a = i \/ a < i
        BY <4>1
      <4>3. b = i \/ i < b
        BY <4>1
      <4>4. t[a].start_byte <= t[i].start_byte
        BY <1>1, <4>1, <4>2
      <4>5. t[i].end_byte <= t[b].end_byte
        <5>1. CASE b = i
          BY <1>1, <5>1
        <5>2. CASE i < b
          <6>1. t[i].end_byte <= t[b].start_byte /\ t[b].start_byte < t[b].end_byte
            BY <1>1, <4>1, <5>2
          <6>2. /\ t[i].end_byte \in Nat /\ t[b].start_byte \in Nat /\ t[b].end_byte \in Nat
            BY <1>1, <4>1
          <6> QED
            BY <6>1, <6>2
        <5> QED
          BY <4>3, <5>1, <5>2
      <4> QED
        BY <4>4, <4>5 DEF a, b
    <3>7. c[l].start_byte = t[S(l)].start_byte /\ c[l].end_byte = t[E(l)].end_byte
      BY <2>5, <3>4
    <3>8. c[l].start_byte <= q /\ q < c[l].end_byte
      <4> DEFINE a == t[S(l)].start_byte
                 x == t[i].start_byte
                 y == t[i].end_byte
                 b == t[E(l)].end_byte
      <4>1. a \in Nat /\ b \in Nat
        BY <1>1, <3>10
      <4>2. x \in Nat /\ y \in Nat
        BY <1>1
      <4>3. c[l].start_byte = a /\ c[l].end_byte = b /\ a <= x /\ y <= b /\ x <= q /\ q < y
        BY <3>1, <3>6, <3>7
      <4> HIDE DEF a, b, x, y
      <4> QED
        BY <4>1, <4>2, <4>3
    <3> QED
      BY <3>4, <3>8
  <2>8. ASSUME NEW k \in 1 .. w
        PROVE  /\ c[k].start_byte \in Nat /\ c[k].end_byte \in Nat
               /\ c[1].start_byte <= c[k].start_byte
               /\ c[k].end_byte <= c[w].end_byte
               /\ c[k].end_byte <= Len(bytes)
    <3> HIDE DEF S, E
    <3> QED
      BY <1>1, <2>5, <2>6
  <2>9. ASSUME NEW k \in 1 .. w
        PROVE  c[k].start_byte <= c[k].end_byte
    <3> DEFINE a == S(k)
               b == E(k)
    <3>1. /\ a \in 1 .. n /\ b \in 1 .. n /\ a <= b
          /\ c[k].start_byte = t[a].start_byte /\ c[k].end_byte = t[b].end_byte
      BY <2>5
    <3> HIDE DEF a, b, S, E
    <3>2. a = b \/ a < b
      BY <3>1
    <3>3. /\ t[a].start_byte \in Nat /\ t[a].end_byte \in Nat
          /\ t[a].start_byte < t[a].end_byte
          /\ t[b].start_byte \in Nat /\ t[b].end_byte \in Nat
          /\ t[b].start_byte < t[b].end_byte
          /\ a < b => t[a].end_byte <= t[b].start_byte
      BY <1>1, <3>1
    <3>4. t[a].start_byte <= t[b].end_byte
      BY <3>2, <3>3
    <3> QED
      BY <3>1, <3>4
  <2> HIDE DEF w, n
  <2> QED
    BY <1>2, <1>3, <1>4, <2>7, <2>8, <2>9 DEF c
<1> QED
  BY <1>6, <1>7

-----------------------------------------------------------------------------
(* The inductive invariant.                                                 *)

Begin(given) == given.pieces[1].first_byte
End(given) == given.pieces[Len(given.pieces)].last_byte

(* The pieces of a batch lie between the beginning of its first and the end *)
(* of its last.                                                             *)
Compact(given) ==
  /\ Len(given.pieces) # 0
  /\ \A k \in 1 .. Len(given.pieces) :
       /\ given.pieces[k].first_byte <= given.pieces[k].last_byte
       /\ Begin(given) <= given.pieces[k].first_byte
       /\ given.pieces[k].last_byte <= End(given)

(* Batches follow each other up to a position, and hold every word byte     *)
(* before it but those that are missed.                                      *)
BatchesUpTo(position, list, stream, missed) ==
  /\ list \in Seq(Batch)
  /\ \A b \in 1 .. Len(list) : Compact(list[b]) /\ End(list[b]) <= position
  /\ \A a, b \in 1 .. Len(list) : a < b => End(list[a]) <= Begin(list[b])
  /\ \A p \in 0 .. position - 1 : IsWord(stream, p) /\ p \notin missed =>
       \E b \in 1 .. Len(list) : Covers(list[b], p)
  /\ \A p \in missed : \A b \in 1 .. Len(list) : ~ Covers(list[b], p)

ResidualIsTheRest ==
  /\ options \in Options
  /\ pushed \in Seq(Byte) /\ retired \in 0 .. Len(pushed)
  /\ residual_buffer = SubSeq(pushed, retired + 1, Len(pushed))
  /\ dropped \subseteq 0 .. retired - 1

ChunkerInv ==
  /\ ResidualIsTheRest
  /\ BatchesUpTo(retired, batches, pushed, dropped)
  /\ HeldBackIsShortOrBlank

-----------------------------------------------------------------------------
(* What a batch covers lies between its ends.                               *)
LEMMA BatchEnds ==
  ASSUME NEW given \in Batch, Compact(given)
  PROVE  /\ Begin(given) \in Nat /\ End(given) \in Nat
         /\ \A p \in Int : Covers(given, p) => Begin(given) <= p /\ p < End(given)
<1> DEFINE s == given.pieces
           n == Len(s)
<1>1. s \in Seq(Piece)
  BY DEF Batch
<1> HIDE DEF s
<1>2. n \in Nat \ {0}
  BY <1>1 DEF Compact, s
<1>3. \A k \in 1 .. n : s[k].first_byte \in Nat /\ s[k].last_byte \in Nat
  <2>1. \A k \in 1 .. n : s[k] \in Piece
    <3> HIDE DEF Piece
    <3> QED
      BY <1>1
  <2> QED
    BY <2>1 DEF Piece
<1>4. Begin(given) = s[1].first_byte /\ End(given) = s[n].last_byte
  BY DEF Begin, End, s
<1>5. Begin(given) \in Nat /\ End(given) \in Nat
  BY <1>2, <1>3, <1>4
<1>6. \A k \in 1 .. n : Begin(given) <= s[k].first_byte /\ s[k].last_byte <= End(given)
  BY DEF Compact, s
<1>7. ASSUME NEW p \in Int, NEW k \in 1 .. n, s[k].first_byte <= p, p < s[k].last_byte
      PROVE  Begin(given) <= p /\ p < End(given)
  BY <1>3, <1>5, <1>6, <1>7
<1> QED
  BY <1>5, <1>7 DEF Covers, s

(* The bytes behind a position.                                             *)
LEMMA RestOfStream ==
  ASSUME NEW stream \in Seq(Byte), NEW r \in 0 .. Len(stream)
  PROVE  LET rest == SubSeq(stream, r + 1, Len(stream)) IN
         /\ rest \in Seq(Byte) /\ Len(rest) = Len(stream) - r
         /\ \A k \in 1 .. Len(stream) - r : rest[k] = stream[r + k]
         /\ \A q \in 0 .. Len(stream) - r - 1 : IsWord(rest, q) <=> IsWord(stream, r + q)
<1> DEFINE n == Len(stream)
           rest == SubSeq(stream, r + 1, n)
<1>1. n \in Nat /\ r \in Nat /\ r <= n
  OBVIOUS
<1>2. rest \in Seq(Byte) /\ Len(rest) = n - r /\ \A k \in 1 .. n - r : rest[k] = stream[r + k]
  <2>1. r + 1 \in 1 .. n + 1 /\ n \in r .. n
    BY <1>1
  <2>2. /\ rest \in Seq(Byte)
        /\ Len(rest) = IF r + 1 <= n THEN n - (r + 1) + 1 ELSE 0
        /\ \A k \in 1 .. n - (r + 1) + 1 : rest[k] = stream[r + 1 + k - 1]
    BY <1>1, SubSeqProperties
  <2>3. n - (r + 1) + 1 = n - r /\ \A k \in 1 .. n - r : r + 1 + k - 1 = r + k
    BY <1>1
  <2>4. Len(rest) = n - r
    <3> DEFINE l == Len(rest)
    <3> HIDE DEF l, rest, n
    <3>1. l = IF r + 1 <= n THEN n - (r + 1) + 1 ELSE 0
      BY <2>2 DEF l
    <3>2. l = n - r
      BY <1>1, <3>1
    <3> QED
      BY <3>2 DEF l
  <2> QED
    BY <2>2, <2>3, <2>4, ZenonT(40)
<1>3. ASSUME NEW q \in 0 .. n - r - 1
      PROVE  IsWord(rest, q) <=> IsWord(stream, r + q)
  <2> DEFINE k == q + 1
  <2>1. k \in 1 .. n - r /\ r + k = r + q + 1 /\ r + q \in 0 .. n - 1
    BY <1>1
  <2> HIDE DEF k
  <2>2. rest[k] = stream[r + q + 1]
    BY <1>2, <2>1
  <2>3. q \in 0 .. Len(rest) - 1
    BY <1>2
  <2> HIDE DEF rest, n
  <2> QED
    BY <2>1, <2>2, <2>3 DEF IsWord, k, n
<1> QED
  BY <1>2, <1>3

(* A block that arrives goes behind the rest, and changes nothing before.   *)
LEMMA BlockArrives ==
  ASSUME NEW stream \in Seq(Byte), NEW r \in 0 .. Len(stream), NEW block \in Seq(Byte)
  PROVE  LET all == stream \o block IN
         /\ all \in Seq(Byte) /\ Len(all) = Len(stream) + Len(block)
         /\ SubSeq(all, r + 1, Len(all)) = SubSeq(stream, r + 1, Len(stream)) \o block
         /\ \A p \in 0 .. Len(stream) - 1 : IsWord(all, p) <=> IsWord(stream, p)
<1> DEFINE n == Len(stream)
           m == Len(block)
           all == stream \o block
           old == SubSeq(stream, r + 1, n)
           new == SubSeq(all, r + 1, n + m)
           both == old \o block
<1>1. n \in Nat /\ m \in Nat /\ r \in Nat /\ r <= n
  OBVIOUS
<1>2. /\ all \in Seq(Byte) /\ Len(all) = n + m
      /\ \A k \in 1 .. n + m : all[k] = IF k <= n THEN stream[k] ELSE block[k - n]
  BY ConcatProperties
<1>3. old \in Seq(Byte) /\ Len(old) = n - r /\ \A k \in 1 .. n - r : old[k] = stream[r + k]
  BY RestOfStream
<1>4. /\ new \in Seq(Byte) /\ Len(new) = n + m - r
      /\ \A k \in 1 .. n + m - r : new[k] = all[r + k]
  <2>1. r \in 0 .. Len(all)
    BY <1>1, <1>2
  <2> HIDE DEF all
  <2> QED
    BY <1>2, <2>1, RestOfStream
<1>5. /\ both \in Seq(Byte) /\ Len(both) = n - r + m
      /\ \A k \in 1 .. n - r + m : both[k] = IF k <= n - r THEN old[k] ELSE block[k - (n - r)]
  <2> HIDE DEF old, n
  <2>1. /\ both \in Seq(Byte) /\ Len(both) = Len(old) + m
        /\ \A k \in 1 .. Len(old) + m : both[k] = IF k <= Len(old) THEN old[k] ELSE block[k - Len(old)]
    BY <1>3, ConcatProperties
  <2> HIDE DEF both, m
  <2> QED
    BY <1>3, <2>1
<1> HIDE DEF all, old, new, both
<1>6. ASSUME NEW k \in 1 .. n + m - r
      PROVE  new[k] = both[k]
  <2> HIDE DEF n, m
  <2>1. r + k \in 1 .. n + m /\ k \in 1 .. n - r + m
    BY <1>1
  <2>2. CASE k <= n - r
    <3>1. r + k <= n /\ k \in 1 .. n - r
      BY <1>1, <2>2
    <3> QED
      BY <1>2, <1>3, <1>4, <1>5, <2>1, <2>2, <3>1
  <2>3. CASE ~ (k <= n - r)
    <3> DEFINE x == r + k
               y == k - (n - r)
    <3>1. x \in 1 .. n + m /\ ~ (x <= n) /\ x - n = y
      BY <1>1, <2>1, <2>3
    <3>2. new[k] = all[x]
      BY <1>4
    <3>3. both[k] = block[y]
      BY <1>5, <2>1, <2>3
    <3> HIDE DEF x, y
    <3>4. all[x] = block[y]
      <4>1. all[x] = block[x - n]
        BY <1>2, <3>1
      <4> QED
        BY <3>1, <4>1
    <3> QED
      BY <3>2, <3>3, <3>4
  <2> QED
    BY <2>2, <2>3
<1>7. new = both
  <2>1. Len(new) = Len(both) /\ \A k \in 1 .. Len(new) : new[k] = both[k]
    BY <1>1, <1>4, <1>5, <1>6
  <2> QED
    BY <1>4, <1>5, <2>1, SeqEqual
<1>8. ASSUME NEW p \in 0 .. n - 1
      PROVE  IsWord(all, p) <=> IsWord(stream, p)
  <2>1. p \in 0 .. Len(all) - 1 /\ p + 1 \in 1 .. n + m /\ p + 1 <= n
    BY <1>1, <1>2
  <2>2. all[p + 1] = stream[p + 1]
    BY <1>2, <2>1
  <2> QED
    BY <2>1, <2>2 DEF IsWord
<1> QED
  BY <1>2, <1>7, <1>8 DEF all, old, new, both

(* What was true of the batches stays true when the stream only grows.      *)
LEMMA BatchesKept ==
  ASSUME NEW r, NEW list, NEW stream, NEW missed, NEW stream2,
         BatchesUpTo(r, list, stream, missed),
         \A p \in 0 .. r - 1 : IsWord(stream2, p) <=> IsWord(stream, p)
  PROVE  BatchesUpTo(r, list, stream2, missed)
BY DEF BatchesUpTo

(* The batch a call makes of the chunks of the rest.                        *)
BatchOf(by, chunks, r) ==
  [by |-> by,
   pieces |-> [k \in 1 .. Len(chunks) |-> [first_byte |-> r + chunks[k].start_byte,
                                           last_byte  |-> r + chunks[k].end_byte]]]

(* A call that succeeds adds its batch behind the others, and with it every *)
(* word byte of the rest is covered.                                        *)
LEMMA BatchAdded ==
  ASSUME options \in Option, ValidOption(options),
         NEW stream \in Seq(Byte), NEW r \in 0 .. Len(stream), NEW list, NEW missed,
         missed \subseteq 0 .. r - 1, BatchesUpTo(r, list, stream, missed),
         NEW by \in {"push", "flush"}, NEW position \in r .. Len(stream),
         NEW bytes, bytes = SubSeq(stream, r + 1, Len(stream)),
         NEW chunks, chunks = Chunks(bytes),
         chunks # <<>> => r + chunks[Len(chunks)].end_byte <= position
  PROVE  BatchesUpTo(position,
                     IF chunks = <<>> THEN list ELSE Append(list, BatchOf(by, chunks, r)),
                     stream, missed)
<1> DEFINE n == Len(stream)
           m == Len(list)
           c == Len(chunks)
<1>1. n \in Nat /\ r \in Nat /\ r <= n /\ position \in Nat /\ r <= position /\ position <= n
  OBVIOUS
<1>2. /\ bytes \in Seq(Byte) /\ Len(bytes) = n - r
      /\ \A q \in 0 .. n - r - 1 : IsWord(bytes, q) <=> IsWord(stream, r + q)
  BY RestOfStream
<1>3. /\ c \in Nat /\ (chunks = <<>> <=> c = 0)
      /\ \A k \in 1 .. c :
           /\ chunks[k].start_byte \in Nat /\ chunks[k].end_byte \in Nat
           /\ chunks[k].start_byte <= chunks[k].end_byte
           /\ chunks[1].start_byte <= chunks[k].start_byte
           /\ chunks[k].end_byte <= chunks[c].end_byte
      /\ \A q \in 0 .. Len(bytes) - 1 : IsWord(bytes, q) =>
           \E k \in 1 .. c : chunks[k].start_byte <= q /\ q < chunks[k].end_byte
  BY <1>2, ChunksCoverWords
<1>4. /\ list \in Seq(Batch) /\ m \in Nat
      /\ \A b \in 1 .. m : list[b] \in Batch /\ Compact(list[b]) /\ End(list[b]) <= r
      /\ \A a, b \in 1 .. m : a < b => End(list[a]) <= Begin(list[b])
      /\ \A p \in 0 .. r - 1 : IsWord(stream, p) /\ p \notin missed =>
           \E b \in 1 .. m : Covers(list[b], p)
      /\ \A p \in missed : \A b \in 1 .. m : ~ Covers(list[b], p)
  <2>1. list \in Seq(Batch)
    BY DEF BatchesUpTo
  <2>2. m \in Nat /\ \A b \in 1 .. m : list[b] \in Batch
    <3> HIDE DEF m
    <3>1. m \in Nat /\ list \in [1 .. m -> Batch]
      BY <2>1, LenProperties DEF m
    <3> QED
      BY <3>1
  <2> QED
    BY <2>1, <2>2 DEF BatchesUpTo
<1>5. ASSUME NEW p \in r .. position - 1, IsWord(stream, p)
      PROVE  \E k \in 1 .. c : r + chunks[k].start_byte <= p /\ p < r + chunks[k].end_byte
  <2> DEFINE q == p - r
  <2>1. q \in 0 .. n - r - 1 /\ r + q = p /\ q \in Int
    BY <1>1
  <2> HIDE DEF q
  <2>2. IsWord(bytes, q) /\ q \in 0 .. Len(bytes) - 1
    BY <1>2, <1>5, <2>1
  <2>3. PICK k \in 1 .. c : chunks[k].start_byte <= q /\ q < chunks[k].end_byte
    BY <1>3, <2>2
  <2>4. r + chunks[k].start_byte <= p /\ p < r + chunks[k].end_byte
    <3> DEFINE x == chunks[k].start_byte
               y == chunks[k].end_byte
    <3>1. x \in Nat /\ y \in Nat /\ x <= q /\ q < y
      BY <1>3, <2>3
    <3> HIDE DEF x, y
    <3>2. r + x <= p /\ p < r + y
      BY <1>1, <2>1, <3>1
    <3> QED
      BY <3>2 DEF x, y
  <2> QED
    BY <2>4
<1>6. CASE chunks = <<>>
  <2>1. c = 0
    BY <1>3, <1>6
  <2>2. \A b \in 1 .. m : End(list[b]) <= position
    <3> SUFFICES ASSUME NEW b \in 1 .. m PROVE End(list[b]) <= position
      OBVIOUS
    <3>1. End(list[b]) \in Nat /\ End(list[b]) <= r
      BY <1>4, BatchEnds
    <3> QED
      BY <1>1, <3>1
  <2>3. ASSUME NEW p \in 0 .. position - 1, IsWord(stream, p), p \notin missed
        PROVE  \E b \in 1 .. m : Covers(list[b], p)
    <3>1. p \in 0 .. r - 1 \/ p \in r .. position - 1
      BY <1>1
    <3> HIDE DEF c
    <3> QED
      BY <1>4, <1>5, <2>1, <2>3, <3>1
  <2>4. BatchesUpTo(position, list, stream, missed)
    BY <1>4, <2>2, <2>3 DEF BatchesUpTo
  <2> QED
    BY <1>6, <2>4
<1>7. CASE chunks # <<>>
  <2> DEFINE new == BatchOf(by, chunks, r)
             s == new.pieces
             all == Append(list, new)
             last == chunks[c].end_byte
  <2>1. c \in Nat \ {0}
    BY <1>3, <1>7
  <2>2. /\ s = [k \in 1 .. c |-> [first_byte |-> r + chunks[k].start_byte,
                                  last_byte  |-> r + chunks[k].end_byte]]
        /\ new = [by |-> by, pieces |-> s]
    BY DEF BatchOf
  <2> HIDE DEF new, s
  <2>3. ASSUME NEW k \in 1 .. c
        PROVE  /\ s[k] \in Piece
               /\ s[k].first_byte = r + chunks[k].start_byte
               /\ s[k].last_byte = r + chunks[k].end_byte
               /\ s[k].first_byte \in Nat /\ s[k].last_byte \in Nat
    <3> DEFINE x == r + chunks[k].start_byte
               y == r + chunks[k].end_byte
    <3>1. x \in Nat /\ y \in Nat
      BY <1>1, <1>3
    <3>2. s[k] = [first_byte |-> x, last_byte |-> y]
      BY <2>2
    <3> HIDE DEF x, y
    <3>3. s[k] \in Piece /\ s[k].first_byte = x /\ s[k].last_byte = y
      BY <3>1, <3>2 DEF Piece
    <3> QED
      BY <3>1, <3>3 DEF x, y
  <2>4. s \in Seq(Piece) /\ Len(s) = c
    <3>1. DOMAIN s = 1 .. c /\ s = [k \in 1 .. c |-> s[k]]
      BY <2>2
    <3>2. s \in [1 .. c -> Piece]
      <4> HIDE DEF c
      <4> QED
        BY <2>3, <3>1
    <3> HIDE DEF c
    <3>3. s \in Seq(Piece)
      BY <2>1, <3>2, SeqDef
    <3> QED
      BY <2>1, <3>1, <3>3, LenProperties
  <2>5. new \in Batch
    BY <2>2, <2>4 DEF Batch
  <2>6. new.pieces = s
    BY <2>2
  <2>7. Begin(new) = r + chunks[1].start_byte /\ End(new) = r + last
    <3>1. 1 \in 1 .. c /\ c \in 1 .. c
      BY <2>1
    <3> HIDE DEF c
    <3> QED
      BY <2>3, <2>4, <2>6, <3>1 DEF Begin, End
  <2>8. r <= Begin(new) /\ End(new) <= position
    <3>1. 1 \in 1 .. c
      BY <2>1
    <3>2. chunks[1].start_byte \in Nat
      <4> HIDE DEF c
      <4> QED
        BY <1>3, <3>1
    <3> QED
      BY <1>1, <1>7, <2>7, <3>2
  <2>9. Compact(new)
    <3>1. ASSUME NEW k \in 1 .. c
          PROVE  /\ s[k].first_byte <= s[k].last_byte
                 /\ Begin(new) <= s[k].first_byte /\ s[k].last_byte <= End(new)
      <4> DEFINE x1 == chunks[1].start_byte
                 x == chunks[k].start_byte
                 y == chunks[k].end_byte
      <4>1. /\ x1 \in Nat /\ x \in Nat /\ y \in Nat /\ last \in Nat
            /\ x1 <= x /\ y <= last /\ x <= y
        <5>1. 1 \in 1 .. c /\ c \in 1 .. c
          BY <2>1
        <5> HIDE DEF c
        <5> QED
          BY <1>3, <5>1 DEF c
      <4>2. /\ s[k].first_byte = r + x /\ s[k].last_byte = r + y
            /\ Begin(new) = r + x1 /\ End(new) = r + last
        BY <2>3, <2>7
      <4> HIDE DEF x1, x, y, last
      <4> QED
        BY <1>1, <4>1, <4>2
    <3> QED
      BY <2>1, <2>4, <2>6, <3>1 DEF Compact
  <2> HIDE DEF c, m
  <2>10. /\ all \in Seq(Batch) /\ Len(all) = m + 1 /\ all[m + 1] = new
         /\ \A b \in 1 .. m : all[b] = list[b]
    BY <1>4, <2>5 DEF m
  <2> HIDE DEF all
  <2>11. ASSUME NEW b \in 1 .. Len(all)
         PROVE  Compact(all[b]) /\ End(all[b]) <= position
    <3>1. CASE b = m + 1
      BY <2>8, <2>9, <2>10, <3>1
    <3>2. CASE b # m + 1
      <4>1. b \in 1 .. m
        BY <1>4, <2>10, <3>2
      <4>2. End(list[b]) \in Nat /\ End(list[b]) <= r
        BY <1>4, <4>1, BatchEnds
      <4> QED
        BY <1>1, <1>4, <2>10, <4>1, <4>2
    <3> QED
      BY <3>1, <3>2
  <2>12. ASSUME NEW a \in 1 .. Len(all), NEW b \in 1 .. Len(all), a < b
         PROVE  End(all[a]) <= Begin(all[b])
    <3>1. a \in 1 .. m
      BY <1>4, <2>10, <2>12
    <3>2. CASE b = m + 1
      <4>1. End(list[a]) \in Nat /\ End(list[a]) <= r /\ Begin(new) \in Nat
        BY <1>4, <2>5, <2>9, <3>1, BatchEnds
      <4>2. End(list[a]) <= Begin(new)
        BY <1>1, <2>8, <4>1
      <4> QED
        BY <2>10, <3>1, <3>2, <4>2
    <3>3. CASE b # m + 1
      <4>1. b \in 1 .. m
        BY <1>4, <2>10, <3>3
      <4> QED
        BY <1>4, <2>10, <2>12, <3>1, <4>1
    <3> QED
      BY <3>2, <3>3
  <2>13. ASSUME NEW p \in 0 .. position - 1, IsWord(stream, p), p \notin missed
         PROVE  \E b \in 1 .. Len(all) : Covers(all[b], p)
    <3>1. CASE p \in 0 .. r - 1
      <4>1. PICK b \in 1 .. m : Covers(list[b], p)
        BY <1>4, <2>13, <3>1
      <4>2. b \in 1 .. Len(all) /\ all[b] = list[b]
        BY <1>4, <2>10
      <4> QED
        BY <4>1, <4>2
    <3>2. CASE p \in r .. position - 1
      <4>1. PICK k \in 1 .. c : r + chunks[k].start_byte <= p /\ p < r + chunks[k].end_byte
        BY <1>5, <2>13, <3>2
      <4>2. Covers(new, p)
        BY <2>3, <2>4, <2>6, <4>1 DEF Covers
      <4>3. m + 1 \in 1 .. Len(all)
        BY <1>4, <2>10
      <4> QED
        BY <2>10, <4>2, <4>3
    <3> QED
      BY <1>1, <3>1, <3>2
  <2>14. ASSUME NEW p \in missed, NEW b \in 1 .. Len(all)
         PROVE  ~ Covers(all[b], p)
    <3>1. p \in Int /\ p < r
      BY <1>1
    <3>2. CASE b = m + 1
      <4>1. Begin(new) \in Nat /\ (Covers(new, p) => Begin(new) <= p)
        BY <2>5, <2>9, <3>1, BatchEnds
      <4> QED
        BY <1>1, <2>8, <2>10, <3>1, <3>2, <4>1
    <3>3. CASE b # m + 1
      <4>1. b \in 1 .. m
        BY <1>4, <2>10, <3>3
      <4> QED
        BY <1>4, <2>10, <4>1
    <3> QED
      BY <3>2, <3>3
  <2>15. BatchesUpTo(position, all, stream, missed)
    BY <2>10, <2>11, <2>12, <2>13, <2>14 DEF BatchesUpTo
  <2> QED
    BY <1>7, <2>15 DEF all, new
<1> QED
  BY <1>6, <1>7

(* The rest of the rest is the rest behind a later position.                *)
LEMMA RestOfRest ==
  ASSUME NEW stream \in Seq(Byte), NEW r \in 0 .. Len(stream),
         NEW bytes, bytes = SubSeq(stream, r + 1, Len(stream)),
         NEW gone \in 0 .. Len(stream) - r
  PROVE  SubSeq(bytes, gone + 1, Len(bytes)) = SubSeq(stream, r + gone + 1, Len(stream))
<1> DEFINE n == Len(stream)
           s == r + gone
           one == SubSeq(bytes, gone + 1, Len(bytes))
           two == SubSeq(stream, s + 1, n)
<1>1. n \in Nat /\ r \in Nat /\ gone \in Nat /\ s \in 0 .. n
  OBVIOUS
<1>2. /\ bytes \in Seq(Byte) /\ Len(bytes) = n - r
      /\ \A k \in 1 .. n - r : bytes[k] = stream[r + k]
  BY RestOfStream
<1>3. /\ two \in Seq(Byte) /\ Len(two) = n - s
      /\ \A k \in 1 .. n - s : two[k] = stream[s + k]
  <2> HIDE DEF s
  <2> QED
    BY <1>1, RestOfStream
<1>4. /\ one \in Seq(Byte) /\ Len(one) = Len(bytes) - gone
      /\ \A k \in 1 .. Len(bytes) - gone : one[k] = bytes[gone + k]
  <2>1. gone \in 0 .. Len(bytes)
    BY <1>1, <1>2
  <2> QED
    BY <1>2, <2>1, RestOfStream
<1>5. n - s = Len(bytes) - gone
  BY <1>1, <1>2
<1>6. ASSUME NEW k \in 1 .. n - s
      PROVE  one[k] = two[k]
  <2> DEFINE x == gone + k
             y == s + k
  <2>1. x \in 1 .. n - r /\ r + x = y
    BY <1>1
  <2>2. one[k] = bytes[x] /\ two[k] = stream[y]
    BY <1>3, <1>4, <1>5
  <2> HIDE DEF x, y
  <2>3. bytes[x] = stream[r + x]
    BY <1>2, <2>1
  <2> QED
    BY <2>1, <2>2, <2>3
<1> HIDE DEF one, two, s, n
<1>7. Len(one) = Len(two) /\ \A k \in 1 .. Len(one) : one[k] = two[k]
  BY <1>3, <1>4, <1>5, <1>6
<1>8. one = two
  BY <1>3, <1>4, <1>7, SeqEqual
<1> QED
  BY <1>8 DEF one, two, s, n

(* There is nothing behind the end.                                         *)
LEMMA NothingBehindTheEnd ==
  ASSUME NEW stream \in Seq(Byte)
  PROVE  SubSeq(stream, Len(stream) + 1, Len(stream)) = <<>>
<1> DEFINE n == Len(stream)
           rest == SubSeq(stream, n + 1, n)
<1>1. n \in 0 .. n /\ n - n = 0
  OBVIOUS
<1>2. rest \in Seq(Byte) /\ Len(rest) = n - n
  <2> HIDE DEF n
  <2> QED
    BY <1>1, RestOfStream DEF n
<1> HIDE DEF rest
<1>3. rest = <<>>
  BY <1>1, <1>2
<1> QED
  BY <1>3 DEF rest

(* Nothing has been pushed and nothing returned.                            *)
LEMMA ChunkerInitially == ChunkerInit => ChunkerInv
<1> SUFFICES ASSUME ChunkerInit PROVE ChunkerInv
  OBVIOUS
<1>1. <<>> \in Seq(Byte) /\ Len(<<>>) = 0
  OBVIOUS
<1>2. ResidualIsTheRest
  <2>1. SubSeq(<<>>, 0 + 1, 0) = <<>>
    BY <1>1, NothingBehindTheEnd
  <2> QED
    BY <1>1, <2>1 DEF ChunkerInit, ResidualIsTheRest
<1>3. BatchesUpTo(0, <<>>, pushed, {})
  BY DEF BatchesUpTo
<1>4. HeldBackIsShortOrBlank
  BY DEF ChunkerInit, HeldBackIsShortOrBlank
<1> QED
  BY <1>2, <1>3, <1>4 DEF ChunkerInit, ChunkerInv

(* A push that only takes its block keeps the rest and the batches.         *)
LEMMA BlockKept ==
  ASSUME ResidualIsTheRest, BatchesUpTo(retired, batches, pushed, dropped),
         NEW block \in Blocks,
         residual_buffer' = residual_buffer \o block, pushed' = pushed \o block,
         UNCHANGED <<options, retired, dropped, batches>>
  PROVE  ResidualIsTheRest' /\ BatchesUpTo(retired, batches, pushed, dropped)'
<1>1. pushed \in Seq(Byte) /\ retired \in 0 .. Len(pushed) /\ block \in Seq(Byte)
  BY BlockAssumption DEF ResidualIsTheRest
<1>2. /\ pushed' \in Seq(Byte) /\ Len(pushed') = Len(pushed) + Len(block)
      /\ SubSeq(pushed', retired + 1, Len(pushed')) = residual_buffer'
      /\ \A p \in 0 .. Len(pushed) - 1 : IsWord(pushed', p) <=> IsWord(pushed, p)
  BY <1>1, BlockArrives DEF ResidualIsTheRest
<1>3. retired \in 0 .. Len(pushed')
  BY <1>1, <1>2
<1>4. ResidualIsTheRest'
  BY <1>2, <1>3 DEF ResidualIsTheRest
<1>5. \A p \in 0 .. retired - 1 : IsWord(pushed', p) <=> IsWord(pushed, p)
  <2>1. \A p \in 0 .. retired - 1 : p \in 0 .. Len(pushed) - 1
    BY <1>1
  <2> QED
    BY <1>2, <2>1
<1>6. BatchesUpTo(retired, batches, pushed', dropped)
  BY <1>5, BatchesKept
<1> QED
  BY <1>4, <1>6

(* A push that waits holds fewer bytes than max_tokens.                     *)
LEMMA PushWaitsKeeps ==
  ASSUME ChunkerInv, NEW block \in Blocks, PushWaits(block)
  PROVE  ChunkerInv'
<1>1. ResidualIsTheRest' /\ BatchesUpTo(retired, batches, pushed, dropped)'
  BY BlockKept DEF ChunkerInv, PushWaits
<1>2. HeldBackIsShortOrBlank'
  BY DEF PushWaits, MustWait, HeldBackIsShortOrBlank
<1> QED
  BY <1>1, <1>2 DEF ChunkerInv

(* A push that fails keeps its block for the next call.                     *)
LEMMA PushFailsKeeps ==
  ASSUME ChunkerInv, NEW block \in Blocks, PushFails(block)
  PROVE  ChunkerInv'
<1>1. ResidualIsTheRest' /\ BatchesUpTo(retired, batches, pushed, dropped)'
  BY BlockKept DEF ChunkerInv, PushFails
<1>2. HeldBackIsShortOrBlank'
  BY DEF PushFails, ChunkBufferError, HeldBackIsShortOrBlank
<1> QED
  BY <1>1, <1>2 DEF ChunkerInv

(* No word stays behind a chunked push: the chunks hold every word, and     *)
(* what they hold is gone.                                                  *)
LEMMA PushChunksKeeps ==
  ASSUME ChunkerInv, NEW block \in Blocks, PushChunks(block)
  PROVE  ChunkerInv'
<1> DEFINE bytes == residual_buffer \o block
           chunks == Chunks(bytes)
           c == Len(chunks)
           gone == IF chunks = <<>> THEN 0 ELSE RetiredBy(chunks)
           n == Len(pushed')
           position == retired + gone
<1>1. /\ pushed \in Seq(Byte) /\ retired \in 0 .. Len(pushed) /\ block \in Seq(Byte)
      /\ dropped \subseteq 0 .. retired - 1 /\ options \in Options
      /\ residual_buffer = SubSeq(pushed, retired + 1, Len(pushed))
      /\ options \in Option /\ ValidOption(options)
  BY BlockAssumption, OptionAssumption DEF ChunkerInv, ResidualIsTheRest, PushChunks
<1>2. /\ batches' = Returned("push", chunks)
      /\ residual_buffer' = SubSeq(bytes, gone + 1, Len(bytes))
      /\ retired' = position
      /\ pushed' = pushed \o block
      /\ UNCHANGED <<options, dropped>>
  BY DEF PushChunks
<1>3. /\ pushed' \in Seq(Byte) /\ n \in Nat
      /\ bytes = SubSeq(pushed', retired + 1, n)
      /\ retired \in 0 .. n
      /\ \A p \in 0 .. Len(pushed) - 1 : IsWord(pushed', p) <=> IsWord(pushed, p)
  <2>1. /\ pushed' \in Seq(Byte) /\ n = Len(pushed) + Len(block)
        /\ bytes = SubSeq(pushed', retired + 1, n)
        /\ \A p \in 0 .. Len(pushed) - 1 : IsWord(pushed', p) <=> IsWord(pushed, p)
    BY <1>1, <1>2, BlockArrives
  <2>2. Len(pushed) \in Nat /\ Len(block) \in Nat
    BY <1>1
  <2> HIDE DEF n, bytes
  <2> QED
    BY <1>1, <2>1, <2>2
<1>4. bytes \in Seq(Byte) /\ Len(bytes) = n - retired
  <2> HIDE DEF bytes
  <2> QED
    BY <1>3, RestOfStream
<1> HIDE DEF bytes, n
<1>5. /\ c \in Nat /\ (chunks = <<>> <=> c = 0)
      /\ \A k \in 1 .. c : /\ chunks[k].end_byte \in Nat
                           /\ chunks[k].end_byte <= chunks[c].end_byte
                           /\ chunks[k].end_byte <= Len(bytes)
      /\ \A q \in 0 .. Len(bytes) - 1 : IsWord(bytes, q) =>
           \E k \in 1 .. c : chunks[k].start_byte <= q /\ q < chunks[k].end_byte
  BY <1>1, <1>4, ChunksCoverWords
<1> HIDE DEF chunks
<1>6. gone \in 0 .. n - retired /\ (chunks # <<>> => gone = chunks[c].end_byte)
  <2>1. CASE chunks = <<>>
    BY <1>3, <2>1
  <2>2. CASE chunks # <<>>
    <3>1. c \in 1 .. c
      BY <1>5, <2>2
    <3> HIDE DEF c
    <3> QED
      BY <1>3, <1>4, <1>5, <2>2, <3>1 DEF RetiredBy, c
  <2> QED
    BY <2>1, <2>2
<1>7. position \in 0 .. n /\ position \in retired .. n
  <2> HIDE DEF gone
  <2> QED
    BY <1>3, <1>6
<1>8. ResidualIsTheRest'
  <2>1. residual_buffer' = SubSeq(pushed', position + 1, n)
    <3> HIDE DEF gone
    <3>1. /\ retired \in 0 .. Len(pushed') /\ gone \in 0 .. Len(pushed') - retired
          /\ bytes = SubSeq(pushed', retired + 1, Len(pushed'))
      BY <1>3, <1>6 DEF n
    <3>2. SubSeq(bytes, gone + 1, Len(bytes))
            = SubSeq(pushed', retired + gone + 1, Len(pushed'))
      BY <1>3, <3>1, RestOfRest
    <3> QED
      BY <1>2, <3>2 DEF n
  <2>2. dropped \subseteq 0 .. position - 1
    <3> HIDE DEF position
    <3> QED
      BY <1>1, <1>3, <1>7
  <2> HIDE DEF position
  <2> QED
    BY <1>1, <1>2, <1>3, <1>7, <2>1, <2>2 DEF ResidualIsTheRest, n
<1>9. BatchesUpTo(retired, batches, pushed, dropped)'
  <2>1. \A p \in 0 .. retired - 1 : IsWord(pushed', p) <=> IsWord(pushed, p)
    <3>1. \A p \in 0 .. retired - 1 : p \in 0 .. Len(pushed) - 1
      BY <1>1
    <3> QED
      BY <1>3, <3>1
  <2>2. BatchesUpTo(retired, batches, pushed', dropped)
    BY <2>1, BatchesKept DEF ChunkerInv
  <2>3. chunks # <<>> => retired + chunks[Len(chunks)].end_byte <= position
    <3>1. ASSUME chunks # <<>>
          PROVE  retired + chunks[Len(chunks)].end_byte = position
      BY <1>6, <3>1
    <3> HIDE DEF position
    <3> QED
      BY <1>7, <3>1
  <2>4. batches' = IF chunks = <<>> THEN batches
                   ELSE Append(batches, BatchOf("push", chunks, retired))
    BY <1>2 DEF Returned, BatchOf
  <2>5. BatchesUpTo(position, IF chunks = <<>> THEN batches
                              ELSE Append(batches, BatchOf("push", chunks, retired)),
                    pushed', dropped)
    <3> HIDE DEF position
    <3> QED
      BY <1>1, <1>3, <1>7, <2>2, <2>3, BatchAdded DEF n, chunks
  <2> QED
    BY <1>2, <2>4, <2>5
<1>10. HeldBackIsShortOrBlank'
  <2> DEFINE rest == residual_buffer'
  <2>1. /\ Len(rest) = Len(bytes) - gone
        /\ \A q \in 0 .. Len(bytes) - gone - 1 : IsWord(rest, q) <=> IsWord(bytes, gone + q)
    <3>1. gone \in 0 .. Len(bytes)
      BY <1>4, <1>6
    <3> HIDE DEF gone
    <3> QED
      BY <1>2, <1>4, <3>1, RestOfStream
  <2>2. ASSUME NEW p \in 0 .. Len(rest) - 1, IsWord(rest, p)
        PROVE  FALSE
    <3> DEFINE q == gone + p
    <3>1. p \in 0 .. Len(bytes) - gone - 1
      BY <2>1
    <3>2. q \in 0 .. Len(bytes) - 1 /\ IsWord(bytes, q) /\ gone <= q
      <4> HIDE DEF gone
      <4>1. IsWord(bytes, gone + p)
        BY <2>1, <2>2, <3>1
      <4> QED
        BY <1>3, <1>4, <1>6, <3>1, <4>1
    <3> HIDE DEF q
    <3>3. PICK k \in 1 .. c : chunks[k].start_byte <= q /\ q < chunks[k].end_byte
      BY <1>5, <3>2
    <3>4. chunks # <<>> /\ chunks[k].end_byte <= gone
      <4>1. c # 0
        <5> HIDE DEF c
        <5> QED
          BY <3>3
      <4> HIDE DEF gone, c
      <4> QED
        BY <1>5, <1>6, <4>1
    <3>5. chunks[k].end_byte \in Nat
      BY <1>5
    <3> HIDE DEF gone
    <3> QED
      BY <1>3, <1>6, <3>2, <3>3, <3>4, <3>5
  <2> QED
    BY <2>2 DEF HeldBackIsShortOrBlank
<1> QED
  BY <1>8, <1>9, <1>10 DEF ChunkerInv

(* flush returns a chunk for every word that is left.                       *)
LEMMA FlushChunksKeeps ==
  ASSUME ChunkerInv, FlushChunks
  PROVE  ChunkerInv'
<1> DEFINE n == Len(pushed)
           chunks == Chunks(residual_buffer)
<1>1. /\ pushed \in Seq(Byte) /\ retired \in 0 .. n /\ n \in Nat
      /\ dropped \subseteq 0 .. retired - 1 /\ options \in Options
      /\ residual_buffer = SubSeq(pushed, retired + 1, n)
      /\ options \in Option /\ ValidOption(options)
      /\ BatchesUpTo(retired, batches, pushed, dropped)
  BY OptionAssumption DEF ChunkerInv, ResidualIsTheRest, FlushChunks
<1>2. /\ batches' = Returned("flush", chunks)
      /\ residual_buffer' = <<>>
      /\ retired' = n
      /\ UNCHANGED <<options, pushed, dropped>>
  BY DEF FlushChunks
<1>3. ResidualIsTheRest'
  <2>1. SubSeq(pushed, n + 1, n) = <<>>
    BY <1>1, NothingBehindTheEnd
  <2>2. n \in 0 .. n /\ dropped \subseteq 0 .. n - 1
    <3> HIDE DEF n
    <3> QED
      BY <1>1
  <2> QED
    BY <1>1, <1>2, <2>1, <2>2 DEF ResidualIsTheRest
<1>4. BatchesUpTo(retired, batches, pushed, dropped)'
  <2>1. residual_buffer \in Seq(Byte) /\ Len(residual_buffer) = n - retired
    BY <1>1, RestOfStream
  <2>2. chunks # <<>> => retired + chunks[Len(chunks)].end_byte <= n
    <3> DEFINE c == Len(chunks)
               e == chunks[c].end_byte
    <3>1. /\ c \in Nat /\ (chunks = <<>> <=> c = 0)
          /\ \A k \in 1 .. c : /\ chunks[k].end_byte \in Nat
                               /\ chunks[k].end_byte <= Len(residual_buffer)
      BY <1>1, <2>1, ChunksCoverWords
    <3>2. ASSUME chunks # <<>>
          PROVE  retired + e <= n
      <4>1. c \in 1 .. c
        BY <3>1, <3>2
      <4>2. e \in Nat /\ e <= n - retired
        BY <2>1, <3>1, <4>1
      <4> HIDE DEF e, n
      <4> QED
        BY <1>1, <4>2
    <3> QED
      BY <3>2
  <2>3. n \in retired .. n
    <3> HIDE DEF n
    <3> QED
      BY <1>1
  <2>4. batches' = IF chunks = <<>> THEN batches
                   ELSE Append(batches, BatchOf("flush", chunks, retired))
    BY <1>2 DEF Returned, BatchOf
  <2>5. BatchesUpTo(n, IF chunks = <<>> THEN batches
                       ELSE Append(batches, BatchOf("flush", chunks, retired)),
                    pushed, dropped)
    BY <1>1, <2>2, <2>3, BatchAdded
  <2> QED
    BY <1>2, <2>4, <2>5
<1>5. HeldBackIsShortOrBlank'
  <2>1. 0 < options'.max_tokens
    BY <1>1, <1>2 DEF Option, SizeT, ValidOption
  <2> QED
    BY <1>2, <2>1 DEF HeldBackIsShortOrBlank
<1> QED
  BY <1>3, <1>4, <1>5 DEF ChunkerInv

(* What a failed flush drops no batch holds: they all end before it.        *)
LEMMA FlushFailsKeeps ==
  ASSUME ChunkerInv, FlushFails
  PROVE  ChunkerInv'
<1> DEFINE n == Len(pushed)
           missed == dropped \cup retired .. n - 1
<1>1. /\ pushed \in Seq(Byte) /\ retired \in 0 .. n /\ n \in Nat /\ retired \in Nat
      /\ retired <= n
      /\ dropped \subseteq 0 .. retired - 1 /\ options \in Options
  BY DEF ChunkerInv, ResidualIsTheRest
<1>2. /\ residual_buffer' = <<>> /\ retired' = n /\ dropped' = missed
      /\ UNCHANGED <<options, pushed, batches>>
  BY DEF FlushFails
<1>3. ResidualIsTheRest'
  <2>1. SubSeq(pushed, n + 1, n) = <<>>
    BY <1>1, NothingBehindTheEnd
  <2>2. n \in 0 .. n /\ missed \subseteq 0 .. n - 1
    <3> HIDE DEF n
    <3> QED
      BY <1>1
  <2> QED
    BY <1>1, <1>2, <2>1, <2>2 DEF ResidualIsTheRest
<1>4. BatchesUpTo(n, batches, pushed, missed)
  <2> DEFINE m == Len(batches)
  <2>1. /\ batches \in Seq(Batch)
        /\ \A b \in 1 .. m : Compact(batches[b]) /\ End(batches[b]) <= retired
        /\ \A a, b \in 1 .. m : a < b => End(batches[a]) <= Begin(batches[b])
        /\ \A p \in 0 .. retired - 1 : IsWord(pushed, p) /\ p \notin dropped =>
             \E b \in 1 .. m : Covers(batches[b], p)
        /\ \A p \in dropped : \A b \in 1 .. m : ~ Covers(batches[b], p)
    BY DEF ChunkerInv, BatchesUpTo
  <2>2. ASSUME NEW b \in 1 .. m
        PROVE  /\ End(batches[b]) \in Nat
               /\ \A p \in Int : Covers(batches[b], p) => p < End(batches[b])
    <3>1. batches[b] \in Batch
      <4>1. batches \in [1 .. m -> Batch]
        BY <2>1, LenProperties
      <4> HIDE DEF m
      <4> QED
        BY <4>1
    <3> QED
      BY <2>1, <3>1, BatchEnds
  <2> HIDE DEF n, m
  <2>3. \A b \in 1 .. m : End(batches[b]) <= n
    BY <1>1, <2>1, <2>2
  <2>4. ASSUME NEW p \in retired .. n - 1, NEW b \in 1 .. m
        PROVE  ~ Covers(batches[b], p)
    BY <1>1, <2>1, <2>2
  <2>5. \A p \in 0 .. n - 1 : p \notin missed => p \in 0 .. retired - 1 /\ p \notin dropped
    BY <1>1
  <2> QED
    BY <2>1, <2>3, <2>4, <2>5 DEF BatchesUpTo, m
<1>5. HeldBackIsShortOrBlank'
  BY DEF FlushFails, ChunkBufferError, HeldBackIsShortOrBlank
<1> QED
  BY <1>2, <1>3, <1>4, <1>5 DEF ChunkerInv

(* Every call keeps the invariant.                                          *)
LEMMA ChunkerStep ==
  ASSUME ChunkerInv, [ChunkerNext]_chunker_vars
  PROVE  ChunkerInv'
<1> USE DEF ChunkerInv
<1>1. CASE PushCancelled
  BY <1>1 DEF PushCancelled, ResidualIsTheRest, HeldBackIsShortOrBlank
<1>2. ASSUME NEW block \in Blocks, PushBytes(block)
      PROVE  ChunkerInv'
  BY <1>2, PushWaitsKeeps, PushFailsKeeps, PushChunksKeeps DEF PushBytes
<1>3. CASE FlushNothing
  <2>1. \A p \in 0 .. Len(residual_buffer) - 1 : FALSE
    BY <1>3 DEF FlushNothing
  <2> QED
    BY <1>3, <2>1 DEF FlushNothing, ResidualIsTheRest, HeldBackIsShortOrBlank
<1>4. CASE FlushFails
  BY <1>4, FlushFailsKeeps
<1>5. CASE FlushChunks
  BY <1>5, FlushChunksKeeps
<1>6. CASE TokenChanges
  BY <1>6 DEF TokenChanges, ResidualIsTheRest, HeldBackIsShortOrBlank
<1>7. CASE UNCHANGED chunker_vars
  BY <1>7 DEF chunker_vars, ResidualIsTheRest, HeldBackIsShortOrBlank
<1> QED
  BY <1>1, <1>2, <1>3, <1>4, <1>5, <1>6, <1>7 DEF ChunkerNext, Flush

(* No byte of the stream is in two batches.                                 *)
LEMMA OneBatchEach ==
  ASSUME ChunkerInv, NEW p \in Int,
         NEW a \in 1 .. Len(batches), Covers(batches[a], p),
         NEW b \in 1 .. Len(batches), Covers(batches[b], p)
  PROVE  a = b
<1>1. /\ batches \in Seq(Batch)
      /\ \A i \in 1 .. Len(batches) : Compact(batches[i])
      /\ \A i, j \in 1 .. Len(batches) : i < j => End(batches[i]) <= Begin(batches[j])
  BY DEF ChunkerInv, BatchesUpTo
<1> DEFINE m == Len(batches)
<1>2. m \in Nat /\ batches \in [1 .. m -> Batch]
  BY <1>1, LenProperties
<1> HIDE DEF m
<1>3. ASSUME NEW i \in 1 .. m, Covers(batches[i], p)
      PROVE  /\ Begin(batches[i]) \in Nat /\ End(batches[i]) \in Nat
             /\ Begin(batches[i]) <= p /\ p < End(batches[i])
  <2>1. batches[i] \in Batch /\ Compact(batches[i])
    BY <1>1, <1>2 DEF m
  <2> QED
    BY <1>3, <2>1, BatchEnds
<1>4. ASSUME NEW i \in 1 .. m, Covers(batches[i], p),
             NEW j \in 1 .. m, Covers(batches[j], p), i < j
      PROVE  FALSE
  <2>1. End(batches[i]) <= Begin(batches[j])
    BY <1>1, <1>4 DEF m
  <2> QED
    BY <1>3, <1>4, <2>1
<1>5. a \in 1 .. m /\ b \in 1 .. m /\ a \in Int /\ b \in Int
  BY DEF m
<1> QED
  BY <1>4, <1>5

(* In every reachable state the residual is the rest of the stream, and the *)
(* batches returned so far follow each other up to it and hold every word   *)
(* before it that no failed flush dropped.                                  *)
(* Code: push_bytes and flush of include/fastchunk/stream_chunker.h.        *)
THEOREM ChunkerInvariant == ChunkerSpec => []ChunkerInv
<1>1. ChunkerInv /\ [ChunkerNext]_chunker_vars => ChunkerInv'
  BY ChunkerStep
<1> QED
  BY ChunkerInitially, <1>1, PTL DEF ChunkerSpec

(* Every word byte that has left the residual was returned by a call or     *)
(* dropped by a failed flush; without an overlap by one call only, and what *)
(* was dropped by none.                                                     *)
(* Code: lines 39-75 and 88-95 of include/fastchunk/stream_chunker.h.       *)
THEOREM WordBytesAreKept == ChunkerSpec => []NoWordByteIsLost
<1>1. ChunkerInv => NoWordByteIsLost
  <2> SUFFICES ASSUME ChunkerInv PROVE NoWordByteIsLost
    OBVIOUS
  <2>1. residual_buffer = SubSeq(pushed, retired + 1, Len(pushed))
    BY DEF ChunkerInv, ResidualIsTheRest
  <2>2. ASSUME NEW p \in 0 .. retired - 1
        PROVE  LET covering == {b \in 1 .. Len(batches) : Covers(batches[b], p)}
               IN /\ IsWord(pushed, p) /\ p \notin dropped => covering # {}
                  /\ \A a, b \in covering : a = b
                  /\ p \in dropped => covering = {}
    <3> DEFINE covering == {b \in 1 .. Len(batches) : Covers(batches[b], p)}
    <3>1. IsWord(pushed, p) /\ p \notin dropped => covering # {}
      BY DEF ChunkerInv, BatchesUpTo
    <3>2. \A a, b \in covering : a = b
      BY OneBatchEach
    <3>3. p \in dropped => covering = {}
      BY DEF ChunkerInv, BatchesUpTo
    <3> QED
      BY <3>1, <3>2, <3>3
  <2> QED
    BY <2>1, <2>2 DEF NoWordByteIsLost
<1> QED
  BY ChunkerInvariant, <1>1, PTL

(* What a later call returns does not go back before what an earlier one    *)
(* returned, and is all behind it without an overlap.                       *)
(* Code: the residual of lines 66-74 of include/fastchunk/stream_chunker.h. *)
THEOREM CallsInStreamOrder == ChunkerSpec => []CallsFollowTheStream
<1>1. ChunkerInv => CallsFollowTheStream
  <2> SUFFICES ASSUME ChunkerInv, NEW i \in 1 .. Len(batches),
                      NEW j \in 1 .. Len(batches), i < j
               PROVE  LET last == LastPiece(batches[i])
                          first == FirstPiece(batches[j])
                      IN /\ last.first_byte <= first.first_byte
                         /\ last.last_byte <= first.last_byte
                         /\ last.last_byte <= first.first_byte
    BY DEF CallsFollowTheStream
  <2>1. /\ LastPiece(batches[i]).last_byte <= FirstPiece(batches[j]).first_byte
        /\ batches \in Seq(Batch)
        /\ Compact(batches[i]) /\ Compact(batches[j])
    BY DEF ChunkerInv, BatchesUpTo, Begin, End, FirstPiece, LastPiece
  <2>2. ASSUME NEW given \in Batch, Compact(given)
        PROVE  \A piece \in {FirstPiece(given), LastPiece(given)} :
                 /\ piece.first_byte \in Nat /\ piece.last_byte \in Nat
                 /\ piece.first_byte <= piece.last_byte
    <3> DEFINE s == given.pieces
               n == Len(s)
    <3>1. s \in Seq(Piece) /\ n # 0
      BY <2>2 DEF Batch, Compact
    <3>2. \A k \in 1 .. n : s[k].first_byte <= s[k].last_byte
      BY <2>2 DEF Compact
    <3>3. FirstPiece(given) = s[1] /\ LastPiece(given) = s[n]
      BY DEF FirstPiece, LastPiece
    <3> HIDE DEF s
    <3>4. 1 \in 1 .. n /\ n \in 1 .. n
      BY <3>1
    <3>5. \A k \in 1 .. n : s[k] \in Piece
      BY <3>1
    <3> HIDE DEF n
    <3>6. \A piece \in Piece : piece.first_byte \in Nat /\ piece.last_byte \in Nat
      BY DEF Piece
    <3> QED
      BY <3>2, <3>3, <3>4, <3>5, <3>6
  <2>3. batches[i] \in Batch /\ batches[j] \in Batch
    <3> DEFINE m == Len(batches)
    <3>1. batches \in [1 .. m -> Batch]
      BY <2>1, LenProperties
    <3> HIDE DEF m
    <3> QED
      BY <3>1 DEF m
  <2> QED
    BY <2>1, <2>2, <2>3
<1> QED
  BY ChunkerInvariant, <1>1, PTL

(* A successful call holds back fewer bytes than max_tokens, or no word.    *)
(* Code: lines 44-47 and 64-75 of include/fastchunk/stream_chunker.h.       *)
THEOREM HeldBackIsLittle == ChunkerSpec => []HeldBackIsShortOrBlank
<1>1. ChunkerInv => HeldBackIsShortOrBlank
  BY DEF ChunkerInv
<1> QED
  BY ChunkerInvariant, <1>1, PTL

=============================================================================
