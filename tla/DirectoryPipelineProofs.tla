---------------------- MODULE DirectoryPipelineProofs ----------------------
(***************************************************************************)
(* What DirectoryPipeline guarantees for every directory, every number of  *)
(* workers and every interleaving of the threads that process the files:   *)
(* no thread outlives the call or exceeds the limit, the documents of run  *)
(* come in path order, and export_streaming writes a prefix of the chunks. *)
(***************************************************************************)
EXTENDS DirectoryPipeline, OperatorProofs, FiniteSetTheorems

-----------------------------------------------------------------------------
(* The inductive invariant, part by part.                                   *)

PipelineShape ==
  /\ operation \in {"run", "export"}
  /\ files \in Seq(File)
  /\ settings.workers \in Nat \ {0}
  /\ at \in {"called", "single", "launching", "gathering", "unwinding",
             "next", "opening", "exporting", "returned"}
  /\ paths \in Seq(Numbers)
  /\ start \in Nat /\ batch \in Nat /\ gathered \in Nat
  /\ gathered <= batch /\ batch <= settings.workers /\ start + batch <= Len(paths)
  /\ work \in [Numbers -> {"none", "started", "preparing", "chunking", "done"}]
  /\ results \in Seq(Numbers)
  /\ written \in Nat /\ output \in Seq(Written)
  /\ telemetry \in Seq(Event)
  /\ ~ is_directory => Len(files) = 1
  /\ at # "returned" => outcome = "pending"

Ascending(seq) == \A i, j \in 1 .. Len(seq) : i < j => seq[i] < seq[j]

(* Where the calling thread is says which method it runs and how far.       *)
StagesOfTheCall ==
  /\ at \in {"single", "launching", "gathering", "unwinding"} => operation = "run"
  /\ at \in {"next", "opening", "exporting"} => operation = "export"
  /\ at \in {"launching", "gathering", "unwinding"} => is_directory
  /\ at = "single" => ~ is_directory /\ paths = <<1>>
  /\ at \in {"called", "single", "next", "opening", "exporting"} => batch = 0
  /\ at \in {"launching", "unwinding"} => gathered = 0
  /\ at \in {"opening", "exporting"} => start < Len(paths)
  /\ at \in {"called", "single"} => start = 0 /\ telemetry = <<>>
  /\ at \in {"called", "single"} => results = <<>> /\ written = 0 /\ output = <<>>

(* A file in work is the single one, or one of the batch whose document has *)
(* not been collected.                                                      *)
ThreadsFollowBatch ==
  \A f \in Processing :
    \/ at = "single" /\ f = 1
    \/ /\ at \in {"launching", "gathering", "unwinding"}
       /\ \E k \in start + gathered + 1 .. start + batch : paths[k] = f

FirstPaths(n) == Len(results) = n /\ \A k \in 1 .. n : results[k] = paths[k]

DocumentsGathered ==
  operation = "run" =>
    /\ at \in {"launching", "gathering"} => FirstPaths(start + gathered)
    /\ outcome = "ok" => results = paths
    /\ is_directory =>
         /\ Len(telemetry) = 2 * (start + gathered)
         /\ \A k \in 1 .. start + gathered :
              <<telemetry[2 * k - 1], telemetry[2 * k]>> = DocumentEvents(paths[k])

PathsExported ==
  operation = "export" =>
    /\ outcome = "ok" => start = Len(paths)
    /\ \A k \in 1 .. Len(telemetry) : \E i \in 1 .. start : paths[i] = telemetry[k].file

(* Chunk c of the i-th path has been written.                               *)
Reached(i, c) ==
  /\ i \in 1 .. Len(paths) /\ 1 <= c /\ c <= files[paths[i]].chunks
  /\ i <= start \/ (i = start + 1 /\ c <= written)

(* The output is the chunks reached, each once and in their order.          *)
ChunksExported ==
  operation = "export" =>
    /\ at \notin {"exporting", "returned"} => written = 0
    /\ \A j, k \in 1 .. Len(output) : j < k => Before(output[j], output[k])
    /\ \A k \in 1 .. Len(output) : \E i \in Nat, c \in Nat :
         Reached(i, c) /\ output[k] = [file |-> paths[i], chunk |-> c]
    /\ \A i \in Nat, c \in Nat : Reached(i, c) => IsWritten(paths[i], c)

PipelineInv ==
  /\ PipelineShape
  /\ Ascending(paths)
  /\ StagesOfTheCall
  /\ ThreadsFollowBatch
  /\ DocumentsGathered
  /\ PathsExported
  /\ ChunksExported

-----------------------------------------------------------------------------
(* Sorting: that an ascending arrangement exists, and that there is one.    *)

(* Distinct numbers can be put in ascending order: each goes to the place   *)
(* its rank, the count of those not above it, names.                        *)
LEMMA SortedOrderExists ==
  ASSUME NEW n \in Nat, NEW s \in [1 .. n -> Nat],
         \A i, j \in 1 .. n : s[i] = s[j] => i = j
  PROVE  \E p \in Bijection(1 .. n, 1 .. n) :
           \A i, j \in 1 .. n : i < j => s[p[i]] < s[p[j]]
<1> DEFINE D == 1 .. n
           Below(j) == {k \in D : s[k] <= s[j]}
           rank == [j \in D |-> Cardinality(Below(j))]
           p == [r \in D |-> CHOOSE j \in D : rank[j] = r]
<1>1. IsFiniteSet(D) /\ Cardinality(D) = n
  BY FS_Interval
<1>2. ASSUME NEW j \in D
      PROVE  IsFiniteSet(Below(j)) /\ j \in Below(j) /\ rank[j] \in D
  <2>1. Below(j) \in SUBSET D /\ j \in Below(j)
    OBVIOUS
  <2> HIDE DEF Below
  <2>2. IsFiniteSet(Below(j)) /\ Cardinality(Below(j)) <= n
    BY <1>1, <2>1, FS_Subset
  <2>3. Cardinality(Below(j)) \in Nat /\ Cardinality(Below(j)) # 0
    BY <2>1, <2>2, FS_CardinalityType, FS_EmptySet
  <2> QED
    BY <2>1, <2>2, <2>3
<1>3. ASSUME NEW i \in D, NEW j \in D, s[i] < s[j]
      PROVE  rank[i] < rank[j]
  <2>1. Below(i) \in SUBSET Below(j) /\ j \notin Below(i) /\ s[i] \in Nat /\ s[j] \in Nat
    BY <1>3
  <2>2. IsFiniteSet(Below(j)) /\ j \in Below(j) /\ rank[i] \in D /\ rank[j] \in D
    BY <1>2
  <2>3. rank[i] = Cardinality(Below(i)) /\ rank[j] = Cardinality(Below(j))
    OBVIOUS
  <2> HIDE DEF Below, rank
  <2>4. rank[i] <= rank[j] /\ rank[i] # rank[j]
    BY <2>1, <2>2, <2>3, FS_Subset
  <2> QED
    BY <2>2, <2>4
<1>4. rank \in [D -> D]
  BY <1>2
<1> HIDE DEF rank
<1>5. \A i, j \in D : rank[i] = rank[j] => i = j
  <2> SUFFICES ASSUME NEW i \in D, NEW j \in D, i # j PROVE rank[i] # rank[j]
    OBVIOUS
  <2>1. s[i] \in Nat /\ s[j] \in Nat /\ s[i] # s[j]
    OBVIOUS
  <2>2. s[i] < s[j] \/ s[j] < s[i]
    BY <2>1
  <2>3. rank[i] < rank[j] \/ rank[j] < rank[i]
    BY <1>3, <2>2
  <2> QED
    BY <1>4, <2>3
<1>6. \A r \in D : \E j \in D : rank[j] = r
  <2>1. rank \in Injection(D, D)
    BY <1>4, <1>5 DEF Injection, IsInjective
  <2>2. rank \in Surjection(D, D)
    BY <1>1, <2>1, FS_Injection
  <2> QED
    BY <2>2 DEF Surjection
<1>7. \A r \in D : p[r] \in D /\ rank[p[r]] = r
  BY <1>6
<1>8. p \in [D -> D]
  BY <1>7
<1> HIDE DEF p
<1>9. p \in Bijection(D, D)
  <2>1. \A a, b \in D : p[a] = p[b] => a = b
    BY <1>7
  <2>2. \A j \in D : \E r \in D : p[r] = j
    <3> SUFFICES ASSUME NEW j \in D PROVE p[rank[j]] = j
      BY <1>4
    <3> QED
      BY <1>4, <1>5, <1>7
  <2> QED
    BY <1>8, <2>1, <2>2 DEF Bijection, Injection, Surjection, IsInjective
<1>10. ASSUME NEW i \in D, NEW j \in D, i < j
       PROVE  s[p[i]] < s[p[j]]
  <2>1. p[i] \in D /\ p[j] \in D /\ rank[p[i]] = i /\ rank[p[j]] = j
    BY <1>7
  <2>2. s[p[i]] \in Nat /\ s[p[j]] \in Nat
    BY <2>1
  <2>3. ~ (s[p[j]] < s[p[i]])
    BY <1>3, <1>10, <2>1
  <2>4. s[p[i]] # s[p[j]]
    BY <1>10, <2>1
  <2> QED
    BY <2>2, <2>3, <2>4
<1> QED
  BY <1>9, <1>10

(* An order that leaves the places ascending moves nothing.                 *)
LEMMA AscendingOrderIsIdentity ==
  ASSUME NEW n \in Nat, NEW p \in Bijection(1 .. n, 1 .. n),
         \A i, j \in 1 .. n : i < j => p[i] < p[j]
  PROVE  \A i \in 1 .. n : p[i] = i
<1> DEFINE D == 1 .. n
           T == {i \in D : p[i] # i}
<1>1. p \in [D -> D] /\ \A j \in D : \E i \in D : p[i] = j
  BY DEF Bijection, Injection, Surjection
<1> SUFFICES ASSUME T # {} PROVE FALSE
  OBVIOUS
<1>2. PICK i \in T : \A j \in T : i <= j
  <2>1. T \subseteq Nat
    OBVIOUS
  <2> HIDE DEF T
  <2> QED
    BY <2>1, LeastNatural
<1>3. i \in D /\ p[i] # i /\ p[i] \in D /\ \A j \in D : j < i => p[j] = j
  BY <1>1, <1>2
<1>4. p[i] > i
  <2> SUFFICES ASSUME p[i] < i PROVE FALSE
    BY <1>3
  <2>1. p[p[i]] = p[i]
    BY <1>3
  <2>2. p[p[i]] < p[i]
    BY <1>3
  <2> QED
    BY <1>3, <2>1, <2>2
<1>5. PICK v \in D : p[v] = i
  BY <1>1, <1>3
<1>6. v # i /\ ~ (v < i)
  BY <1>3, <1>5
<1>7. p[i] < p[v]
  BY <1>3, <1>5, <1>6
<1> QED
  BY <1>3, <1>4, <1>5, <1>7

(* std::sort of numbers that all differ: they are in ascending order, and   *)
(* the same ones.                                                           *)
LEMMA SortedIsAscending ==
  ASSUME NEW n \in Nat, NEW s \in [1 .. n -> Nat],
         \A i, j \in 1 .. n : s[i] = s[j] => i = j
  PROVE  /\ \E p \in Bijection(1 .. n, 1 .. n) : SortedByPath(s) = [k \in 1 .. n |-> s[p[k]]]
         /\ \A i, j \in 1 .. n : i < j => SortedByPath(s)[i] < SortedByPath(s)[j]
<1> DEFINE D == 1 .. n
           Arranged == {[k \in D |-> s[p[k]]] : p \in Bijection(D, D)}
           InOrder(t) == \A i, j \in D : i < j => t[i] <= t[j]
<1>0. DOMAIN s = D
  OBVIOUS
<1>1. SortedByPath(s) = CHOOSE t \in Arranged : InOrder(t)
  BY <1>0 DEF SortedByPath
<1>2. \E t \in Arranged : InOrder(t)
  <2>1. PICK p \in Bijection(D, D) : \A i, j \in D : i < j => s[p[i]] < s[p[j]]
    BY SortedOrderExists
  <2>2. \A i \in D : s[p[i]] \in Nat
    BY DEF Bijection, Injection
  <2> DEFINE t == [k \in D |-> s[p[k]]]
  <2>3. InOrder(t)
    BY <2>1, <2>2
  <2>4. t \in Arranged
    OBVIOUS
  <2> HIDE DEF t, Arranged, InOrder
  <2> QED
    BY <2>3, <2>4
<1>3. SortedByPath(s) \in Arranged /\ InOrder(SortedByPath(s))
  BY <1>1, <1>2
<1>4. PICK p \in Bijection(D, D) : SortedByPath(s) = [k \in D |-> s[p[k]]]
  BY <1>3
<1>5. ASSUME NEW i \in D, NEW j \in D, i < j
      PROVE  SortedByPath(s)[i] < SortedByPath(s)[j]
  <2>1. p[i] \in D /\ p[j] \in D /\ p[i] # p[j]
    BY <1>5 DEF Bijection, Injection, IsInjective
  <2>2. s[p[i]] # s[p[j]] /\ s[p[i]] \in Nat /\ s[p[j]] \in Nat
    BY <2>1
  <2>3. s[p[i]] <= s[p[j]]
    BY <1>3, <1>4, <1>5
  <2> QED
    BY <1>4, <2>2, <2>3
<1> QED
  BY <1>4, <1>5

(* Sorting what is in ascending order leaves it as it is.                   *)
LEMMA SortedOfAscending ==
  ASSUME NEW s \in Seq(Nat), Ascending(s)
  PROVE  SortedByPath(s) = s
<1> DEFINE n == Len(s)
           D == 1 .. n
<1>1. n \in Nat /\ s \in [D -> Nat] /\ \A i, j \in D : i < j => s[i] < s[j]
  BY DEF Ascending
<1>2. \A i, j \in D : s[i] = s[j] => i = j
  BY <1>1
<1> HIDE DEF n
<1>3. PICK p \in Bijection(D, D) : SortedByPath(s) = [k \in D |-> s[p[k]]]
  BY <1>1, <1>2, SortedIsAscending
<1>4. \A i, j \in D : i < j => s[p[i]] < s[p[j]]
  <2>1. \A i, j \in D : i < j => SortedByPath(s)[i] < SortedByPath(s)[j]
    BY <1>1, <1>2, SortedIsAscending
  <2> QED
    BY <1>3, <2>1
<1>5. \A i \in D : p[i] \in D
  BY DEF Bijection, Injection
<1>6. \A i, j \in D : i < j => p[i] < p[j]
  <2> SUFFICES ASSUME NEW i \in D, NEW j \in D, i < j, ~ (p[i] < p[j]) PROVE FALSE
    OBVIOUS
  <2>1. p[i] \in D /\ p[j] \in D
    BY <1>5
  <2>2. p[j] < p[i] \/ p[j] = p[i]
    BY <2>1
  <2>3. s[p[i]] < s[p[j]] /\ s[p[i]] \in Nat /\ s[p[j]] \in Nat
    BY <1>1, <1>4, <2>1
  <2>4. p[j] < p[i] => s[p[j]] < s[p[i]]
    BY <1>1, <2>1
  <2> QED
    BY <2>2, <2>3, <2>4
<1>7. \A i \in D : p[i] = i
  BY <1>1, <1>6, AscendingOrderIsIdentity
<1>8. SortedByPath(s) = [k \in D |-> s[k]]
  BY <1>3, <1>7
<1> QED
  BY <1>1, <1>8

(* The collected paths: the listed files, in ascending order.               *)
LEMMA SortedPaths ==
  ASSUME NEW S, S \subseteq Nat, IsFiniteSet(S)
  PROVE  /\ SortedByPath(SetToSeq(S)) \in Seq(S)
         /\ Ascending(SortedByPath(SetToSeq(S)))
<1> DEFINE n == Cardinality(S)
           D == 1 .. n
           s == SetToSeq(S)
           t == SortedByPath(s)
<1>1. n \in Nat
  BY FS_CardinalityType
<1>2. \E f \in [D -> S] : IsInjective(f)
  BY FS_CardinalityType DEF ExistsBijection, Bijection, Injection
<1>3. s \in [D -> S] /\ IsInjective(s)
  BY <1>2 DEF SetToSeq
<1>4. s \in [D -> Nat] /\ \A i, j \in D : s[i] = s[j] => i = j
  BY <1>3 DEF IsInjective
<1> HIDE DEF n, s
<1>5. PICK p \in Bijection(D, D) : t = [k \in D |-> s[p[k]]]
  BY <1>1, <1>4, SortedIsAscending
<1>6. \A i, j \in D : i < j => t[i] < t[j]
  BY <1>1, <1>4, SortedIsAscending
<1>7. t \in [D -> S]
  <2>1. \A k \in D : p[k] \in D
    BY DEF Bijection, Injection
  <2> QED
    BY <1>3, <1>5, <2>1
<1> HIDE DEF t
<1>8. t \in Seq(S) /\ Len(t) = n
  BY <1>1, <1>7
<1>9. t = SortedByPath(SetToSeq(S))
  BY DEF t, s
<1> QED
  BY <1>6, <1>8, <1>9 DEF Ascending

(* Two events recorded after the others.                                    *)
LEMMA PairRecorded ==
  ASSUME NEW S, NEW s \in Seq(S), NEW t \in Seq(S), Len(t) = 2
  PROVE  /\ s \o t \in Seq(S) /\ Len(s \o t) = Len(s) + 2
         /\ \A i \in 1 .. Len(s) : (s \o t)[i] = s[i]
         /\ (s \o t)[Len(s) + 1] = t[1] /\ (s \o t)[Len(s) + 2] = t[2]
<1>1. Len(s) \in Nat
  OBVIOUS
<1>2. s \o t \in Seq(S) /\ Len(s \o t) = Len(s) + Len(t)
  BY ConcatProperties
<1>3. \A i \in 1 .. Len(s) + Len(t) :
        (s \o t)[i] = IF i <= Len(s) THEN s[i] ELSE t[i - Len(s)]
  BY ConcatProperties
<1>4. \A i \in 1 .. Len(s) : i \in 1 .. Len(s) + Len(t) /\ i <= Len(s)
  BY <1>1
<1>5. /\ Len(s) + 1 \in 1 .. Len(s) + Len(t) /\ ~ (Len(s) + 1 <= Len(s))
      /\ (Len(s) + 1) - Len(s) = 1
      /\ Len(s) + 2 \in 1 .. Len(s) + Len(t) /\ ~ (Len(s) + 2 <= Len(s))
      /\ (Len(s) + 2) - Len(s) = 2
  BY <1>1
<1> QED
  BY <1>2, <1>3, <1>4, <1>5

-----------------------------------------------------------------------------
(* Every call starts with nothing collected and no thread.                  *)
LEMMA PipelineInitially == PipelineInit => PipelineInv
<1> SUFFICES ASSUME PipelineInit PROVE PipelineInv
  OBVIOUS
<1>1. PipelineShape
  <2>1. files \in Seq(File) /\ (~ is_directory => Len(files) = 1)
    BY DirectoryAssumption DEF PipelineInit
  <2>2. settings.workers \in Nat \ {0}
    BY WorkerAssumption DEF PipelineInit
  <2>3. work \in [Numbers -> {"none", "started", "preparing", "chunking", "done"}]
    BY DEF PipelineInit
  <2>4. paths \in Seq(Numbers) /\ results \in Seq(Numbers) /\ telemetry \in Seq(Event)
    BY DEF PipelineInit
  <2>5. /\ start = 0 /\ batch = 0 /\ gathered = 0 /\ Len(paths) = 0
        /\ written = 0 /\ output = <<>>
        /\ operation \in {"run", "export"} /\ at = "called" /\ outcome = "pending"
    BY DEF PipelineInit
  <2> QED
    BY <2>1, <2>2, <2>3, <2>4, <2>5 DEF PipelineShape
<1>2. Processing = {}
  BY DEF PipelineInit, Processing
<1>3. Ascending(paths) /\ StagesOfTheCall /\ ThreadsFollowBatch
  BY <1>2 DEF PipelineInit, Ascending, StagesOfTheCall, ThreadsFollowBatch
<1>4. DocumentsGathered /\ PathsExported /\ ChunksExported
  BY DEF PipelineInit, DocumentsGathered, PathsExported, FirstPaths, ChunksExported, Reached
<1> QED
  BY <1>1, <1>3, <1>4 DEF PipelineInv

(* Steps that write nothing and leave the place of the export.              *)
LEMMA NothingWritten ==
  ASSUME ChunksExported, UNCHANGED <<operation, files, paths, start, written, output>>,
         at \in {"exporting", "returned"} => at' \in {"exporting", "returned"}
  PROVE  ChunksExported'
<1>1. \A i \in Nat, c \in Nat : Reached(i, c)' = Reached(i, c)
  BY DEF Reached
<1>2. \A f, c : IsWritten(f, c)' = IsWritten(f, c)
  BY DEF IsWritten
<1> QED
  BY <1>1, <1>2 DEF ChunksExported, Before

(* A thread that processes a file leaves the calling thread's state alone.  *)
LEMMA ProcessFileStep ==
  ASSUME PipelineInv, NEW f \in Numbers, ProcessFile(f)
  PROVE  PipelineInv'
<1> USE DEF input, progress, delivered
<1>1. /\ UNCHANGED <<operation, is_directory, root_dotted, files, settings, at, paths, start,
                     batch, gathered, written, results, output, telemetry, outcome>>
      /\ Numbers' = Numbers
  BY DEF ProcessFile, Numbers
<1>2. /\ work[f] \in {"started", "preparing", "chunking"}
      /\ \E state \in {"preparing", "chunking", "done"} : work' = [work EXCEPT ![f] = state]
  BY DEF ProcessFile, StartFile, PrepareFile, ChunkFile, Finish
<1>3. PipelineShape'
  BY <1>1, <1>2 DEF PipelineInv, PipelineShape
<1>4. Processing' \subseteq Processing
  <2>1. work \in [Numbers -> {"none", "started", "preparing", "chunking", "done"}]
    BY DEF PipelineInv, PipelineShape
  <2> QED
    BY <1>1, <1>2, <2>1 DEF Processing
<1>5. ThreadsFollowBatch'
  BY <1>1, <1>4 DEF PipelineInv, ThreadsFollowBatch
<1>6. Ascending(paths)' /\ StagesOfTheCall' /\ DocumentsGathered' /\ PathsExported'
  BY <1>1 DEF PipelineInv, Ascending, StagesOfTheCall, DocumentsGathered, PathsExported,
              FirstPaths, DocumentEvents
<1>7. ChunksExported'
  BY <1>1, NothingWritten DEF PipelineInv
<1> QED
  BY <1>3, <1>5, <1>6, <1>7 DEF PipelineInv

(* The steps that only move the calling thread or end the call.             *)
LEMMA CallerMoves ==
  ASSUME PipelineInv, UNCHANGED <<input, progress, work, delivered>>,
         \/ RefuseConfiguration \/ BatchLaunched \/ NextPath \/ OpenPath
         \/ ExportFails \/ ExportDone
         \/ UNCHANGED <<at, outcome>>
  PROVE  PipelineInv'
<1> USE DEF input, progress, delivered
<1>1. Numbers' = Numbers /\ Processing' = Processing
  BY DEF Numbers, Processing
<1>2. /\ at' # "returned" => outcome' = outcome /\ at # "returned"
      /\ at' \in {"called", "single", "launching", "gathering", "unwinding",
                  "next", "opening", "exporting", "returned"}
  BY DEF PipelineInv, PipelineShape, RefuseConfiguration, BatchLaunched, NextPath, OpenPath,
         ExportFails, ExportDone, Return
<1>3. PipelineShape' /\ Ascending(paths)'
  BY <1>1, <1>2 DEF PipelineInv, PipelineShape, Ascending
<1>4. StagesOfTheCall'
  BY DEF PipelineInv, StagesOfTheCall, RefuseConfiguration, BatchLaunched, NextPath, OpenPath,
         ExportFails, ExportDone, Return
<1>5. ThreadsFollowBatch'
  BY <1>1 DEF PipelineInv, ThreadsFollowBatch, RefuseConfiguration, BatchLaunched, NextPath,
              OpenPath, ExportFails, ExportDone
<1>6. outcome' = "ok" => \/ outcome = "ok"
                          \/ (operation = "export" /\ start = Len(paths))
  <2>1. ExportFails => outcome' # "ok"
    BY DEF ExportFails, ExportError, Return
  <2> QED
    BY <2>1 DEF PipelineInv, PipelineShape, StagesOfTheCall, RefuseConfiguration, BatchLaunched,
                NextPath, OpenPath, ExportDone, Return
<1>7. at' \in {"launching", "gathering"} => at \in {"launching", "gathering"}
  BY DEF RefuseConfiguration, BatchLaunched, NextPath, OpenPath, ExportFails, ExportDone, Return
<1>8. DocumentsGathered' /\ PathsExported'
  BY <1>6, <1>7 DEF PipelineInv, DocumentsGathered, PathsExported, FirstPaths, DocumentEvents
<1>9. at \in {"exporting", "returned"} => at' \in {"exporting", "returned"}
  BY DEF RefuseConfiguration, BatchLaunched, NextPath, OpenPath, ExportFails, ExportDone, Return
<1>10. ChunksExported'
  BY <1>9, NothingWritten DEF PipelineInv
<1> QED
  BY <1>3, <1>4, <1>5, <1>8, <1>10 DEF PipelineInv

(* The one file of a path that names no directory.                          *)
LEMMA TakeSingleFileStep ==
  ASSUME PipelineInv, TakeSingleFile
  PROVE  PipelineInv'
<1> USE DEF input, delivered
<1>1. /\ at = "called" /\ ~ is_directory /\ paths' = <<1>>
      /\ UNCHANGED <<operation, is_directory, root_dotted, files, settings, start, batch,
                     gathered, written, results, output, telemetry, outcome>>
      /\ \/ operation = "run" /\ at' = "single" /\ work' = [work EXCEPT ![1] = "started"]
         \/ operation = "export" /\ at' = "next" /\ work' = work
  BY DEF TakeSingleFile, PipelineInv, PipelineShape
<1>2. start = 0 /\ batch = 0 /\ gathered = 0 /\ results = <<>> /\ telemetry = <<>>
      /\ written = 0 /\ output = <<>> /\ outcome = "pending"
  <2>1. /\ start = 0 /\ batch = 0 /\ results = <<>> /\ telemetry = <<>>
        /\ written = 0 /\ output = <<>>
    BY <1>1 DEF PipelineInv, StagesOfTheCall
  <2>2. gathered \in Nat /\ gathered <= batch /\ outcome = "pending"
    BY <1>1 DEF PipelineInv, PipelineShape
  <2> QED
    BY <2>1, <2>2
<1>3. Numbers' = Numbers /\ 1 \in Numbers
  <2>1. Len(files) = 1
    BY <1>1 DEF PipelineInv, PipelineShape
  <2> QED
    BY <1>1, <2>1 DEF Numbers
<1>4. PipelineShape'
  BY <1>1, <1>2, <1>3 DEF PipelineInv, PipelineShape
<1>5. Ascending(paths)' /\ StagesOfTheCall'
  BY <1>1, <1>2 DEF Ascending, StagesOfTheCall
<1>6. Processing = {}
  BY <1>1 DEF PipelineInv, ThreadsFollowBatch
<1>7. ThreadsFollowBatch'
  <2>1. work \in [Numbers -> {"none", "started", "preparing", "chunking", "done"}]
    BY DEF PipelineInv, PipelineShape
  <2> QED
    BY <1>1, <1>3, <1>6, <2>1 DEF Processing, ThreadsFollowBatch
<1>8. DocumentsGathered' /\ PathsExported'
  BY <1>1, <1>2 DEF DocumentsGathered, PathsExported, FirstPaths
<1>9. ChunksExported'
  BY <1>1, <1>2 DEF ChunksExported, Reached
<1> QED
  BY <1>4, <1>5, <1>7, <1>8, <1>9 DEF PipelineInv

(* The directory's listed files, sorted, none of them in work yet.          *)
LEMMA CollectPathsStep ==
  ASSUME PipelineInv, CollectPaths
  PROVE  PipelineInv'
<1> USE DEF input, delivered, threads
<1>1. /\ at = "called" /\ is_directory /\ paths' = SortedByPath(SetToSeq(Listed))
      /\ UNCHANGED <<operation, is_directory, root_dotted, files, settings, start, batch,
                     gathered, written, work, results, output, telemetry>>
      /\ \/ operation = "run" /\ at' = "returned" /\ outcome' = "resource_limit_exceeded"
         \/ operation = "run" /\ at' = "launching" /\ outcome' = outcome
         \/ operation = "export" /\ at' = "next" /\ outcome' = outcome
  BY DEF CollectPaths, PipelineInv, PipelineShape, Return
<1>2. start = 0 /\ batch = 0 /\ gathered = 0 /\ results = <<>> /\ telemetry = <<>>
      /\ written = 0 /\ output = <<>> /\ outcome = "pending"
  <2>1. /\ start = 0 /\ batch = 0 /\ results = <<>> /\ telemetry = <<>>
        /\ written = 0 /\ output = <<>>
    BY <1>1 DEF PipelineInv, StagesOfTheCall
  <2>2. gathered \in Nat /\ gathered <= batch /\ outcome = "pending"
    BY <1>1 DEF PipelineInv, PipelineShape
  <2> QED
    BY <2>1, <2>2
<1>3. Numbers' = Numbers /\ Processing' = Processing /\ Processing = {}
  BY <1>1 DEF Numbers, Processing, PipelineInv, ThreadsFollowBatch
<1>4. paths' \in Seq(Numbers) /\ Ascending(paths')
  <2>1. Len(files) \in Nat
    BY DEF PipelineInv, PipelineShape
  <2>2. Numbers \subseteq Nat /\ IsFiniteSet(Numbers)
    BY <2>1, FS_Interval DEF Numbers
  <2>3. Listed \subseteq Numbers
    BY DEF Listed
  <2>4. Listed \subseteq Nat /\ IsFiniteSet(Listed)
    BY <2>2, <2>3, FS_Subset
  <2>5. paths' \in Seq(Listed) /\ Ascending(paths')
    BY <1>1, <2>4, SortedPaths
  <2> QED
    BY <2>3, <2>5
<1>5. PipelineShape'
  BY <1>1, <1>2, <1>3, <1>4 DEF PipelineInv, PipelineShape
<1>6. Ascending(paths)' /\ StagesOfTheCall' /\ ThreadsFollowBatch'
  BY <1>1, <1>2, <1>3, <1>4 DEF Ascending, StagesOfTheCall, ThreadsFollowBatch
<1>7. DocumentsGathered' /\ PathsExported'
  BY <1>1, <1>2 DEF DocumentsGathered, PathsExported, FirstPaths
<1>8. ChunksExported'
  BY <1>1, <1>2 DEF ChunksExported, Reached
<1> QED
  BY <1>5, <1>6, <1>7, <1>8 DEF PipelineInv

(* The one file's document.                                                 *)
LEMMA ReturnSingleStep ==
  ASSUME PipelineInv, ReturnSingle
  PROVE  PipelineInv'
<1> USE DEF input, progress, threads
<1>1. /\ at = "single" /\ work[1] = "done" /\ results' = <<1>>
      /\ telemetry' = <<[metric |-> "bytes", file |-> 1, value |-> "chunks"],
                        [metric |-> "chunks", file |-> 1, value |-> "chunks"]>>
      /\ at' = "returned" /\ outcome' = "ok"
      /\ UNCHANGED <<operation, is_directory, root_dotted, files, settings, paths, start,
                     batch, gathered, written, work, output>>
  BY DEF ReturnSingle, Return
<1>2. operation = "run" /\ ~ is_directory /\ paths = <<1>> /\ batch = 0 /\ start = 0
  BY <1>1 DEF PipelineInv, StagesOfTheCall
<1>3. Numbers' = Numbers /\ 1 \in Numbers
  BY <1>1, <1>2 DEF Numbers, PipelineInv, PipelineShape
<1>4. telemetry' \in Seq(Event)
  <2>1. \A value \in {"bytes", "chunks"} :
          [metric |-> value, file |-> 1, value |-> "chunks"] \in Event
    BY DEF Event
  <2>2. /\ [metric |-> "bytes", file |-> 1, value |-> "chunks"] \in Event
        /\ [metric |-> "chunks", file |-> 1, value |-> "chunks"] \in Event
    BY <2>1
  <2> QED
    BY <1>1, <2>2
<1>5. PipelineShape'
  BY <1>1, <1>3, <1>4 DEF PipelineInv, PipelineShape
<1>6. Processing' = {}
  BY <1>1, <1>3 DEF PipelineInv, ThreadsFollowBatch, Processing
<1>7. Ascending(paths)' /\ StagesOfTheCall' /\ ThreadsFollowBatch'
  BY <1>1, <1>6 DEF PipelineInv, Ascending, StagesOfTheCall, ThreadsFollowBatch
<1>8. DocumentsGathered' /\ PathsExported' /\ ChunksExported'
  BY <1>1, <1>2 DEF DocumentsGathered, PathsExported, ChunksExported
<1> QED
  BY <1>5, <1>7, <1>8 DEF PipelineInv

(* One more thread, while the batch is short of the workers, or the end of  *)
(* the call because the token is set.                                       *)
LEMMA LaunchFileStep ==
  ASSUME PipelineInv, LaunchFile
  PROVE  PipelineInv'
<1> USE DEF input, delivered
<1>1. /\ at = "launching" /\ start + batch < BatchEnd
      /\ UNCHANGED <<operation, is_directory, root_dotted, files, settings, paths, start,
                     gathered, written, results, output, telemetry, outcome>>
      /\ \/ at' = "unwinding" /\ batch' = batch /\ work' = work
         \/ /\ work' = [work EXCEPT ![paths[start + batch + 1]] = "started"]
            /\ batch' = batch + 1 /\ at' = at
  BY DEF LaunchFile
<1>2. /\ operation = "run" /\ is_directory /\ gathered = 0
      /\ start \in Nat /\ batch \in Nat /\ paths \in Seq(Numbers) /\ settings.workers \in Nat
  BY <1>1 DEF PipelineInv, PipelineShape, StagesOfTheCall
<1>3. start + batch + 1 <= Len(paths) /\ batch + 1 <= settings.workers
  BY <1>1, <1>2 DEF BatchEnd
<1>4. paths[start + batch + 1] \in Numbers /\ Numbers' = Numbers
  BY <1>1, <1>2, <1>3 DEF Numbers
<1>5. PipelineShape'
  <2>1. work' \in [Numbers -> {"none", "started", "preparing", "chunking", "done"}]
    BY <1>1, <1>4 DEF PipelineInv, PipelineShape
  <2>2. /\ batch' \in Nat /\ gathered <= batch' /\ batch' <= settings.workers
        /\ start + batch' <= Len(paths)
    BY <1>1, <1>2, <1>3 DEF PipelineInv, PipelineShape
  <2> QED
    BY <1>1, <1>4, <2>1, <2>2 DEF PipelineInv, PipelineShape
<1>6. Ascending(paths)' /\ StagesOfTheCall'
  BY <1>1, <1>2 DEF PipelineInv, Ascending, StagesOfTheCall
<1>7. ThreadsFollowBatch'
  <2> SUFFICES ASSUME NEW f \in Processing'
               PROVE  \E k \in start + gathered + 1 .. start + batch' : paths[k] = f
    BY <1>1 DEF ThreadsFollowBatch
  <2>1. work \in [Numbers -> {"none", "started", "preparing", "chunking", "done"}]
    BY DEF PipelineInv, PipelineShape
  <2>2. f \in Processing \/ (f = paths[start + batch + 1] /\ batch' = batch + 1)
    BY <1>1, <1>4, <2>1 DEF Processing
  <2>3. CASE f \in Processing
    <3>1. PICK k \in start + gathered + 1 .. start + batch : paths[k] = f
      BY <1>1, <2>3 DEF PipelineInv, ThreadsFollowBatch
    <3> QED
      BY <1>1, <1>2, <3>1
  <2>4. CASE f = paths[start + batch + 1] /\ batch' = batch + 1
    BY <1>2, <2>4
  <2> QED
    BY <2>2, <2>3, <2>4
<1>8. DocumentsGathered' /\ PathsExported' /\ ChunksExported'
  BY <1>1, <1>2 DEF PipelineInv, DocumentsGathered, PathsExported, ChunksExported, FirstPaths,
                    DocumentEvents
<1> QED
  BY <1>5, <1>6, <1>7, <1>8 DEF PipelineInv

(* future.get() of the next thread: its document and its two events come    *)
(* after those of the paths before it.                                      *)
LEMMA GatherDocumentStep ==
  ASSUME PipelineInv, GatherDocument
  PROVE  PipelineInv'
<1> USE DEF input, threads
<1> DEFINE n == start + gathered
           f == paths[n + 1]
<1>1. /\ at = "gathering" /\ gathered < batch /\ work[f] = "done"
      /\ telemetry' = telemetry \o DocumentEvents(f) /\ results' = Append(results, f)
      /\ gathered' = gathered + 1
      /\ UNCHANGED <<operation, is_directory, root_dotted, files, settings, at, paths, start,
                     batch, written, work, output, outcome>>
  BY DEF GatherDocument
<1>2. /\ operation = "run" /\ is_directory /\ outcome = "pending"
      /\ start \in Nat /\ batch \in Nat /\ gathered \in Nat /\ paths \in Seq(Numbers)
      /\ start + batch <= Len(paths)
      /\ results \in Seq(Numbers) /\ telemetry \in Seq(Event)
  BY <1>1 DEF PipelineInv, PipelineShape, StagesOfTheCall
<1>3. n \in Nat /\ n + 1 \in 1 .. Len(paths) /\ f \in Numbers /\ Numbers' = Numbers
  BY <1>1, <1>2 DEF Numbers
<1>4. /\ DocumentEvents(f) \in Seq(Event)
      /\ telemetry' \in Seq(Event) /\ results' \in Seq(Numbers)
  <2>1. f \in Nat
    BY <1>3 DEF Numbers
  <2> HIDE DEF f
  <2>2. DocumentEvents(f) \in Seq(Event)
    <3>1. /\ [metric |-> "bytes", file |-> f, value |-> "bytes"] \in Event
          /\ [metric |-> "chunks", file |-> f, value |-> "chunks"] \in Event
      BY <2>1 DEF Event
    <3> QED
      BY <3>1 DEF DocumentEvents
  <2> QED
    BY <1>1, <1>2, <1>3, <2>2, ConcatProperties, AppendProperties
<1>5. PipelineShape'
  <2>1. gathered' \in Nat /\ gathered' <= batch'
    BY <1>1, <1>2
  <2>2. /\ UNCHANGED <<operation, is_directory, files, settings, at, paths, start, batch,
                       written, work, output, outcome>>
        /\ Numbers' = Numbers /\ results' \in Seq(Numbers) /\ telemetry' \in Seq(Event)
    BY <1>1, <1>3, <1>4
  <2> HIDE DEF n, f
  <2> QED
    BY <2>1, <2>2 DEF PipelineInv, PipelineShape
<1>6. Ascending(paths)' /\ StagesOfTheCall'
  BY <1>1, <1>2 DEF PipelineInv, Ascending, StagesOfTheCall
<1>7. ThreadsFollowBatch'
  <2> SUFFICES ASSUME NEW g \in Processing
               PROVE  \E k \in start + gathered' + 1 .. start + batch : paths[k] = g
    BY <1>1, <1>3 DEF ThreadsFollowBatch, Processing
  <2>1. PICK k \in start + gathered + 1 .. start + batch : paths[k] = g
    BY <1>1 DEF PipelineInv, ThreadsFollowBatch
  <2>2. k # n + 1
    BY <1>1, <2>1 DEF Processing
  <2>3. k \in start + gathered' + 1 .. start + batch
    <3>1. gathered' = gathered + 1 /\ n + 1 = start + gathered + 1
      BY <1>1, <1>2
    <3> HIDE DEF n, f
    <3> QED
      BY <1>2, <2>1, <2>2, <3>1
  <2> QED
    BY <2>1, <2>3
<1>8. FirstPaths(n)
  BY <1>1, <1>2 DEF PipelineInv, DocumentsGathered
<1>9. (start + gathered)' = n + 1 /\ n + 1 \in Nat
  BY <1>1, <1>2
<1>10. /\ Len(telemetry) = 2 * n
       /\ \A k \in 1 .. n :
            <<telemetry[2 * k - 1], telemetry[2 * k]>> = DocumentEvents(paths[k])
  BY <1>2 DEF PipelineInv, DocumentsGathered
<1> HIDE DEF n, f
<1>11. f = paths[n + 1]
  BY DEF f
<1>12. Len(results') = n + 1 /\ \A k \in 1 .. n + 1 : results'[k] = paths[k]
  <2>1. /\ Len(Append(results, f)) = n + 1
        /\ \A k \in 1 .. n : Append(results, f)[k] = paths[k]
        /\ Append(results, f)[n + 1] = paths[n + 1]
    BY <1>2, <1>3, <1>8, <1>11, AppendProperties DEF FirstPaths
  <2>2. \A k \in 1 .. n + 1 : k \in 1 .. n \/ k = n + 1
    BY <1>3
  <2> QED
    BY <1>1, <2>1, <2>2
<1>13. /\ Len(telemetry') = 2 * (n + 1)
       /\ \A k \in 1 .. n + 1 :
            <<telemetry'[2 * k - 1], telemetry'[2 * k]>> = DocumentEvents(paths[k])
  <2> DEFINE m == 2 * n
             events == DocumentEvents(f)
  <2>1. m \in Nat /\ Len(telemetry) = m /\ m + 2 = 2 * (n + 1) /\ telemetry \in Seq(Event)
    BY <1>2, <1>3, <1>10
  <2>2. telemetry' = telemetry \o events /\ events \in Seq(Event) /\ Len(events) = 2
    BY <1>1, <1>4 DEF DocumentEvents
  <2> HIDE DEF m, events
  <2>3. /\ Len(telemetry') = m + 2
        /\ \A i \in 1 .. m : telemetry'[i] = telemetry[i]
        /\ telemetry'[m + 1] = events[1] /\ telemetry'[m + 2] = events[2]
    BY <2>1, <2>2, PairRecorded
  <2>4. ASSUME NEW k \in 1 .. n
        PROVE  <<telemetry'[2 * k - 1], telemetry'[2 * k]>> = DocumentEvents(paths[k])
    <3>1. 2 * k - 1 \in 1 .. m /\ 2 * k \in 1 .. m
      BY <1>3 DEF m
    <3> QED
      BY <1>10, <2>3, <3>1
  <2>5. <<telemetry'[2 * (n + 1) - 1], telemetry'[2 * (n + 1)]>> = DocumentEvents(paths[n + 1])
    <3>1. 2 * (n + 1) - 1 = m + 1 /\ 2 * (n + 1) = m + 2
      BY <1>3 DEF m
    <3> QED
      BY <1>11, <2>3, <3>1 DEF events, DocumentEvents
  <2>6. \A k \in 1 .. n + 1 : k \in 1 .. n \/ k = n + 1
    BY <1>3
  <2> QED
    BY <2>1, <2>3, <2>4, <2>5, <2>6
<1>14. DocumentsGathered'
  <2>1. start' + gathered' = n + 1
    BY <1>9
  <2>2. paths' = paths /\ is_directory' /\ outcome' = "pending"
    BY <1>1, <1>2
  <2> QED
    BY <1>12, <1>13, <2>1, <2>2 DEF DocumentsGathered, FirstPaths, DocumentEvents
<1>15. PathsExported' /\ ChunksExported'
  BY <1>1, <1>2 DEF PathsExported, ChunksExported
<1> QED
  BY <1>5, <1>6, <1>7, <1>14, <1>15 DEF PipelineInv

(* futures.clear(): every thread of the batch has been waited for.          *)
LEMMA BatchGatheredStep ==
  ASSUME PipelineInv, BatchGathered
  PROVE  PipelineInv'
<1> USE DEF input, threads, delivered
<1>1. /\ at = "gathering" /\ gathered = batch /\ start' = start + batch
      /\ batch' = 0 /\ gathered' = 0 /\ at' = "launching"
      /\ UNCHANGED <<operation, is_directory, root_dotted, files, settings, paths, work,
                     written, results, output, telemetry, outcome>>
  BY DEF BatchGathered
<1>2. /\ operation = "run" /\ is_directory /\ outcome = "pending"
      /\ start \in Nat /\ batch \in Nat
  BY <1>1 DEF PipelineInv, PipelineShape, StagesOfTheCall
<1>3. (start + gathered)' = start + gathered
  BY <1>1, <1>2
<1>4. Numbers' = Numbers /\ Processing' = Processing /\ Processing = {}
  <2>1. start + gathered + 1 .. start + batch = {}
    BY <1>1, <1>2
  <2> QED
    BY <1>1, <2>1 DEF Numbers, Processing, PipelineInv, ThreadsFollowBatch
<1>5. PipelineShape'
  BY <1>1, <1>2, <1>4 DEF PipelineInv, PipelineShape
<1>6. Ascending(paths)' /\ StagesOfTheCall' /\ ThreadsFollowBatch'
  BY <1>1, <1>2, <1>4 DEF PipelineInv, Ascending, StagesOfTheCall, ThreadsFollowBatch
<1>7. DocumentsGathered'
  <2> DEFINE n == start + gathered
  <2>1. n' = n
    BY <1>3
  <2>2. FirstPaths(n)
    BY <1>1, <1>2 DEF PipelineInv, DocumentsGathered
  <2>3. /\ Len(telemetry) = 2 * n
        /\ \A k \in 1 .. n :
             <<telemetry[2 * k - 1], telemetry[2 * k]>> = DocumentEvents(paths[k])
    BY <1>2 DEF PipelineInv, DocumentsGathered
  <2> HIDE DEF n
  <2>4. n = start + gathered
    BY DEF n
  <2> QED
    BY <1>1, <1>2, <1>3, <2>2, <2>3, <2>4 DEF DocumentsGathered, FirstPaths, DocumentEvents
<1>8. PathsExported' /\ ChunksExported'
  BY <1>1, <1>2 DEF PathsExported, ChunksExported
<1> QED
  BY <1>5, <1>6, <1>7, <1>8 DEF PipelineInv

(* Sorted or not, the documents are those of the paths in their order.      *)
LEMMA ReturnDocumentsStep ==
  ASSUME PipelineInv, ReturnDocuments
  PROVE  PipelineInv'
<1> USE DEF input, progress, threads
<1>1. /\ at = "launching" /\ start = Len(paths) /\ at' = "returned" /\ outcome' = "ok"
      /\ results' = (IF settings.ordered THEN SortedByPath(results) ELSE results)
      /\ UNCHANGED <<operation, is_directory, root_dotted, files, settings, paths, start,
                     batch, gathered, written, work, output, telemetry>>
  BY DEF ReturnDocuments, Return
<1>2. /\ operation = "run" /\ is_directory /\ gathered = 0
      /\ start \in Nat /\ batch \in Nat /\ start + batch <= Len(paths)
      /\ paths \in Seq(Numbers) /\ results \in Seq(Numbers) /\ Ascending(paths)
  BY <1>1 DEF PipelineInv, PipelineShape, StagesOfTheCall
<1>3. batch = 0
  BY <1>1, <1>2
<1>4. results = paths
  <2>1. FirstPaths(Len(paths))
    <3>1. start + gathered = Len(paths)
      BY <1>1, <1>2
    <3>2. FirstPaths(start + gathered)
      BY <1>1, <1>2 DEF PipelineInv, DocumentsGathered
    <3> QED
      BY <3>1, <3>2
  <2> QED
    BY <1>2, <2>1 DEF FirstPaths
<1>5. results' = paths
  <2>1. paths \in Seq(Nat)
    <3>1. Numbers \subseteq Nat
      BY DEF Numbers
    <3>2. Len(paths) \in Nat /\ paths \in [1 .. Len(paths) -> Numbers]
      BY <1>2
    <3>3. paths \in [1 .. Len(paths) -> Nat]
      BY <3>1, <3>2
    <3> QED
      BY <3>2, <3>3
  <2>2. SortedByPath(paths) = paths
    BY <1>2, <2>1, SortedOfAscending
  <2> QED
    BY <1>1, <1>4, <2>2
<1>6. Numbers' = Numbers /\ Processing' = Processing /\ Processing = {}
  <2>1. start + gathered + 1 .. start + batch = {}
    BY <1>2, <1>3
  <2> QED
    BY <1>1, <2>1 DEF Numbers, Processing, PipelineInv, ThreadsFollowBatch
<1>7. PipelineShape'
  BY <1>1, <1>2, <1>5, <1>6 DEF PipelineInv, PipelineShape
<1>8. Ascending(paths)' /\ StagesOfTheCall' /\ ThreadsFollowBatch'
  BY <1>1, <1>2, <1>6 DEF PipelineInv, Ascending, StagesOfTheCall, ThreadsFollowBatch
<1>9. DocumentsGathered' /\ PathsExported' /\ ChunksExported'
  BY <1>1, <1>2, <1>5 DEF PipelineInv, DocumentsGathered, PathsExported, ChunksExported,
                          DocumentEvents
<1> QED
  BY <1>7, <1>8, <1>9 DEF PipelineInv

(* The cancelled call drops its documents once the batch's threads ended.   *)
LEMMA UnwindStep ==
  ASSUME PipelineInv, Unwind
  PROVE  PipelineInv'
<1> USE DEF input, progress, threads
<1>1. /\ at = "unwinding" /\ at' = "returned" /\ outcome' = "cancelled" /\ results' = <<>>
      /\ \A k \in start + 1 .. start + batch : work[paths[k]] = "done"
      /\ UNCHANGED <<operation, is_directory, root_dotted, files, settings, paths, start,
                     batch, gathered, written, work, output, telemetry>>
  BY DEF Unwind, Return
<1>2. operation = "run" /\ gathered = 0 /\ start \in Nat
  BY <1>1 DEF PipelineInv, PipelineShape, StagesOfTheCall
<1>3. Numbers' = Numbers /\ Processing' = Processing /\ Processing = {}
  <2>1. start + gathered + 1 = start + 1
    BY <1>2
  <2> QED
    BY <1>1, <2>1 DEF Numbers, Processing, PipelineInv, ThreadsFollowBatch
<1>4. PipelineShape'
  BY <1>1, <1>3 DEF PipelineInv, PipelineShape
<1>5. Ascending(paths)' /\ StagesOfTheCall' /\ ThreadsFollowBatch'
  BY <1>1, <1>3 DEF PipelineInv, Ascending, StagesOfTheCall, ThreadsFollowBatch
<1>6. DocumentsGathered' /\ PathsExported' /\ ChunksExported'
  BY <1>1, <1>2 DEF PipelineInv, DocumentsGathered, PathsExported, ChunksExported,
                    DocumentEvents
<1> QED
  BY <1>4, <1>5, <1>6 DEF PipelineInv

(* One more chunk written, after all that are.                              *)
LEMMA ExportChunkStep ==
  ASSUME PipelineInv, ExportChunk
  PROVE  PipelineInv'
<1> USE DEF input, threads
<1> DEFINE f == paths[start + 1]
           w == [file |-> f, chunk |-> written + 1]
<1>1. /\ at = "exporting" /\ written < files[f].chunks
      /\ output' = Append(output, w) /\ written' = written + 1
      /\ UNCHANGED <<operation, is_directory, root_dotted, files, settings, at, paths, start,
                     batch, gathered, work, results, telemetry, outcome>>
  BY DEF ExportChunk
<1>2. /\ operation = "export" /\ start < Len(paths) /\ outcome = "pending"
      /\ start \in Nat /\ written \in Nat /\ paths \in Seq(Numbers) /\ output \in Seq(Written)
      /\ files \in Seq(File) /\ Ascending(paths)
  BY <1>1 DEF PipelineInv, PipelineShape, StagesOfTheCall
<1>3. /\ start + 1 \in 1 .. Len(paths) /\ f \in Numbers /\ f \in Nat /\ Numbers' = Numbers
      /\ written + 1 <= files[f].chunks /\ Processing' = Processing
  <2>1. start + 1 \in 1 .. Len(paths) /\ f \in Numbers
    BY <1>2
  <2>2. f \in 1 .. Len(files) /\ Numbers' = Numbers /\ Processing' = Processing
    BY <1>1, <2>1 DEF Numbers, Processing
  <2> HIDE DEF f
  <2>3. files[f] \in File
    BY <1>2, <2>2
  <2>4. files[f].chunks \in Nat
    BY <2>3 DEF File
  <2> QED
    BY <1>1, <1>2, <2>1, <2>2, <2>4
<1>4. w \in Written /\ w.file = f /\ w.chunk = written + 1
  BY <1>2, <1>3 DEF Written
<1>5. /\ Len(output') = Len(output) + 1 /\ output'[Len(output) + 1] = w
      /\ \A k \in 1 .. Len(output) : output'[k] = output[k]
      /\ output' \in Seq(Written) /\ Len(output) \in Nat
  BY <1>1, <1>2, <1>4, AppendProperties
<1>6. \A k \in 1 .. Len(output') : k \in 1 .. Len(output) \/ k = Len(output) + 1
  BY <1>5
<1>7. f = paths[start + 1] /\ w = [file |-> f, chunk |-> written + 1]
  OBVIOUS
<1>8. PICK n \in Nat, p \in Nat : n = start + 1 /\ p = written + 1
  BY <1>2
<1> HIDE DEF f, w
<1>9. \A i \in Nat, c \in Nat : Reached(i, c)' <=> Reached(i, c) \/ (i = n /\ c = p)
  BY <1>8, <1>1, <1>2, <1>3, <1>7 DEF Reached
<1>10. IsWritten(paths[n], p)'
  <2>1. Len(output) + 1 \in 1 .. Len(output') /\ output'[Len(output) + 1] = w
    BY <1>5
  <2>2. w = [file |-> paths'[n], chunk |-> p]
    BY <1>8, <1>1, <1>7
  <2> QED
    BY <2>1, <2>2 DEF IsWritten
<1>11. ASSUME NEW i \in Nat, NEW c \in Nat, Reached(i, c)' PROVE IsWritten(paths[i], c)'
  <2>1. CASE Reached(i, c)
    <3>1. IsWritten(paths[i], c) /\ paths' = paths
      BY <1>1, <1>2, <2>1 DEF PipelineInv, ChunksExported
    <3> QED
      BY <1>5, <3>1 DEF IsWritten
  <2>2. CASE i = n /\ c = p
    BY <1>10, <2>2
  <2> QED
    BY <1>9, <1>11, <2>1, <2>2
<1>12. ASSUME NEW k \in 1 .. Len(output')
       PROVE  \E i \in Nat, c \in Nat :
                Reached(i, c)' /\ output'[k] = [file |-> paths'[i], chunk |-> c]
  <2>1. CASE k \in 1 .. Len(output)
    <3>1. PICK i \in Nat, c \in Nat :
            Reached(i, c) /\ output[k] = [file |-> paths[i], chunk |-> c]
      BY <1>2, <2>1 DEF PipelineInv, ChunksExported
    <3> QED
      BY <1>1, <1>5, <1>9, <2>1, <3>1
  <2>2. CASE k = Len(output) + 1
    <3>1. Reached(n, p)'
      BY <1>9
    <3>2. output'[k] = [file |-> paths'[n], chunk |-> p]
      BY <1>8, <1>1, <1>5, <1>7, <2>2
    <3> QED
      BY <3>1, <3>2
  <2> QED
    BY <1>6, <2>1, <2>2
<1>13. ASSUME NEW k \in 1 .. Len(output) PROVE Before(output[k], w)
  <2>1. PICK i \in Nat, c \in Nat :
          Reached(i, c) /\ output[k] = [file |-> paths[i], chunk |-> c]
    BY <1>2 DEF PipelineInv, ChunksExported
  <2>2. output[k].file = paths[i] /\ output[k].chunk = c
    BY <2>1
  <2>3. CASE i <= start
    <3>1. i \in 1 .. Len(paths) /\ i < start + 1
      BY <1>2, <2>1, <2>3 DEF Reached
    <3>2. paths[i] < paths[start + 1]
      BY <1>2, <1>3, <3>1 DEF Ascending
    <3> QED
      BY <1>4, <1>7, <2>2, <3>2 DEF Before
  <2>4. CASE i = start + 1 /\ c <= written
    BY <1>2, <1>4, <1>7, <2>2, <2>4 DEF Before
  <2> QED
    BY <2>1, <2>3, <2>4 DEF Reached
<1>14. \A j, k \in 1 .. Len(output') : j < k => Before(output'[j], output'[k])
  <2> SUFFICES ASSUME NEW j \in 1 .. Len(output'), NEW k \in 1 .. Len(output'), j < k
               PROVE  Before(output'[j], output'[k])
    OBVIOUS
  <2>1. j \in 1 .. Len(output) /\ output'[j] = output[j]
    BY <1>5
  <2>2. CASE k \in 1 .. Len(output)
    BY <1>2, <1>5, <2>1, <2>2 DEF PipelineInv, ChunksExported
  <2>3. CASE k = Len(output) + 1
    BY <1>5, <1>13, <2>1, <2>3
  <2> QED
    BY <1>6, <2>2, <2>3
<1>15. ChunksExported'
  BY <1>1, <1>11, <1>12, <1>14 DEF ChunksExported, Before
<1>16. PipelineShape'
  <2>1. written' \in Nat /\ output' \in Seq(Written)
    BY <1>1, <1>2, <1>5
  <2> QED
    BY <1>1, <1>3, <2>1 DEF PipelineInv, PipelineShape
<1>17. Ascending(paths)' /\ StagesOfTheCall' /\ ThreadsFollowBatch' /\ PathsExported'
  BY <1>1, <1>3 DEF PipelineInv, Ascending, StagesOfTheCall, ThreadsFollowBatch, PathsExported
<1>18. DocumentsGathered'
  BY <1>1, <1>2 DEF DocumentsGathered
<1> QED
  BY <1>15, <1>16, <1>17, <1>18 DEF PipelineInv

(* The file is whole: the next one begins.                                  *)
LEMMA ExportSucceedsStep ==
  ASSUME PipelineInv, ExportSucceeds
  PROVE  PipelineInv'
<1> USE DEF input, threads
<1> DEFINE f == paths[start + 1]
           events == <<[metric |-> "duration", file |-> f, value |-> "milliseconds"],
                       [metric |-> "bytes", file |-> f, value |-> "bytes"]>>
<1>1. /\ at = "exporting" /\ at' = "next" /\ start' = start + 1
      /\ written = files[f].chunks /\ written' = 0
      /\ telemetry' = telemetry \/ telemetry' = telemetry \o events
      /\ UNCHANGED <<operation, is_directory, root_dotted, files, settings, paths, batch,
                     gathered, work, results, output, outcome>>
  BY DEF ExportSucceeds
<1>2. /\ operation = "export" /\ batch = 0 /\ start < Len(paths) /\ outcome = "pending"
      /\ start \in Nat /\ gathered = 0 /\ paths \in Seq(Numbers)
      /\ telemetry \in Seq(Event)
  BY <1>1 DEF PipelineInv, PipelineShape, StagesOfTheCall
<1>3. start + 1 \in 1 .. Len(paths) /\ f \in Numbers /\ Numbers' = Numbers
  BY <1>1, <1>2 DEF Numbers
<1>4. events \in Seq(Event) /\ Len(events) = 2 /\ \A k \in 1 .. 2 : events[k].file = f
  <2>1. f \in Nat
    BY <1>3 DEF Numbers
  <2> HIDE DEF f
  <2>2. /\ [metric |-> "duration", file |-> f, value |-> "milliseconds"] \in Event
        /\ [metric |-> "bytes", file |-> f, value |-> "bytes"] \in Event
    BY <2>1 DEF Event
  <2> QED
    BY <2>2
<1>5. \A k \in 1 .. Len(telemetry) : \E i \in 1 .. start : paths[i] = telemetry[k].file
  BY <1>2 DEF PipelineInv, PathsExported
<1>6. f = paths[start + 1]
  OBVIOUS
<1> HIDE DEF events, f
<1>7. telemetry' \in Seq(Event)
  <2>1. telemetry \o events \in Seq(Event)
    BY <1>2, <1>4, ConcatProperties
  <2> QED
    BY <1>1, <1>2, <2>1
<1>8. PipelineShape'
  BY <1>1, <1>2, <1>3, <1>7 DEF PipelineInv, PipelineShape
<1>9. Processing' = {}
  BY <1>1, <1>3 DEF Processing, PipelineInv, ThreadsFollowBatch
<1>10. Ascending(paths)' /\ StagesOfTheCall' /\ ThreadsFollowBatch'
  BY <1>1, <1>2, <1>9 DEF PipelineInv, Ascending, StagesOfTheCall, ThreadsFollowBatch
<1>11. ChunksExported'
  <2>1. \A i \in Nat, c \in Nat : Reached(i, c)' <=> Reached(i, c)
    BY <1>1, <1>2, <1>3, <1>6 DEF Reached
  <2>2. \A g, c : IsWritten(g, c)' <=> IsWritten(g, c)
    BY <1>1 DEF IsWritten
  <2>3. paths' = paths /\ output' = output /\ written' = 0 /\ operation' = "export"
    BY <1>1, <1>2
  <2>4. /\ \A j, k \in 1 .. Len(output) : j < k => Before(output[j], output[k])
        /\ \A k \in 1 .. Len(output) : \E i \in Nat, c \in Nat :
             Reached(i, c) /\ output[k] = [file |-> paths[i], chunk |-> c]
        /\ \A i \in Nat, c \in Nat : Reached(i, c) => IsWritten(paths[i], c)
    BY <1>2 DEF PipelineInv, ChunksExported
  <2>5. \A i \in Nat, c \in Nat : Reached(i, c)' => IsWritten(paths[i], c)'
    BY <2>1, <2>2, <2>3, <2>4 DEF IsWritten
  <2> QED
    BY <2>1, <2>3, <2>4, <2>5 DEF ChunksExported, Before
<1>12. ASSUME NEW k \in 1 .. Len(telemetry')
       PROVE  \E i \in 1 .. start + 1 : paths[i] = telemetry'[k].file
  <2>1. CASE k \in 1 .. Len(telemetry)
    <3>1. telemetry'[k] = telemetry[k]
      BY <1>1, <1>2, <1>4, <2>1
    <3>2. PICK i \in 1 .. start : paths[i] = telemetry[k].file
      BY <1>5, <2>1
    <3> QED
      BY <1>2, <3>1, <3>2
  <2>2. CASE k \notin 1 .. Len(telemetry)
    <3>1. telemetry'[k] = events[1] \/ telemetry'[k] = events[2]
      <4>1. telemetry' = telemetry \o events /\ Len(telemetry) \in Nat
        BY <1>1, <1>2, <2>2
      <4>2. /\ Len(telemetry') = Len(telemetry) + 2
            /\ telemetry'[Len(telemetry) + 1] = events[1]
            /\ telemetry'[Len(telemetry) + 2] = events[2]
        BY <1>2, <1>4, <4>1, PairRecorded
      <4>3. k = Len(telemetry) + 1 \/ k = Len(telemetry) + 2
        BY <2>2, <4>1, <4>2
      <4> QED
        BY <4>2, <4>3
    <3>2. telemetry'[k].file = f
      BY <1>4, <3>1
    <3> QED
      BY <1>2, <1>6, <3>2
  <2> QED
    BY <2>1, <2>2
<1>13. PathsExported' /\ DocumentsGathered'
  BY <1>1, <1>2, <1>12 DEF PathsExported, DocumentsGathered
<1> QED
  BY <1>8, <1>10, <1>11, <1>13 DEF PipelineInv

-----------------------------------------------------------------------------
(* Every step of the call, of a thread or of the caller's token.            *)
LEMMA PipelineStep ==
  ASSUME PipelineInv, [PipelineNext]_pipeline_vars
  PROVE  PipelineInv'
<1>1. ASSUME Caller PROVE PipelineInv'
  <2>1. CASE RefuseConfiguration \/ NextPath \/ OpenPath \/ ExportFails \/ ExportDone
             \/ BatchLaunched
    <3>1. UNCHANGED <<input, progress, work, delivered>>
      BY <2>1 DEF RefuseConfiguration, NextPath, OpenPath, ExportFails, ExportDone,
                  BatchLaunched, threads, delivered, progress, input
    <3> QED
      BY <2>1, <3>1, CallerMoves
  <2>2. CASE TakeSingleFile
    BY <2>2, TakeSingleFileStep
  <2>3. CASE CollectPaths
    BY <2>3, CollectPathsStep
  <2>4. CASE ReturnSingle
    BY <2>4, ReturnSingleStep
  <2>5. CASE LaunchFile
    BY <2>5, LaunchFileStep
  <2>6. CASE GatherDocument
    BY <2>6, GatherDocumentStep
  <2>7. CASE BatchGathered
    BY <2>7, BatchGatheredStep
  <2>8. CASE ReturnDocuments
    BY <2>8, ReturnDocumentsStep
  <2>9. CASE Unwind
    BY <2>9, UnwindStep
  <2>10. CASE ExportChunk
    BY <2>10, ExportChunkStep
  <2>11. CASE ExportSucceeds
    BY <2>11, ExportSucceedsStep
  <2> QED
    BY <1>1, <2>1, <2>2, <2>3, <2>4, <2>5, <2>6, <2>7, <2>8, <2>9, <2>10, <2>11
    DEF Caller, Run, ExportStreaming
<1>2. ASSUME FileThread PROVE PipelineInv'
  BY <1>2, ProcessFileStep DEF FileThread
<1>3. ASSUME TokenChanges \/ UNCHANGED pipeline_vars PROVE PipelineInv'
  <2>1. UNCHANGED <<input, progress, work, delivered>> /\ UNCHANGED <<at, outcome>>
    BY <1>3 DEF TokenChanges, pipeline_vars, threads, delivered, progress, input
  <2> QED
    BY <2>1, CallerMoves
<1> QED
  BY <1>1, <1>2, <1>3 DEF PipelineNext

(* The inductive invariant holds in every reachable state of either method. *)
THEOREM PipelineInvariant == PipelineSpec => []PipelineInv
<1>1. PipelineInit => PipelineInv
  BY PipelineInitially
<1>2. PipelineInv /\ [PipelineNext]_pipeline_vars => PipelineInv'
  BY PipelineStep
<1> QED
  BY <1>1, <1>2, PTL DEF PipelineSpec

(* The files in work are no more than the batch, which never exceeds the    *)
(* workers; when the call returns there are none.                           *)
THEOREM NoThreadOutlivesTheCall == PipelineSpec => []ThreadsStayInTheCall
<1>1. PipelineInv => ThreadsStayInTheCall
  <2> SUFFICES ASSUME PipelineInv PROVE ThreadsStayInTheCall
    OBVIOUS
  <2>1. at = "returned" => Processing = {}
    BY DEF PipelineInv, ThreadsFollowBatch
  <2>2. settings.workers \in Nat \ {0} /\ start \in Nat /\ batch \in Nat /\ gathered \in Nat
        /\ batch <= settings.workers
    BY DEF PipelineInv, PipelineShape
  <2>3. CASE at = "single"
    <3>1. Processing \subseteq {1}
      BY <2>3 DEF PipelineInv, ThreadsFollowBatch
    <3>2. IsFiniteSet({1}) /\ Cardinality({1}) = 1
      BY FS_Singleton
    <3>3. Cardinality(Processing) <= 1 /\ Cardinality(Processing) \in Nat
      BY <3>1, <3>2, FS_Subset, FS_CardinalityType
    <3> QED
      BY <2>1, <2>2, <3>3 DEF ThreadsStayInTheCall
  <2>4. CASE at # "single"
    <3> DEFINE I == start + 1 .. start + batch
               image == {paths[k] : k \in I}
               h == [k \in I |-> paths[k]]
    <3>1. IsFiniteSet(I) /\ Cardinality(I) = batch
      <4>1. start + 1 \in Int /\ start + batch \in Int
        BY <2>2
      <4>2. IsFiniteSet(I)
            /\ Cardinality(I) = IF start + 1 > start + batch THEN 0
                                ELSE (start + batch) - (start + 1) + 1
        BY <4>1, FS_Interval
      <4> HIDE DEF I
      <4> QED
        BY <2>2, <4>2
    <3>2. h \in Surjection(I, image)
      BY DEF Surjection
    <3>3. Processing \in SUBSET image
      BY <2>2, <2>4 DEF PipelineInv, ThreadsFollowBatch
    <3> HIDE DEF I, image, h
    <3>4. IsFiniteSet(image) /\ Cardinality(image) <= batch
      BY <3>1, <3>2, FS_Surjection
    <3>5. IsFiniteSet(Processing) /\ Cardinality(Processing) <= Cardinality(image)
      BY <3>3, <3>4, FS_Subset
    <3>6. Cardinality(Processing) \in Nat /\ Cardinality(image) \in Nat
      BY <3>4, <3>5, FS_CardinalityType
    <3> QED
      BY <2>1, <2>2, <3>4, <3>5, <3>6 DEF ThreadsStayInTheCall
  <2> QED
    BY <2>3, <2>4
<1> QED
  BY <1>1, PipelineInvariant, PTL

(* The first n paths, as a sequence.                                        *)
LEMMA FirstPathsAreAPrefix ==
  ASSUME PipelineInv, NEW n \in 0 .. Len(paths), FirstPaths(n)
  PROVE  results = SubSeq(paths, 1, n)
<1>1. paths \in Seq(Numbers) /\ results \in Seq(Numbers)
  BY DEF PipelineInv, PipelineShape
<1>2. /\ SubSeq(paths, 1, n) \in Seq(Numbers) /\ Len(SubSeq(paths, 1, n)) = n
      /\ \A k \in 1 .. n : SubSeq(paths, 1, n)[k] = paths[k]
  BY <1>1
<1>3. Len(results) = n /\ \A k \in 1 .. n : results[k] = paths[k]
  BY DEF FirstPaths
<1> QED
  BY <1>1, <1>2, <1>3

(* However the threads interleave, the documents gathered are those of the  *)
(* first paths, and the sort at the end moves nothing.                      *)
THEOREM DocumentsComeInPathOrder == PipelineSpec => []DocumentsFollowPaths
<1>1. PipelineInv => DocumentsFollowPaths
  <2> SUFFICES ASSUME PipelineInv, operation = "run" PROVE DocumentsFollowPaths
    BY DEF DocumentsFollowPaths
  <2>1. at \in {"launching", "gathering"} => results = SubSeq(paths, 1, start + gathered)
    <3>1. start + gathered \in 0 .. Len(paths)
      BY DEF PipelineInv, PipelineShape
    <3> QED
      BY <3>1, FirstPathsAreAPrefix DEF PipelineInv, DocumentsGathered
  <2> QED
    BY <2>1 DEF PipelineInv, DocumentsGathered, DocumentsFollowPaths
<1> QED
  BY <1>1, PipelineInvariant, PTL

(* export_streaming has written the chunks reached: they end in the file it *)
(* stopped in, perhaps in its middle, and begin with all before it.         *)
(* Code: lines 308-398 of src/directory_pipeline.cpp.                       *)
THEOREM ExportWritesAPrefix == PipelineSpec => []ExportIsPrefix
<1>1. PipelineInv => ExportIsPrefix
  <2> SUFFICES ASSUME PipelineInv, operation = "export" PROVE ExportIsPrefix
    BY DEF ExportIsPrefix
  <2>1. /\ paths \in Seq(Numbers) /\ start \in Nat /\ written \in Nat /\ Ascending(paths)
        /\ files \in Seq(File) /\ Len(paths) \in Nat /\ start <= Len(paths)
    BY DEF PipelineInv, PipelineShape
  <2>2. ASSUME NEW i \in 1 .. Len(paths)
        PROVE  paths[i] \in Nat /\ files[paths[i]].chunks \in Nat
    <3>1. paths[i] \in 1 .. Len(files)
      BY <2>1 DEF Numbers
    <3>2. files[paths[i]] \in File
      BY <2>1, <3>1
    <3> QED
      BY <3>1, <3>2 DEF File
  <2>3. \A w : w \in ChunksToWrite <=>
          \E i \in 1 .. Len(paths) : \E c \in 1 .. files[paths[i]].chunks :
            w = [file |-> paths[i], chunk |-> c]
    BY DEF ChunksToWrite, ChunksOf
  <2>4. \A j, k \in 1 .. Len(output) : j < k => Before(output[j], output[k])
    BY DEF PipelineInv, ChunksExported
  <2>5. ASSUME NEW k \in 1 .. Len(output)
        PROVE  /\ output[k] \in ChunksToWrite
               /\ \A w \in ChunksToWrite : Before(w, output[k]) => IsWritten(w.file, w.chunk)
    <3>1. PICK i \in Nat, c \in Nat :
            Reached(i, c) /\ output[k] = [file |-> paths[i], chunk |-> c]
      BY DEF PipelineInv, ChunksExported
    <3>2. output[k] \in ChunksToWrite
      BY <2>3, <3>1 DEF Reached
    <3>3. ASSUME NEW w \in ChunksToWrite, Before(w, output[k])
          PROVE  IsWritten(w.file, w.chunk)
      <4>1. PICK h \in 1 .. Len(paths) : \E d \in 1 .. files[paths[h]].chunks :
              w = [file |-> paths[h], chunk |-> d]
        BY <2>3
      <4>2. PICK d \in 1 .. files[paths[h]].chunks : w = [file |-> paths[h], chunk |-> d]
        BY <4>1
      <4>3. paths[h] < paths[i] \/ (paths[h] = paths[i] /\ d < c)
        BY <3>1, <3>3, <4>2 DEF Before
      <4>4. i \in 1 .. Len(paths) /\ d \in Nat /\ h \in Nat
        BY <2>2, <3>1, <4>2 DEF Reached
      <4>5. h < i \/ (h = i /\ d < c)
        <5>1. i < h => paths[i] < paths[h]
          BY <2>1, <4>4 DEF Ascending
        <5>2. h < i => paths[h] < paths[i]
          BY <2>1, <4>4 DEF Ascending
        <5>3. paths[h] \in Nat /\ paths[i] \in Nat
          BY <2>2, <4>4
        <5> QED
          BY <4>3, <4>4, <5>1, <5>2, <5>3
      <4>6. Reached(h, d)
        BY <2>1, <3>1, <4>2, <4>4, <4>5 DEF Reached
      <4> QED
        BY <4>2, <4>4, <4>6 DEF PipelineInv, ChunksExported
    <3> QED
      BY <3>2, <3>3
  <2>6. ASSUME outcome = "ok", NEW w \in ChunksToWrite
        PROVE  IsWritten(w.file, w.chunk)
    <3>1. PICK h \in 1 .. Len(paths) : \E d \in 1 .. files[paths[h]].chunks :
            w = [file |-> paths[h], chunk |-> d]
      BY <2>3
    <3>2. PICK d \in 1 .. files[paths[h]].chunks : w = [file |-> paths[h], chunk |-> d]
      BY <3>1
    <3>3. start = Len(paths) /\ h \in Nat /\ d \in Nat
      BY <2>2, <2>6 DEF PipelineInv, PathsExported
    <3>4. Reached(h, d)
      BY <3>2, <3>3 DEF Reached
    <3> QED
      BY <3>2, <3>3, <3>4 DEF PipelineInv, ChunksExported
  <2>7. ASSUME NEW k \in 1 .. Len(telemetry)
        PROVE  LET f == telemetry[k].file
               IN f \in Numbers /\ \A c \in 1 .. files[f].chunks : IsWritten(f, c)
    <3>1. PICK i \in 1 .. start : paths[i] = telemetry[k].file
      BY DEF PipelineInv, PathsExported
    <3>2. i \in 1 .. Len(paths) /\ i \in Nat /\ i <= start
      BY <2>1
    <3>3. ASSUME NEW c \in 1 .. files[paths[i]].chunks PROVE IsWritten(paths[i], c)
      <4>1. c \in Nat /\ Reached(i, c)
        BY <2>2, <3>2 DEF Reached
      <4> QED
        BY <3>2, <4>1 DEF PipelineInv, ChunksExported
    <3> QED
      BY <2>1, <3>1, <3>2, <3>3
  <2> QED
    BY <2>4, <2>5, <2>6, <2>7 DEF ExportIsPrefix
<1> QED
  BY <1>1, PipelineInvariant, PTL

(* With a set token no thread comes past its first test, and the export     *)
(* does not come to open a file.                                            *)
NothingGoesOn ==
  /\ document \in [Numbers -> Document]
  /\ \A f \in Numbers : work[f] \notin {"preparing", "chunking"} /\ ~ document[f].chunks
  /\ at \notin {"opening", "exporting"}
  /\ operation = "export" => output = <<>>

(* A step with the token set goes on with nothing: a thread that is at its  *)
(* first test leaves there, and no other has come further.                  *)
LEMMA NothingGoesOnStep ==
  ASSUME PipelineInv, NothingGoesOn, cancel_token, [PipelineNext]_pipeline_vars
  PROVE  NothingGoesOn'
<1>1. work \in [Numbers -> {"none", "started", "preparing", "chunking", "done"}]
  BY DEF PipelineInv, PipelineShape
<1> DEFINE Idle(w) == \A f \in Numbers : w[f] \notin {"preparing", "chunking"}
<1>2. ASSUME UNCHANGED <<files, operation, document>>, Idle(work'),
             at' \notin {"opening", "exporting"},
             output' = output
      PROVE  NothingGoesOn'
  BY <1>2 DEF NothingGoesOn, Numbers
<1>3. ASSUME NEW k, work' = [work EXCEPT ![k] = "started"]
      PROVE  Idle(work')
  BY <1>1, <1>3 DEF NothingGoesOn
<1>4. Idle(work)
  BY DEF NothingGoesOn
<1> HIDE DEF Idle
<1>5. ASSUME NEW f \in Numbers, ProcessFile(f)
      PROVE  NothingGoesOn'
  <2>1. StartFile(f)
    BY <1>5 DEF NothingGoesOn, ProcessFile, PrepareFile, ChunkFile
  <2>2. /\ work' = [work EXCEPT ![f] = "done"]
        /\ document' = [document EXCEPT ![f] = Failing(f, "cancelled")]
        /\ UNCHANGED <<files, operation, at, output>>
    BY <1>5, <2>1 DEF StartFile, Finish, ProcessFile, input, delivered
  <2>3. Failing(f, "cancelled") \in Document /\ ~ Failing(f, "cancelled").chunks
    <3>1. document[f] \in Document /\ ~ document[f].chunks
      BY DEF NothingGoesOn
    <3> QED
      BY <3>1 DEF Failing, Document, Errors
  <2> HIDE DEF Numbers
  <2>4. document' \in [Numbers -> Document] /\ \A g \in Numbers : ~ document'[g].chunks
    BY <2>2, <2>3 DEF NothingGoesOn
  <2>5. \A g \in Numbers : work'[g] \notin {"preparing", "chunking"}
    BY <1>1, <2>2 DEF NothingGoesOn
  <2>6. Numbers' = Numbers
    BY <2>2 DEF Numbers
  <2> QED
    BY <2>2, <2>4, <2>5, <2>6 DEF NothingGoesOn
<1>6. CASE RefuseConfiguration \/ CollectPaths \/ BatchLaunched \/ BatchGathered \/ ExportDone
  BY <1>2, <1>4, <1>6
     DEF RefuseConfiguration, CollectPaths, BatchLaunched, BatchGathered, ExportDone, Return,
         input, threads, delivered
<1>7. CASE TakeSingleFile
  <2>1. Idle(work')
    BY <1>3, <1>4, <1>7 DEF TakeSingleFile
  <2> QED
    BY <1>2, <1>7, <2>1 DEF TakeSingleFile, input, delivered
<1>8. CASE LaunchFile
  <2>1. work' = work /\ at' = "unwinding"
    BY <1>8 DEF LaunchFile
  <2> QED
    BY <1>2, <1>4, <1>8, <2>1 DEF LaunchFile, input, delivered
<1>9. CASE ReturnSingle \/ GatherDocument \/ ReturnDocuments \/ Unwind
  <2>1. operation = "run"
    BY <1>9 DEF PipelineInv, StagesOfTheCall, ReturnSingle, GatherDocument, ReturnDocuments,
                Unwind
  <2> QED
    BY <1>2, <1>4, <1>9, <2>1
       DEF NothingGoesOn, ReturnSingle, GatherDocument, ReturnDocuments, Unwind, Return,
           input, threads, delivered
<1>10. CASE NextPath
  BY <1>2, <1>4, <1>10 DEF NextPath, Return, input, threads, delivered
<1>11. CASE OpenPath \/ ExportChunk \/ ExportFails \/ ExportSucceeds
  BY <1>11 DEF NothingGoesOn, OpenPath, ExportChunk, ExportFails, ExportSucceeds
<1>12. CASE TokenChanges
  BY <1>2, <1>4, <1>12 DEF NothingGoesOn, TokenChanges, input, threads, delivered
<1>13. CASE UNCHANGED pipeline_vars
  BY <1>2, <1>4, <1>13 DEF NothingGoesOn, pipeline_vars
<1> QED
  BY <1>5, <1>6, <1>7, <1>8, <1>9, <1>10, <1>11, <1>12, <1>13
     DEF PipelineNext, Caller, Run, ExportStreaming, FileThread

(* A token that is set before the call and stays set: no thread chunks, and *)
(* no chunk is written, whatever the threads were doing.                     *)
(* Code: lines 42, 238 and 310 of src/directory_pipeline.cpp.               *)
THEOREM SetTokenStops == PipelineSpec => SetTokenStopsEverything
<1> DEFINE Goal == /\ \A f \in Numbers : ~ document[f].chunks
                   /\ operation = "export" => output = <<>>
<1>1. PipelineInit => NothingGoesOn
  BY DEF PipelineInit, NothingGoesOn, Blank, Document
<1>2. PipelineInv /\ NothingGoesOn /\ cancel_token /\ [PipelineNext]_pipeline_vars
        => NothingGoesOn'
  BY NothingGoesOnStep
<1>3. NothingGoesOn => Goal
  BY DEF NothingGoesOn
<1>4. PipelineSpec /\ []cancel_token => []Goal
  BY <1>1, <1>2, <1>3, PipelineInvariant, PTL DEF PipelineSpec
<1> QED
  BY <1>4, PTL DEF SetTokenStopsEverything

=============================================================================
