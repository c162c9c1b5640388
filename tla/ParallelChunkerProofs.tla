----------------------- MODULE ParallelChunkerProofs -----------------------
(***************************************************************************)
(* What chunk_buffer_parallel guarantees for every input, every pair of    *)
(* sizes, every number of threads and every interleaving of the workers:   *)
(* the slices partition the plan, no worker outlives the call, and the     *)
(* call is one that ChunkingContract allows.                               *)
(***************************************************************************)
EXTENDS ParallelChunker, OperatorProofs

-----------------------------------------------------------------------------
(* The inductive invariant, part by part.                                   *)

(* What a worker makes of some window of the input.                         *)
Made == {Plain(ChunkAt(tokens, w.first, w.last, i, FALSE)) : w \in Window, i \in ChunkIndex}

(* What it makes of planned window number i, counted from 0.                *)
MadeOf(i) ==
  Plain(ChunkAt(tokens, windows[i + 1].first, windows[i + 1].last, i % IndexModulus, FALSE))

ParallelShape ==
  /\ options \in Options /\ tokens \in Inputs /\ num_threads \in ThreadCounts
  /\ phase \in Phases
  /\ start \in SizeT
  /\ windows \in Seq(Window)
  /\ task \in Nat
  /\ futures \in Seq(Slice)
  /\ local \in Seq(Seq(Made)) /\ Len(local) = Len(futures)
  /\ thrown \subseteq 1 .. Len(futures)
  /\ collected \in 0 .. Len(futures)
  /\ global_results \in Seq(Made)
  /\ phase # "returned" => outcome = Contract!Pending

(* For usable sizes the plan is a prefix of the closed form, and all of it  *)
(* once the planning loop has passed the last token.                        *)
PlanFollowsReference ==
  ValidOption(options) =>
    /\ \A k \in 1 .. Len(windows) :
         /\ windows[k].first = RefFirst(options, k - 1)
         /\ windows[k].last = RefLast(options, Len(tokens), k - 1)
    /\ start <= Len(tokens)
    /\ start < Len(tokens) => AtWindow(options, tokens, Len(windows), start)
    /\ start = Len(tokens) => Len(windows) = WindowCount(options, Len(tokens))

PhasesFollowThePlan ==
  /\ phase \in {"planned", "launching", "collecting"} => start >= Len(tokens)
  /\ phase \in {"called", "planning", "planned"} => task = 0 /\ futures = <<>>
  /\ phase \in {"launching", "collecting", "unwinding"} => ~ OnlyOneTask
  /\ phase = "launching" => collected = 0 /\ task <= ActualTasks
  /\ phase = "collecting" => task = ActualTasks
  /\ phase = "returned" => \A f \in 1 .. Len(futures) : Finished(f)

(* The threads launched so far have the first slices; the tasks without a   *)
(* thread are those behind the end of the plan.                             *)
SlicesInOrder ==
  /\ Len(futures) <= task
  /\ Len(futures) < task => Len(futures) * WindowsPerTask >= Len(windows)
  /\ \A f \in 1 .. Len(futures) :
       /\ futures[f] = SliceOf(f - 1)
       /\ (f - 1) * WindowsPerTask < Len(windows)

WorkersFollowSlices ==
  \A f \in 1 .. Len(futures) :
    /\ Len(local[f]) <= SliceLength(f)
    /\ \A j \in 1 .. Len(local[f]) :
         local[f][j] = MadeOf(futures[f].window_begin + j - 1)

(* What has been merged is the plan up to the end of the last slice taken.  *)
MergeFollowsPlan ==
  /\ Len(global_results) = IF collected = 0 THEN 0 ELSE futures[collected].window_end
  /\ \A k \in 1 .. Len(global_results) : global_results[k] = MadeOf(k - 1)
  /\ \A f \in 1 .. collected : Finished(f)

ParallelInv ==
  /\ ParallelShape
  /\ PlanFollowsReference
  /\ PhasesFollowThePlan
  /\ SlicesInOrder
  /\ WorkersFollowSlices
  /\ MergeFollowsPlan

-----------------------------------------------------------------------------
(* The request and its length, as numbers.                                  *)
LEMMA InputFacts ==
  ASSUME ParallelShape
  PROVE  /\ options \in Option
         /\ tokens \in Seq(Token) /\ FitsMemory(tokens)
         /\ Len(tokens) \in Nat /\ Len(tokens) <= MaxWindows
         /\ Len(tokens) \in SizeT
<1>1. /\ options \in Option /\ tokens \in Seq(Token) /\ FitsMemory(tokens)
      /\ Len(tokens) <= MaxWindows
  BY OptionAssumption, InputAssumption DEF ParallelShape
<1>2. Len(tokens) \in Nat /\ 2 * Len(tokens) <= SizeModulus
  BY <1>1 DEF FitsMemory
<1>3. Len(tokens) \in SizeT
  BY <1>2, ModulusAssumption DEF SizeT
<1> QED
  BY <1>1, <1>2, <1>3

(* The tasks of a plan that is cut up: at least one, at most one for each   *)
(* window, and together large enough for all of them.                       *)
LEMMA TaskFacts ==
  ASSUME ParallelShape, ~ OnlyOneTask
  PROVE  /\ Len(windows) \in Nat \ {0}
         /\ ActualTasks \in Nat \ {0}
         /\ WindowsPerTask \in Nat \ {0}
         /\ ActualTasks * WindowsPerTask >= Len(windows)
<1>1. Len(windows) \in Nat \ {0} /\ Threads \in Nat \ {0}
  BY ThreadAssumption DEF ParallelShape, OnlyOneTask, Threads
<1>2. ActualTasks \in Nat \ {0}
  BY <1>1 DEF ActualTasks, LesserOf
<1> QED
  BY <1>1, <1>2, RoundedUp DEF WindowsPerTask

(* The part of the invariant an action leaves alone.                        *)
LEMMA PlanKept ==
  ASSUME ParallelInv, UNCHANGED <<arguments, plan>>
  PROVE  PlanFollowsReference'
BY DEF ParallelInv, PlanFollowsReference, arguments, plan

(* The slices depend on the plan and the number of tasks alone.             *)
LEMMA SlicesKept ==
  ASSUME ParallelInv, UNCHANGED <<arguments, plan, task, futures>>
  PROVE  SlicesInOrder'
BY DEF ParallelInv, SlicesInOrder, SliceOf, WindowsPerTask, ActualTasks, Threads,
       arguments, plan

(* What is said of the workers depends on what they work on alone.          *)
LEMMA WorkersKept ==
  ASSUME ParallelInv, UNCHANGED <<arguments, plan, workers>>
  PROVE  WorkersFollowSlices'
BY DEF ParallelInv, WorkersFollowSlices, SliceLength, MadeOf, arguments, plan, workers

(* What is said of the merged vector depends on its parts alone.            *)
LEMMA MergeKept ==
  ASSUME ParallelInv, UNCHANGED <<arguments, plan, workers, merge>>
  PROVE  MergeFollowsPlan'
BY DEF ParallelInv, MergeFollowsPlan, Finished, SliceLength, MadeOf, arguments, plan,
       workers, merge

(* A call that has not begun has planned nothing.                           *)
LEMMA ParallelInitially == ParallelInit => ParallelInv
<1> SUFFICES ASSUME ParallelInit PROVE ParallelInv
  OBVIOUS
<1>1. ParallelShape
  <2>1. 0 \in SizeT
    BY ModulusAssumption DEF SizeT
  <2> QED
    BY <2>1 DEF ParallelInit, ParallelShape, Phases
<1>2. PlanFollowsReference
  <2> SUFFICES ASSUME ValidOption(options)
               PROVE  /\ 0 < Len(tokens) => AtWindow(options, tokens, 0, 0)
                      /\ 0 = Len(tokens) => 0 = WindowCount(options, Len(tokens))
    BY <1>1, InputFacts DEF ParallelInit, PlanFollowsReference
  <2>1. 0 = 0 * Stride(options)
    BY <1>1, InputFacts, StrideType
  <2> QED
    BY <2>1 DEF AtWindow, WindowCount
<1>3. PhasesFollowThePlan
  BY DEF ParallelInit, PhasesFollowThePlan
<1>4. SlicesInOrder /\ WorkersFollowSlices
  BY DEF ParallelInit, SlicesInOrder, WorkersFollowSlices
<1>5. MergeFollowsPlan
  BY DEF ParallelInit, MergeFollowsPlan
<1> QED
  BY <1>1, <1>2, <1>3, <1>4, <1>5 DEF ParallelInv

-----------------------------------------------------------------------------
(* The steps, one lemma for each that moves something.                      *)

(* A turn of the planning loop plans the next window of the closed form.    *)
LEMMA PlanWindowPreserves ==
  ASSUME ParallelInv, PlanWindow
  PROVE  ParallelInv'
<1> DEFINE end == WindowEnd(options, tokens, start)
           n == Len(tokens)
           k == Len(windows)
           w == [first |-> start,
                 last |-> IF IsOversized(options, tokens, start) THEN start + 1 ELSE end,
                 oversized |-> IsOversized(options, tokens, start)]
<1> USE DEF arguments, workers, merge
<1>0. ParallelShape /\ start < n /\ phase = "planning" /\ phase' = phase
  BY DEF ParallelInv, PlanWindow
<1>1. /\ options \in Option /\ tokens \in Seq(Token) /\ FitsMemory(tokens)
      /\ n \in Nat /\ n \in SizeT /\ start \in SizeT /\ start \in Nat
      /\ windows \in Seq(Window) /\ k \in Nat
  BY <1>0, InputFacts DEF ParallelShape, SizeT
<1>2. /\ UNCHANGED <<options, tokens, num_threads, task, futures, local, thrown,
                     collected, global_results, outcome>>
      /\ windows' = Append(windows, w)
      /\ start' = NextStart(options, tokens, start)
  BY DEF PlanWindow
<1>3. futures = <<>> /\ task = 0 /\ collected = 0
  BY <1>0 DEF ParallelInv, PhasesFollowThePlan, ParallelShape
<1>4. w.last = end /\ w.first = start /\ w.oversized \in BOOLEAN
  BY DEF IsOversized
<1>5. end \in SizeT /\ start' \in SizeT
  BY <1>1, <1>2, WindowType
<1>6. w \in Window
  BY <1>1, <1>4, <1>5 DEF Window
<1> HIDE DEF w
<1>7. /\ windows' \in Seq(Window) /\ Len(windows') = k + 1
      /\ windows'[k + 1] = w
      /\ \A j \in 1 .. k : windows'[j] = windows[j]
  BY <1>1, <1>2, <1>6
<1>8. ParallelShape'
  <2>1. Made' = Made
    BY <1>2 DEF Made
  <2> QED
    BY <1>0, <1>2, <1>5, <1>7, <2>1 DEF ParallelShape
<1>9. PlanFollowsReference'
  <2> SUFFICES ASSUME ValidOption(options)
               PROVE  /\ \A j \in 1 .. k + 1 :
                           /\ windows'[j].first = RefFirst(options, j - 1)
                           /\ windows'[j].last = RefLast(options, n, j - 1)
                      /\ start' <= n
                      /\ start' < n => AtWindow(options, tokens, k + 1, start')
                      /\ start' = n => k + 1 = WindowCount(options, n)
    BY <1>2, <1>7 DEF PlanFollowsReference
  <2>1. AtWindow(options, tokens, k, start)
    BY <1>0 DEF ParallelInv, PlanFollowsReference
  <2>2. start = RefFirst(options, k) /\ end = RefLast(options, n, k)
    BY <1>1, <2>1, WindowStep
  <2>3. ASSUME NEW j \in 1 .. k + 1
        PROVE  /\ windows'[j].first = RefFirst(options, j - 1)
               /\ windows'[j].last = RefLast(options, n, j - 1)
    <3>1. CASE j = k + 1
      BY <1>1, <1>4, <1>7, <2>2, <3>1
    <3>2. CASE j # k + 1
      BY <1>1, <1>7, <3>2, SMTT(30) DEF ParallelInv, PlanFollowsReference
    <3> QED
      BY <3>1, <3>2
  <2>4. CASE end = n
    <3>1. start' = n
      BY <1>1, <1>2, <2>1, <2>4, WindowStep
    <3>2. WindowCount(options, n) = k + 1
      BY <1>1, <2>1, <2>4, LastWindow
    <3> QED
      BY <1>1, <2>3, <3>1, <3>2
  <2>5. CASE end # n
    <3>1. AtWindow(options, tokens, k + 1, start')
      BY <1>1, <1>2, <2>1, <2>5, WindowStep
    <3>2. start' < n /\ start' \in Nat
      BY <1>5, <3>1 DEF AtWindow, SizeT
    <3> QED
      BY <1>1, <2>3, <3>1, <3>2
  <2> QED
    BY <2>4, <2>5
<1>10. PhasesFollowThePlan'
  BY <1>0, <1>2, <1>3 DEF PhasesFollowThePlan
<1>11. SlicesInOrder' /\ WorkersFollowSlices'
  BY <1>2, <1>3 DEF SlicesInOrder, WorkersFollowSlices
<1>12. MergeFollowsPlan'
  <2>1. Len(global_results) = 0
    BY <1>3 DEF ParallelInv, MergeFollowsPlan
  <2> QED
    BY <1>2, <1>3, <2>1 DEF MergeFollowsPlan
<1> QED
  BY <1>8, <1>9, <1>10, <1>11, <1>12 DEF ParallelInv

(* A launched thread gets the slice behind the last one.                    *)
LEMMA LaunchTaskPreserves ==
  ASSUME ParallelInv, LaunchTask
  PROVE  ParallelInv'
<1> DEFINE w == WindowsPerTask
           n == Len(windows)
           l == Len(futures)
           slice == SliceOf(task)
<1> USE DEF arguments, plan, workers, merge
<1>0. /\ ParallelShape /\ phase = "launching" /\ phase' = phase /\ task < ActualTasks
      /\ UNCHANGED <<options, tokens, num_threads, start, windows, collected,
                     global_results, outcome, thrown>>
      /\ task' = task + 1
  BY DEF ParallelInv, LaunchTask
<1>1. ~ OnlyOneTask /\ collected = 0 /\ start >= Len(tokens)
  BY <1>0 DEF ParallelInv, PhasesFollowThePlan
<1>2. n \in Nat \ {0} /\ w \in Nat \ {0} /\ ActualTasks \in Nat \ {0}
  BY <1>0, <1>1, TaskFacts
<1>3. /\ task \in Nat /\ l \in Nat /\ futures \in Seq(Slice)
      /\ local \in Seq(Seq(Made)) /\ Len(local) = l
  BY <1>0 DEF ParallelShape
<1>4. UNCHANGED <<WindowsPerTask, ActualTasks>> /\ Made' = Made /\ OnlyOneTask' = OnlyOneTask
  BY <1>0 DEF WindowsPerTask, ActualTasks, Threads, Made, OnlyOneTask
<1>5. PlanFollowsReference'
  BY <1>0, PlanKept
<1>6. PhasesFollowThePlan'
  BY <1>0, <1>1, <1>2, <1>3, <1>4 DEF PhasesFollowThePlan
<1>7. /\ l <= task
      /\ l < task => l * w >= n
      /\ \A f \in 1 .. l : futures[f] = SliceOf(f - 1) /\ (f - 1) * w < n
  BY DEF ParallelInv, SlicesInOrder
<1>8. /\ slice = [window_begin |-> task * w, window_end |-> LesserOf(n, task * w + w)]
      /\ task * w \in Nat
  BY <1>2, <1>3 DEF SliceOf
<1>9. slice.window_begin >= slice.window_end <=> task * w >= n
  <2> DEFINE b == task * w
  <2>1. b \in Nat /\ n \in Nat \ {0} /\ w \in Nat \ {0}
    BY <1>2, <1>8
  <2>2. slice.window_begin = b /\ slice.window_end = LesserOf(n, b + w)
    BY <1>8
  <2> HIDE DEF b, w, n, slice
  <2>3. b >= LesserOf(n, b + w) <=> b >= n
    BY <2>1 DEF LesserOf
  <2> QED
    BY <2>2, <2>3 DEF b
<1>10. CASE slice.window_begin >= slice.window_end
  <2>1. UNCHANGED <<futures, local>>
    BY <1>10 DEF LaunchTask
  <2>2. ParallelShape'
    BY <1>0, <1>3, <1>4, <2>1 DEF ParallelShape
  <2>3. l * w >= n
    <3>1. CASE l < task
      BY <1>7, <3>1
    <3>2. CASE l = task
      BY <1>9, <1>10, <3>2
    <3> QED
      BY <1>3, <1>7, <3>1, <3>2
  <2>4. SlicesInOrder'
    BY <1>0, <1>3, <1>4, <1>7, <2>1, <2>3 DEF SlicesInOrder, SliceOf
  <2>5. WorkersFollowSlices' /\ MergeFollowsPlan'
    BY <1>0, <2>1, WorkersKept, MergeKept
  <2> QED
    BY <1>5, <1>6, <2>2, <2>4, <2>5 DEF ParallelInv
<1>11. CASE ~ (slice.window_begin >= slice.window_end)
  <2>1. futures' = Append(futures, slice) /\ local' = Append(local, <<>>)
    BY <1>11 DEF LaunchTask
  <2>2. task * w < n
    BY <1>2, <1>8, <1>9, <1>11
  <2>3. l = task
    <3> SUFFICES ASSUME l < task PROVE FALSE
      BY <1>3, <1>7
    <3>1. l * w <= task * w
      <4> HIDE DEF w, l
      <4> QED
        BY <1>2, <1>3, ProductMonotone
    <3>2. l * w \in Nat /\ task * w \in Nat /\ l * w >= n
      BY <1>2, <1>3, <1>7
    <3> HIDE DEF w, n
    <3> QED
      BY <1>2, <2>2, <3>1, <3>2
  <2>4. slice \in Slice
    BY <1>2, <1>8 DEF Slice, LesserOf
  <2> HIDE DEF slice
  <2>5. /\ futures' \in Seq(Slice) /\ Len(futures') = l + 1 /\ futures'[l + 1] = slice
        /\ \A f \in 1 .. l : futures'[f] = futures[f]
        /\ local' \in Seq(Seq(Made)) /\ Len(local') = l + 1 /\ local'[l + 1] = <<>>
        /\ \A f \in 1 .. l : local'[f] = local[f]
    BY <1>3, <2>1, <2>4
  <2>6. ParallelShape'
    BY <1>0, <1>1, <1>3, <1>4, <2>5 DEF ParallelShape
  <2>7. SlicesInOrder'
    <3>1. \A f \in 1 .. l + 1 : futures'[f] = SliceOf(f - 1) /\ (f - 1) * w < n
      <4> SUFFICES ASSUME NEW f \in 1 .. l + 1
                   PROVE  futures'[f] = SliceOf(f - 1) /\ (f - 1) * w < n
        OBVIOUS
      <4>1. CASE f = l + 1
        <5>1. f - 1 = task
          BY <1>3, <2>3, <4>1
        <5> QED
          BY <2>2, <2>5, <4>1, <5>1 DEF slice
      <4>2. CASE f # l + 1
        <5>1. f \in 1 .. l
          BY <1>3, <4>2
        <5> QED
          BY <1>7, <2>5, <5>1
      <4> QED
        BY <4>1, <4>2
    <3> QED
      BY <1>0, <1>3, <1>4, <2>3, <2>5, <3>1 DEF SlicesInOrder, SliceOf
  <2>8. WorkersFollowSlices'
    <3> SUFFICES ASSUME NEW f \in 1 .. l + 1
                 PROVE  /\ Len(local'[f]) <= futures'[f].window_end - futures'[f].window_begin
                        /\ \A j \in 1 .. Len(local'[f]) :
                             local'[f][j] = MadeOf(futures'[f].window_begin + j - 1)
      BY <1>0, <2>5 DEF WorkersFollowSlices, SliceLength, MadeOf
    <3>1. CASE f = l + 1
      <4>1. Len(local'[f]) = 0
        BY <2>5, <3>1
      <4>2. slice.window_end - slice.window_begin >= 0
        BY <1>11, <2>4 DEF Slice
      <4> QED
        BY <2>5, <3>1, <4>1, <4>2
    <3>2. CASE f # l + 1
      <4>1. f \in 1 .. l
        BY <1>3, <3>2
      <4>2. futures'[f] = futures[f] /\ local'[f] = local[f]
        BY <2>5, <4>1
      <4> QED
        BY <4>1, <4>2 DEF ParallelInv, WorkersFollowSlices, SliceLength
    <3> QED
      BY <3>1, <3>2
  <2>9. MergeFollowsPlan'
    <3>1. Len(global_results) = 0
      BY <1>1 DEF ParallelInv, MergeFollowsPlan
    <3> QED
      BY <1>0, <1>1, <3>1 DEF MergeFollowsPlan
  <2> QED
    BY <1>5, <1>6, <2>6, <2>7, <2>8, <2>9 DEF ParallelInv
<1> QED
  BY <1>10, <1>11

(* The slices follow one another without gap or overlap.                    *)
LEMMA SlicesAdjacent ==
  ASSUME ParallelInv, phase \in {"launching", "collecting", "unwinding"},
         NEW f \in 1 .. Len(futures)
  PROVE  /\ futures[f].window_begin \in Nat /\ futures[f].window_end \in Nat
         /\ futures[f].window_begin < futures[f].window_end
         /\ futures[f].window_end <= Len(windows)
         /\ futures[f].window_begin = IF f = 1 THEN 0 ELSE futures[f - 1].window_end
<1> DEFINE w == WindowsPerTask
           n == Len(windows)
           b == (f - 1) * w
<1>1. n \in Nat \ {0} /\ w \in Nat \ {0} /\ Len(futures) \in Nat
  BY TaskFacts DEF ParallelInv, PhasesFollowThePlan, ParallelShape
<1>2. futures[f] = [window_begin |-> b, window_end |-> LesserOf(n, b + w)] /\ b < n
  BY DEF ParallelInv, SlicesInOrder, SliceOf
<1>3. b \in Nat
  BY <1>1
<1>4. f # 1 => futures[f - 1].window_end = b
  <2> SUFFICES ASSUME f # 1 PROVE futures[f - 1].window_end = b
    OBVIOUS
  <2>1. f - 1 \in 1 .. Len(futures)
    OBVIOUS
  <2>2. futures[f - 1].window_end = LesserOf(n, ((f - 1) - 1) * w + w)
    <3>1. futures[f - 1] = SliceOf((f - 1) - 1)
      BY <2>1 DEF ParallelInv, SlicesInOrder
    <3> QED
      BY <3>1 DEF SliceOf
  <2>3. ((f - 1) - 1) * w + w = b
    BY <1>1
  <2> HIDE DEF b, w, n
  <2> QED
    BY <1>1, <1>2, <1>3, <2>2, <2>3 DEF LesserOf
<1>5. f = 1 => b = 0
  BY <1>1
<1> HIDE DEF b, w, n
<1>6. n \in Nat \ {0} /\ w \in Nat \ {0} /\ b \in Nat /\ b < n
  BY <1>1, <1>2, <1>3
<1>7. /\ LesserOf(n, b + w) \in Nat
      /\ b < LesserOf(n, b + w)
      /\ LesserOf(n, b + w) <= n
  BY <1>6 DEF LesserOf
<1> QED
  BY <1>2, <1>4, <1>5, <1>6, <1>7 DEF n

(* When every task has been looked at, the last slice ends the plan.        *)
LEMMA SlicesReachTheEnd ==
  ASSUME ParallelInv, phase = "collecting"
  PROVE  /\ Len(futures) \in Nat \ {0}
         /\ futures[Len(futures)].window_end = Len(windows)
<1> DEFINE w == WindowsPerTask
           n == Len(windows)
           l == Len(futures)
<1>1. /\ n \in Nat \ {0} /\ w \in Nat \ {0} /\ ActualTasks \in Nat \ {0} /\ l \in Nat
      /\ ActualTasks * w >= n /\ task = ActualTasks
  BY TaskFacts DEF ParallelInv, PhasesFollowThePlan, ParallelShape
<1>2. l <= task /\ (l < task => l * w >= n)
  BY DEF ParallelInv, SlicesInOrder
<1>3. l * w >= n
  BY <1>1, <1>2
<1>4. l # 0
  <2> SUFFICES ASSUME l = 0 PROVE FALSE
    OBVIOUS
  <2>1. 0 * w = 0
    BY <1>1
  <2> HIDE DEF w, n
  <2> QED
    BY <1>1, <1>3, <2>1
<1>5. futures[l].window_end = LesserOf(n, (l - 1) * w + w)
  <2>1. futures[l] = SliceOf(l - 1)
    BY <1>1, <1>4 DEF ParallelInv, SlicesInOrder
  <2> QED
    BY <2>1 DEF SliceOf
<1>6. (l - 1) * w + w = l * w /\ l * w \in Nat
  BY <1>1
<1>7. LesserOf(n, l * w) = n
  BY <1>1, <1>3, <1>6 DEF LesserOf
<1> HIDE DEF w, n, l
<1> QED
  BY <1>1, <1>4, <1>5, <1>6, <1>7 DEF l, n

(* What a worker makes is one of the chunks Made.                           *)
LEMMA MadeOfType ==
  ASSUME ParallelShape, NEW i \in 0 .. Len(windows) - 1
  PROVE  MadeOf(i) \in Made
<1>1. windows[i + 1] \in Window
  BY DEF ParallelShape
<1>2. i % IndexModulus \in ChunkIndex
  BY ModulusAssumption DEF ChunkIndex
<1>3. \A w \in Window, j \in ChunkIndex :
         Plain(ChunkAt(tokens, w.first, w.last, j, FALSE)) \in Made
  <2> DEFINE P(w, j) == Plain(ChunkAt(tokens, w.first, w.last, j, FALSE))
  <2>1. Made = {P(w, j) : w \in Window, j \in ChunkIndex}
    BY DEF Made
  <2> HIDE DEF P
  <2>2. \A w \in Window, j \in ChunkIndex : P(w, j) \in Made
    BY <2>1
  <2> QED
    BY <2>2 DEF P
<1> QED
  BY <1>1, <1>2, <1>3 DEF MadeOf

(* A worker makes the chunk of the next window of its slice; it is not one  *)
(* whose future has been collected.                                         *)
LEMMA WorkerChunkPreserves ==
  ASSUME ParallelInv, NEW f \in 1 .. Len(futures), WorkerChunk(f)
  PROVE  ParallelInv'
<1> DEFINE m == Len(local[f])
           b == futures[f].window_begin
           e == futures[f].window_end
           c == MadeOf(b + m)
<1> USE DEF arguments, plan, merge
<1>0. /\ ParallelShape /\ ~ Finished(f)
      /\ UNCHANGED <<options, tokens, num_threads, phase, start, windows, task, futures,
                     thrown, collected, global_results, outcome>>
      /\ local' = [local EXCEPT ![f] = Append(@, c)]
  BY DEF ParallelInv, WorkerChunk, MadeOf
<1>1. /\ local \in Seq(Seq(Made)) /\ Len(local) = Len(futures) /\ Len(futures) \in Nat
      /\ collected \in 0 .. Len(futures)
      /\ local[f] \in Seq(Made) /\ m \in Nat
  BY <1>0 DEF ParallelShape
<1>2. phase \in {"launching", "collecting", "unwinding"}
  <2>1. phase # "returned"
    BY <1>0 DEF ParallelInv, PhasesFollowThePlan
  <2>2. futures # <<>>
    OBVIOUS
  <2> QED
    BY <1>0, <2>1, <2>2 DEF ParallelShape, Phases, ParallelInv, PhasesFollowThePlan
<1>3. b \in Nat /\ e \in Nat /\ b < e /\ e <= Len(windows)
  BY <1>2, SlicesAdjacent
<1>4. m < e - b
  <2>1. SliceLength(f) = e - b
    BY DEF SliceLength
  <2>2. m <= SliceLength(f)
    BY DEF ParallelInv, WorkersFollowSlices
  <2>3. m # SliceLength(f)
    BY <1>0 DEF Finished
  <2> HIDE DEF m, b, e
  <2> QED
    BY <1>1, <1>3, <2>1, <2>2, <2>3
<1>5. c \in Made
  <2>1. b + m \in 0 .. Len(windows) - 1
    <3>1. Len(windows) \in Nat
      BY <1>0 DEF ParallelShape
    <3> QED
      BY <1>1, <1>3, <1>4, <3>1
  <2> QED
    BY <1>0, <2>1, MadeOfType
<1> HIDE DEF c
<1>6. /\ local' \in Seq(Seq(Made)) /\ Len(local') = Len(local)
      /\ local'[f] = Append(local[f], c)
      /\ \A g \in 1 .. Len(futures) : g # f => local'[g] = local[g]
  BY <1>0, <1>1, <1>5
<1>7. /\ Len(local'[f]) = m + 1
      /\ local'[f][m + 1] = c
      /\ \A j \in 1 .. m : local'[f][j] = local[f][j]
  BY <1>1, <1>5, <1>6
<1>8. ParallelShape'
  <2>1. Made' = Made
    BY <1>0 DEF Made
  <2> QED
    BY <1>0, <1>1, <1>6, <2>1 DEF ParallelShape
<1>9. PlanFollowsReference' /\ SlicesInOrder'
  BY <1>0, PlanKept, SlicesKept
<1>10. PhasesFollowThePlan'
  BY <1>0 DEF ParallelInv, PhasesFollowThePlan, OnlyOneTask, ActualTasks, Threads
<1>11. WorkersFollowSlices'
  <2> SUFFICES ASSUME NEW g \in 1 .. Len(futures)
               PROVE  /\ Len(local'[g]) <= SliceLength(g)
                      /\ \A j \in 1 .. Len(local'[g]) :
                           local'[g][j] = MadeOf(futures[g].window_begin + j - 1)
    <3>1. \A g \in 1 .. Len(futures) : SliceLength(g)' = SliceLength(g)
      BY <1>0 DEF SliceLength
    <3>2. \A i : MadeOf(i)' = MadeOf(i)
      BY <1>0 DEF MadeOf
    <3> QED
      BY <1>0, <3>1, <3>2 DEF WorkersFollowSlices
  <2>1. CASE g = f
    <3>1. Len(local'[f]) <= SliceLength(f)
      BY <1>1, <1>3, <1>4, <1>7, SMTT(30) DEF SliceLength
    <3>2. ASSUME NEW j \in 1 .. m + 1
          PROVE  local'[f][j] = MadeOf(b + j - 1)
      <4>1. CASE j = m + 1
        <5>1. b + j - 1 = b + m
          BY <1>1, <1>3, <4>1
        <5> QED
          BY <1>7, <4>1, <5>1 DEF c
      <4>2. CASE j # m + 1
        <5>1. j \in 1 .. m
          BY <1>1, <4>2
        <5> QED
          BY <1>7, <5>1 DEF ParallelInv, WorkersFollowSlices
      <4> QED
        BY <4>1, <4>2
    <3> QED
      BY <1>7, <2>1, <3>1, <3>2
  <2>2. CASE g # f
    BY <1>6, <2>2 DEF ParallelInv, WorkersFollowSlices
  <2> QED
    BY <2>1, <2>2
<1>12. MergeFollowsPlan'
  <2>1. ASSUME NEW g \in 1 .. collected
        PROVE  g # f /\ local'[g] = local[g] /\ Finished(g)
    <3>1. Finished(g)
      BY DEF ParallelInv, MergeFollowsPlan
    <3> QED
      BY <1>0, <1>1, <1>6, <3>1
  <2> QED
    BY <1>0, <2>1 DEF ParallelInv, MergeFollowsPlan, Finished, SliceLength, MadeOf
<1> QED
  BY <1>8, <1>9, <1>10, <1>11, <1>12 DEF ParallelInv

(* Renumbering a chunk with the number it has leaves it alone.              *)
LEMMA RenumberedAlike ==
  ASSUME NEW first, NEW last, NEW index
  PROVE  LET c == Plain(ChunkAt(tokens, first, last, index, FALSE))
         IN [c EXCEPT !.chunk_index = index] = c
<1> DEFINE c == Plain(ChunkAt(tokens, first, last, index, FALSE))
           s == TokenAt(tokens, first).start_byte
           e == TokenAt(tokens, last - 1).end_byte
<1>1. c = [first |-> first, last |-> last, start_byte |-> s, end_byte |-> e,
           chunk_index |-> index]
  BY DEF Plain, ChunkAt
<1> HIDE DEF c, s, e
<1>2. [c EXCEPT !.chunk_index = index] = c
  BY <1>1
<1> QED
  BY <1>2 DEF c

(* Merging a slice renumbers nothing: its chunks already have the numbers   *)
(* of their place in the merged vector.                                     *)
LEMMA CollectFuturePreserves ==
  ASSUME ParallelInv, CollectFuture
  PROVE  ParallelInv'
<1> DEFINE f == collected + 1
           base == Len(global_results)
           b == futures[f].window_begin
           e == futures[f].window_end
           chunks == local[f]
<1> USE DEF arguments, plan, workers
<1>0. /\ ParallelShape /\ phase = "collecting" /\ collected < Len(futures) /\ Finished(f)
      /\ UNCHANGED <<options, tokens, num_threads, phase, start, windows, task, futures,
                     local, thrown, outcome>>
      /\ collected' = f
      /\ global_results' = global_results \o Renumbered(chunks, base)
  BY DEF ParallelInv, CollectFuture
<1>1. /\ collected \in Nat /\ Len(futures) \in Nat /\ f \in 1 .. Len(futures)
      /\ global_results \in Seq(Made) /\ base \in Nat
      /\ local \in Seq(Seq(Made)) /\ Len(local) = Len(futures)
      /\ chunks \in Seq(Made)
  BY <1>0 DEF ParallelShape
<1>2. b \in Nat /\ e \in Nat /\ b < e
  BY <1>0, <1>1, SlicesAdjacent
<1>3. base = b
  <2>1. b = IF f = 1 THEN 0 ELSE futures[f - 1].window_end
    BY <1>0, <1>1, SlicesAdjacent
  <2>2. base = IF collected = 0 THEN 0 ELSE futures[collected].window_end
    BY DEF ParallelInv, MergeFollowsPlan
  <2>3. f - 1 = collected /\ (f = 1 <=> collected = 0)
    BY <1>1
  <2> QED
    BY <2>1, <2>2, <2>3
<1>4. Len(chunks) = e - b
  BY <1>0 DEF CollectFuture, Finished, SliceLength
<1>5. \A j \in 1 .. Len(chunks) : chunks[j] = MadeOf(b + j - 1)
  BY <1>1 DEF ParallelInv, WorkersFollowSlices
<1> HIDE DEF chunks, base, b, e
<1>6. Renumbered(chunks, base) = chunks
  <2>1. ASSUME NEW j \in 1 .. Len(chunks)
        PROVE  [chunks[j] EXCEPT !.chunk_index = (base + j - 1) % IndexModulus] = chunks[j]
    <3> DEFINE i == (b + j - 1) % IndexModulus
               w == windows[(b + j - 1) + 1]
    <3>1. chunks[j] = Plain(ChunkAt(tokens, w.first, w.last, i, FALSE))
      BY <1>5 DEF MadeOf
    <3>2. (base + j - 1) % IndexModulus = i
      BY <1>3
    <3> HIDE DEF i, w
    <3> QED
      BY <3>1, <3>2, RenumberedAlike
  <2>2. chunks = [j \in 1 .. Len(chunks) |-> chunks[j]]
    BY <1>1
  <2> QED
    BY <2>1, <2>2 DEF Renumbered
<1>7. /\ global_results' \in Seq(Made)
      /\ Len(global_results') = base + Len(chunks)
      /\ \A k \in 1 .. base : global_results'[k] = global_results[k]
      /\ \A k \in base + 1 .. base + Len(chunks) : global_results'[k] = chunks[k - base]
  BY <1>0, <1>1, <1>6 DEF base
<1>8. ParallelShape'
  <2>1. Made' = Made
    BY <1>0 DEF Made
  <2> QED
    BY <1>0, <1>1, <1>7, <2>1 DEF ParallelShape
<1>9. PlanFollowsReference' /\ SlicesInOrder' /\ WorkersFollowSlices'
  BY <1>0, PlanKept, SlicesKept, WorkersKept
<1>10. PhasesFollowThePlan'
  BY <1>0 DEF ParallelInv, PhasesFollowThePlan, OnlyOneTask, ActualTasks, Threads
<1>11. MergeFollowsPlan'
  <2>1. Len(global_results') = futures[f].window_end
    BY <1>2, <1>3, <1>4, <1>7 DEF e, b
  <2>2. \A k \in 1 .. Len(global_results') : global_results'[k] = MadeOf(k - 1)
    <3> SUFFICES ASSUME NEW k \in 1 .. base + Len(chunks)
                 PROVE  global_results'[k] = MadeOf(k - 1)
      BY <1>7
    <3>0. Len(chunks) \in Nat /\ base \in Nat
      BY <1>1, <1>2, <1>4
    <3>1. CASE k <= base
      BY <1>7, <3>0, <3>1 DEF ParallelInv, MergeFollowsPlan, base
    <3>2. CASE k > base
      <4>1. k - base \in 1 .. Len(chunks) /\ k \in base + 1 .. base + Len(chunks)
        BY <3>0, <3>2
      <4>2. b + (k - base) - 1 = k - 1
        BY <1>3, <3>0
      <4> QED
        BY <1>5, <1>7, <4>1, <4>2
    <3> QED
      BY <3>0, <3>1, <3>2
  <2>3. \A g \in 1 .. f : Finished(g)
    <3> SUFFICES ASSUME NEW g \in 1 .. f PROVE Finished(g)
      OBVIOUS
    <3>1. g = f \/ g \in 1 .. collected
      BY <1>1
    <3> QED
      BY <1>0, <3>1 DEF ParallelInv, MergeFollowsPlan
  <2>4. \A i : MadeOf(i)' = MadeOf(i)
    BY <1>0 DEF MadeOf
  <2>5. \A g : Finished(g)' = Finished(g)
    BY <1>0 DEF Finished, SliceLength
  <2>6. collected' = f /\ futures' = futures /\ f # 0
    BY <1>0, <1>1
  <2> HIDE DEF f
  <2> QED
    BY <2>1, <2>2, <2>3, <2>4, <2>5, <2>6 DEF MergeFollowsPlan
<1> QED
  BY <1>8, <1>9, <1>10, <1>11 DEF ParallelInv

(* A thread that throws has finished, and none that had goes on.            *)
LEMMA WorkerThrowsPreserves ==
  ASSUME ParallelInv, NEW f \in 1 .. Len(futures), WorkerThrows(f)
  PROVE  ParallelInv'
<1>0. /\ ParallelShape /\ ~ Finished(f)
      /\ UNCHANGED <<options, tokens, num_threads, phase, start, windows, task, futures,
                     local, collected, global_results, outcome>>
      /\ thrown' = thrown \cup {f}
  BY DEF ParallelInv, WorkerThrows, arguments, plan, merge
<1>1. ParallelShape'
  <2>1. Made' = Made
    BY <1>0 DEF Made
  <2> QED
    BY <1>0, <2>1 DEF ParallelShape
<1>2. PlanFollowsReference' /\ SlicesInOrder'
  BY <1>0, PlanKept, SlicesKept DEF arguments, plan
<1>3. WorkersFollowSlices'
  BY <1>0 DEF ParallelInv, WorkersFollowSlices, SliceLength, MadeOf
<1>4. \A g : Finished(g) => Finished(g)'
  BY <1>0 DEF Finished, SliceLength
<1>5. PhasesFollowThePlan'
  BY <1>0, <1>4 DEF ParallelInv, PhasesFollowThePlan, OnlyOneTask, ActualTasks, Threads
<1>6. MergeFollowsPlan'
  BY <1>0, <1>4 DEF ParallelInv, MergeFollowsPlan, MadeOf
<1> QED
  BY <1>1, <1>2, <1>3, <1>5, <1>6 DEF ParallelInv

(* The other steps move the caller from one phase to the next.              *)
LEMMA PhaseStepPreserves ==
  ASSUME ParallelInv, UNCHANGED <<arguments, plan, task, workers, merge>>,
         \/ ReturnEmpty \/ Encode \/ PlanExhaustsMemory \/ PlanDone \/ FallBack
         \/ StartLaunching \/ LaunchFails \/ AllLaunched \/ CollectFails \/ Unwind
         \/ ReturnMerged
  PROVE  ParallelInv'
<1>0. ParallelShape /\ UNCHANGED <<options, tokens, num_threads, start, windows, task,
                                  futures, local, thrown, collected, global_results>>
  BY DEF ParallelInv, arguments, plan, workers, merge
<1>1. PlanFollowsReference' /\ SlicesInOrder' /\ WorkersFollowSlices' /\ MergeFollowsPlan'
  BY <1>0, PlanKept, SlicesKept, WorkersKept, MergeKept
     DEF arguments, plan, workers, merge
<1>2. /\ phase' \in Phases
      /\ phase' # "returned" => phase # "returned" /\ outcome' = outcome
  BY DEF ReturnEmpty, Encode, PlanExhaustsMemory, PlanDone, FallBack, StartLaunching,
         LaunchFails, AllLaunched, CollectFails, Unwind, ReturnMerged, Return, Phases
<1>3. ParallelShape'
  <2>1. Made' = Made
    BY <1>0 DEF Made
  <2> QED
    BY <1>0, <1>2, <2>1 DEF ParallelShape
<1>4. UNCHANGED <<OnlyOneTask, ActualTasks>> /\ \A f : Finished(f)' = Finished(f)
  BY <1>0 DEF OnlyOneTask, ActualTasks, Threads, Finished, SliceLength
<1>5. PhasesFollowThePlan
  BY DEF ParallelInv
<1>6. PhasesFollowThePlan'
  <2>1. CASE ReturnEmpty \/ Encode \/ PlanExhaustsMemory \/ FallBack
    <3>1. phase \in {"called", "planning", "planned"}
      BY <2>1 DEF ReturnEmpty, Encode, PlanExhaustsMemory, FallBack
    <3>2. phase' \in {"planning", "returned"}
      BY <2>1 DEF ReturnEmpty, Encode, PlanExhaustsMemory, FallBack, Return
    <3>3. futures = <<>> /\ task = 0 /\ collected = 0
      BY <1>0, <1>5, <3>1 DEF PhasesFollowThePlan, ParallelShape
    <3> QED
      BY <1>0, <3>2, <3>3 DEF PhasesFollowThePlan
  <2>2. CASE PlanDone
    BY <1>0, <1>5, <2>2 DEF PhasesFollowThePlan, PlanDone
  <2>3. CASE StartLaunching
    <3>1. futures = <<>> /\ task = 0 /\ collected = 0 /\ start >= Len(tokens)
      BY <1>0, <1>5, <2>3 DEF PhasesFollowThePlan, StartLaunching, ParallelShape
    <3>2. ~ OnlyOneTask /\ phase' = "launching"
      BY <2>3 DEF StartLaunching
    <3>3. 0 <= ActualTasks
      BY <1>0, <3>2, TaskFacts
    <3> QED
      BY <1>0, <1>4, <3>1, <3>2, <3>3 DEF PhasesFollowThePlan
  <2>4. CASE AllLaunched
    BY <1>0, <1>4, <1>5, <2>4 DEF PhasesFollowThePlan, AllLaunched
  <2>5. CASE ReturnMerged
    <3>1. collected = Len(futures) /\ phase' = "returned"
      BY <2>5 DEF ReturnMerged, Return
    <3>2. \A f \in 1 .. Len(futures) : Finished(f)
      BY <3>1 DEF ParallelInv, MergeFollowsPlan
    <3> QED
      BY <1>0, <1>4, <3>1, <3>2 DEF PhasesFollowThePlan
  <2>6. CASE LaunchFails \/ CollectFails
    <3>1. phase \in {"launching", "collecting"} /\ phase' = "unwinding"
      BY <2>6 DEF LaunchFails, CollectFails
    <3> QED
      BY <1>4, <1>5, <3>1 DEF PhasesFollowThePlan
  <2>7. CASE Unwind
    <3>1. phase' = "returned" /\ \A f \in 1 .. Len(futures) : Finished(f)
      BY <2>7 DEF Unwind, Return
    <3> QED
      BY <1>0, <1>4, <3>1 DEF PhasesFollowThePlan
  <2> QED
    BY <2>1, <2>2, <2>3, <2>4, <2>5, <2>6, <2>7
<1> QED
  BY <1>1, <1>3, <1>6 DEF ParallelInv

(* A step that leaves all but the token alone.                              *)
LEMMA QuietStepPreserves ==
  ASSUME ParallelInv, UNCHANGED <<arguments, phase, plan, task, workers, merge, outcome>>
  PROVE  ParallelInv'
<1>0. ParallelShape /\ UNCHANGED <<options, tokens, num_threads, phase, start, windows,
                          task, futures, local, thrown, collected, global_results,
                          outcome>>
  BY DEF ParallelInv, arguments, plan, workers, merge
<1>1. PlanFollowsReference' /\ SlicesInOrder' /\ WorkersFollowSlices' /\ MergeFollowsPlan'
  BY <1>0, PlanKept, SlicesKept, WorkersKept, MergeKept
     DEF arguments, plan, workers, merge
<1>2. ParallelShape'
  <2>1. Made' = Made
    BY <1>0 DEF Made
  <2> QED
    BY <1>0, <2>1 DEF ParallelShape
<1>3. PhasesFollowThePlan'
  BY <1>0 DEF ParallelInv, PhasesFollowThePlan, OnlyOneTask, ActualTasks, Threads,
              Finished, SliceLength
<1> QED
  BY <1>1, <1>2, <1>3 DEF ParallelInv

(* Every step of the caller and of a worker keeps the invariant.            *)
LEMMA ParallelStep ==
  ASSUME ParallelInv, [ParallelNext]_parallel_vars
  PROVE  ParallelInv'
<1>1. CASE PlanWindow
  BY <1>1, PlanWindowPreserves
<1>2. CASE LaunchTask
  BY <1>2, LaunchTaskPreserves
<1>3. CASE CollectFuture
  BY <1>3, CollectFuturePreserves
<1>4. CASE \E f \in 1 .. Len(futures) : Worker(f)
  BY <1>4, WorkerChunkPreserves, WorkerThrowsPreserves DEF Worker
<1>5. CASE \/ ReturnEmpty \/ Encode \/ PlanExhaustsMemory \/ PlanDone \/ FallBack
           \/ StartLaunching \/ LaunchFails \/ AllLaunched \/ CollectFails \/ Unwind
           \/ ReturnMerged
  <2>1. UNCHANGED <<arguments, plan, task, workers, merge>>
    BY <1>5 DEF ReturnEmpty, Encode, PlanExhaustsMemory, PlanDone, FallBack, Return,
                StartLaunching, LaunchFails, AllLaunched, CollectFails, Unwind, ReturnMerged
  <2> QED
    BY <1>5, <2>1, PhaseStepPreserves
<1>6. CASE TokenChanges \/ UNCHANGED parallel_vars
  <2>1. UNCHANGED <<arguments, phase, plan, task, workers, merge, outcome>>
    BY <1>6 DEF TokenChanges, parallel_vars, arguments, plan, workers, merge
  <2> QED
    BY <2>1, QuietStepPreserves
<1> QED
  BY <1>1, <1>2, <1>3, <1>4, <1>5, <1>6 DEF ParallelNext, Caller

(* Every state of a run has the inductive invariant.                        *)
THEOREM ParallelInvariant == ParallelSpec => []ParallelInv
<1>1. ParallelInit => ParallelInv
  BY ParallelInitially
<1>2. ParallelInv /\ [ParallelNext]_parallel_vars => ParallelInv'
  BY ParallelStep
<1> QED
  BY <1>1, <1>2, PTL DEF ParallelSpec

(* For every number of threads, the slices handed out when the launching    *)
(* loop has ended are a partition of the plan into intervals.               *)
(* Code: lines 59-71 of include/parallel_chunker.h.                         *)
THEOREM SlicesPartition == ParallelSpec => []SlicesPartitionWindows
<1>1. ParallelInv => SlicesPartitionWindows
  <2> SUFFICES ASSUME ParallelInv, phase = "collecting"
               PROVE  SlicesPartitionWindows
    BY DEF SlicesPartitionWindows
  <2>1. Len(futures) > 0 /\ futures[Len(futures)].window_end = Len(windows)
    BY SlicesReachTheEnd
  <2>2. \A f \in 1 .. Len(futures) :
          /\ futures[f].window_begin < futures[f].window_end
          /\ futures[f].window_begin = IF f = 1 THEN 0 ELSE futures[f - 1].window_end
    BY SlicesAdjacent
  <2> QED
    BY <2>1, <2>2 DEF SlicesPartitionWindows
<1> QED
  BY <1>1, ParallelInvariant, PTL

(* No worker is running once the call is left: after the merge of the last  *)
(* slice, or, when a thread cannot be started, a worker throws or the merge *)
(* throws, by the exception that leaves the loop with later futures         *)
(* outstanding and is held up by their destructors.                         *)
(* Code: the captures of line 74, the get() of line 118, the exits of lines *)
(* 74 and 118-122 through the destructors of `futures`.                     *)
THEOREM NoWorkerOutlives == ParallelSpec => []NoWorkerOutlivesTheCall
<1>1. ParallelInv => NoWorkerOutlivesTheCall
  BY DEF ParallelInv, PhasesFollowThePlan, NoWorkerOutlivesTheCall
<1> QED
  BY <1>1, ParallelInvariant, PTL

-----------------------------------------------------------------------------
(* Every step is one the contract allows, or none.                          *)

(* The contract's copies of the window's operators are the module's own.    *)
LEMMA ContractOperators ==
  /\ \A o : Contract!ValidOption(o) = ValidOption(o)
  /\ \A o, n : Contract!WindowCount(o, n) = WindowCount(o, n)
  /\ \A o, n, k : /\ Contract!RefFirst(o, k) = RefFirst(o, k)
                  /\ Contract!RefLast(o, n, k) = RefLast(o, n, k)
<1>1. \A o : Contract!ValidOption(o) = ValidOption(o)
  BY DEF Contract!ValidOption, ValidOption
<1>2. \A o : Contract!Stride(o) = Stride(o)
  BY DEF Contract!Stride, Stride
<1>3. \A a, b : Contract!LesserOf(a, b) = LesserOf(a, b)
  BY DEF Contract!LesserOf, LesserOf
<1>4. \A o, n : Contract!WindowCount(o, n) = WindowCount(o, n)
  BY <1>2 DEF Contract!WindowCount, WindowCount
<1>5. \A o, k : Contract!RefFirst(o, k) = RefFirst(o, k)
  BY <1>2 DEF Contract!RefFirst, RefFirst
<1>6. \A o, n, k : Contract!RefLast(o, n, k) = RefLast(o, n, k)
  BY <1>3, <1>5 DEF Contract!RefLast, RefLast
<1> QED
  BY <1>1, <1>4, <1>5, <1>6

(* The contract's answer, without the diagnostics its chunks leave out.     *)
LEMMA AnswerIs ==
  Contract!Answer =
    [k \in 1 .. WindowCount(options, Len(tokens)) |->
       [first       |-> RefFirst(options, k - 1),
        last        |-> RefLast(options, Len(tokens), k - 1),
        start_byte  |-> tokens[RefFirst(options, k - 1) + 1].start_byte,
        end_byte    |-> tokens[RefLast(options, Len(tokens), k - 1) - 1 + 1].end_byte,
        chunk_index |-> (k - 1) % IndexModulus]]
<1> DEFINE n == WindowCount(options, Len(tokens))
           C(k) == [first       |-> RefFirst(options, k - 1),
                    last        |-> RefLast(options, Len(tokens), k - 1),
                    start_byte  |-> tokens[RefFirst(options, k - 1) + 1].start_byte,
                    end_byte    |-> tokens[RefLast(options, Len(tokens), k - 1) - 1 + 1].end_byte,
                    chunk_index |-> (k - 1) % IndexModulus]
<1>1. \A k \in 1 .. n : Contract!Plain(Contract!RefChunk(options, tokens, k - 1)) = C(k)
  BY ContractOperators
     DEF Contract!Plain, Contract!RefChunk, Contract!ChunkAt, Contract!TokenAt
<1>2. Contract!Answer = [k \in 1 .. n |-> Contract!Plain(Contract!RefChunk(options, tokens, k - 1))]
  BY ContractOperators DEF Contract!Answer, Contract!AllChunks
<1> QED
  BY <1>1, <1>2

(* The merged vector of a call with usable sizes is the contract's answer.  *)
LEMMA MergedIsAnswer ==
  ASSUME ParallelInv, phase = "collecting", collected = Len(futures), ValidOption(options)
  PROVE  global_results = Contract!Answer
<1> DEFINE n == WindowCount(options, Len(tokens))
<1>1. Len(global_results) = Len(windows)
  <2>1. Len(futures) # 0 /\ futures[Len(futures)].window_end = Len(windows)
    BY SlicesReachTheEnd
  <2> QED
    BY <2>1 DEF ParallelInv, MergeFollowsPlan
<1>2. Len(windows) = n
  <2>1. start \in SizeT /\ Len(tokens) \in Nat
    BY InputFacts DEF ParallelInv, ParallelShape
  <2>2. start = Len(tokens)
    BY <2>1 DEF ParallelInv, PlanFollowsReference, PhasesFollowThePlan, SizeT
  <2> QED
    BY <2>2 DEF ParallelInv, PlanFollowsReference
<1>3. global_results \in Seq(Made)
  BY DEF ParallelInv, ParallelShape
<1>4. ASSUME NEW k \in 1 .. n
      PROVE  global_results[k] =
               [first       |-> RefFirst(options, k - 1),
                last        |-> RefLast(options, Len(tokens), k - 1),
                start_byte  |-> tokens[RefFirst(options, k - 1) + 1].start_byte,
                end_byte    |-> tokens[RefLast(options, Len(tokens), k - 1) - 1 + 1].end_byte,
                chunk_index |-> (k - 1) % IndexModulus]
  <2>1. global_results[k] = MadeOf(k - 1)
    BY <1>1, <1>2 DEF ParallelInv, MergeFollowsPlan
  <2>2. (k - 1) + 1 = k
    OBVIOUS
  <2>3. /\ windows[k].first = RefFirst(options, k - 1)
        /\ windows[k].last = RefLast(options, Len(tokens), k - 1)
    BY <1>2 DEF ParallelInv, PlanFollowsReference
  <2>4. MadeOf(k - 1) = Plain(ChunkAt(tokens, windows[k].first, windows[k].last,
                                      (k - 1) % IndexModulus, FALSE))
    BY <2>2 DEF MadeOf
  <2> QED
    BY <2>1, <2>3, <2>4 DEF Plain, ChunkAt, TokenAt
<1> HIDE DEF n
<1>5. global_results = [k \in 1 .. n |-> global_results[k]]
  BY <1>1, <1>2, <1>3
<1> QED
  BY <1>4, <1>5, AnswerIs DEF n

(* A plan of usable sizes never outgrows memory: it has at most one window  *)
(* for each token.                                                          *)
LEMMA PlanFits ==
  ASSUME ParallelInv, ValidOption(options), start < Len(tokens)
  PROVE  Len(windows) < MaxWindows
<1>1. /\ options \in Option /\ Len(tokens) \in Nat /\ Len(tokens) <= MaxWindows
      /\ Len(windows) \in Nat
  BY InputFacts DEF ParallelInv, ParallelShape
<1>2. start = Len(windows) * Stride(options)
  BY DEF ParallelInv, PlanFollowsReference, AtWindow
<1>3. Stride(options) \in Nat \ {0}
  BY <1>1, StrideType
<1> DEFINE k == Len(windows)
           d == Stride(options)
<1> HIDE DEF k, d
<1>4. k * 1 <= k * d
  BY <1>1, <1>3, ProductMonotone DEF k, d
<1>5. k <= start /\ k \in Nat /\ k * d \in Nat
  BY <1>1, <1>2, <1>3, <1>4 DEF k, d
<1> QED
  BY <1>1, <1>2, <1>5, MemoryAssumption DEF k, d

(* The contract's view of a step that returns: success for usable sizes,    *)
(* and no promise for the others, whose windows the contract leaves open.   *)
LEMMA ReturnIsAllowed ==
  ASSUME ParallelInv, phase # "returned", UNCHANGED <<options, tokens, cancel_token>>,
         NEW result, outcome' = result, result # Contract!Pending,
         ValidOption(options) =>
           \/ result = Contract!Succeeded(Contract!Answer)
           \/ result = Contract!Failed("tokenizer_error")
           \/ result = Contract!Failed("thread_failed")
  PROVE  Contract!ContractNext
<1>1. outcome = Contract!Pending /\ options \in Options
  BY DEF ParallelInv, ParallelShape
<1>2. CASE ValidOption(options)
  <2>1. Contract!ValidOption(options)
    BY <1>2, ContractOperators
  <2> QED
    BY <1>1, <1>2, <2>1 DEF Contract!ContractNext, Contract!Succeed, Contract!Refuse,
                                   Contract!ThreadFails, Contract!Return
<1>3. CASE ~ ValidOption(options)
  BY <1>1, <1>3 DEF Contract!ContractNext, Contract!Unspecified
<1> QED
  BY <1>2, <1>3

(* An answer differs from a call that has not returned.                     *)
LEMMA ResultsAreNotPending ==
  /\ \A chunks : Contract!Succeeded(chunks) # Contract!Pending
  /\ Contract!Failed("tokenizer_error") # Contract!Pending
  /\ Contract!Failed("bad_alloc") # Contract!Pending
  /\ Contract!Failed("thread_failed") # Contract!Pending
BY DEF Contract!Succeeded, Contract!Failed, Contract!Pending

(* A step of the call, seen through its arguments, its token and its        *)
(* outcome, is one of the contract's or leaves all three alone.             *)
LEMMA StepRefines ==
  ASSUME ParallelInv, [ParallelNext]_parallel_vars
  PROVE  [Contract!ContractNext]_(Contract!contract_vars)
<1> USE DEF arguments
<1>1. CASE ReturnEmpty
  <2>1. /\ phase # "returned" /\ UNCHANGED <<options, tokens, cancel_token>>
        /\ outcome' = Contract!Succeeded(<<>>) /\ tokens = <<>>
    BY <1>1 DEF ReturnEmpty, Return
  <2>2. Contract!Answer = <<>>
    <3>1. WindowCount(options, Len(tokens)) = 0
      BY <2>1 DEF WindowCount
    <3> QED
      BY <3>1, AnswerIs
  <2> QED
    BY <2>1, <2>2, ReturnIsAllowed, ResultsAreNotPending
<1>2. CASE Encode
  <2>1. phase # "returned" /\ UNCHANGED <<options, tokens, cancel_token>>
    BY <1>2 DEF Encode
  <2>2. CASE outcome' = outcome
    BY <2>1, <2>2 DEF Contract!contract_vars
  <2>3. CASE outcome' = Contract!Failed("tokenizer_error")
    BY <2>1, <2>3, ReturnIsAllowed, ResultsAreNotPending
  <2> QED
    BY <1>2, <2>2, <2>3 DEF Encode, Return
<1>3. CASE PlanExhaustsMemory
  <2>1. /\ phase # "returned" /\ UNCHANGED <<options, tokens, cancel_token>>
        /\ outcome' = Contract!Failed("bad_alloc")
        /\ start < Len(tokens) /\ Len(windows) = MaxWindows
    BY <1>3 DEF PlanExhaustsMemory, Return
  <2>2. ~ ValidOption(options)
    BY <2>1, PlanFits, MemoryAssumption
  <2> QED
    BY <2>1, <2>2, ReturnIsAllowed, ResultsAreNotPending
<1>4. CASE FallBack
  BY <1>4 DEF FallBack, Contract!ContractNext
<1>5. CASE ReturnMerged
  <2>1. /\ phase = "collecting" /\ collected = Len(futures)
        /\ UNCHANGED <<options, tokens, cancel_token>>
        /\ outcome' = Contract!Succeeded(global_results)
    BY <1>5 DEF ReturnMerged, Return
  <2> QED
    BY <2>1, MergedIsAnswer, ReturnIsAllowed, ResultsAreNotPending
<1>6. CASE TokenChanges
  BY <1>6 DEF TokenChanges, Contract!ContractNext, Contract!TokenChanges
<1>7. CASE \/ PlanWindow \/ PlanDone \/ StartLaunching \/ LaunchTask \/ AllLaunched
           \/ CollectFuture \/ LaunchFails \/ CollectFails
           \/ (\E f \in 1 .. Len(futures) : Worker(f))
           \/ UNCHANGED parallel_vars
  <2>1. UNCHANGED <<options, tokens, cancel_token, outcome>>
    BY <1>7 DEF PlanWindow, PlanDone, StartLaunching, LaunchTask, AllLaunched,
                CollectFuture, LaunchFails, CollectFails, Worker, WorkerChunk,
                WorkerThrows, parallel_vars
  <2> QED
    BY <2>1 DEF Contract!contract_vars
<1>8. CASE Unwind
  <2>1. /\ phase # "returned" /\ UNCHANGED <<options, tokens, cancel_token>>
        /\ outcome' = Contract!Failed("thread_failed")
    BY <1>8 DEF Unwind, Return
  <2> QED
    BY <2>1, ReturnIsAllowed, ResultsAreNotPending
<1> QED
  BY <1>1, <1>2, <1>3, <1>4, <1>5, <1>6, <1>7, <1>8 DEF ParallelNext, Caller

(* A parallel call answers as the sequential one does: for usable sizes the *)
(* windows of the closed form in order, numbered by their place, whatever   *)
(* the number of threads and however the workers interleave.                *)
(* Code: all of include/parallel_chunker.h against src/core/chunker.cpp.    *)
THEOREM ParallelRefinesContract == ParallelSpec => ParallelImplementsContract
<1>1. ParallelInit => Contract!ContractInit
  BY DEF ParallelInit, Contract!ContractInit
<1>2. ParallelInv /\ [ParallelNext]_parallel_vars
        => [Contract!ContractNext]_(Contract!contract_vars)
  BY StepRefines
<1> QED
  BY <1>1, <1>2, ParallelInvariant, PTL
     DEF ParallelSpec, ParallelImplementsContract, Contract!ContractSpec

=============================================================================
