--------------------------- MODULE OperatorProofs ---------------------------
(***************************************************************************)
(* Facts about the operators the models are built from: sequences of       *)
(* sequences laid end to end, and the sliding window, for every number of  *)
(* tokens, every pair of sizes stream_buffer accepts and every width of    *)
(* std::size_t.                                                            *)
(***************************************************************************)
EXTENDS SlidingWindow, SequencesExt, SequenceTheorems, WellFoundedInduction, TLAPS

-----------------------------------------------------------------------------
(* Induction over the natural numbers, by their least counterexample.       *)
LEMMA LeastNatural ==
  ASSUME NEW T, T \subseteq Nat, T # {}
  PROVE  \E n \in T : \A m \in T : n <= m
<1> DEFINE R == {ss \in Nat \X Nat : ss[1] < ss[2]}
<1>1. IsWellFoundedOn(R, Nat)
  BY NatLessThanWellFounded DEF OpToRel
<1>2. \A x, y \in Nat : y < x => <<y, x>> \in R
  OBVIOUS
<1> HIDE DEF R
<1>3. PICK n \in T : \A m \in T : ~ (<<m, n>> \in R)
  BY <1>1, WFMin
<1>4. \A m \in T : ~ (m < n)
  BY <1>2, <1>3
<1>5. \A m \in T : m \in Int /\ n \in Int
  OBVIOUS
<1>6. \A m \in T : n <= m
  BY <1>4, <1>5
<1> QED
  BY <1>6

(* Induction from the end of an interval towards its beginning.             *)
LEMMA FromTheEnd ==
  ASSUME NEW n \in Nat, NEW S,
         \A i \in 0 .. n : (\A j \in i + 1 .. n : j \in S) => i \in S
  PROVE  \A i \in 0 .. n : i \in S
<1> DEFINE T == {m \in 0 .. n : n - m \notin S}
<1>1. T = {}
  <2> SUFFICES ASSUME T # {} PROVE FALSE
    OBVIOUS
  <2>1. PICK m \in T : \A k \in T : m <= k
    <3>1. T \subseteq Nat
      OBVIOUS
    <3> HIDE DEF T
    <3> QED
      BY <3>1, LeastNatural
  <2>2. m \in 0 .. n /\ n - m \in 0 .. n /\ n - m \notin S
    OBVIOUS
  <2>3. ASSUME NEW j \in (n - m) + 1 .. n PROVE j \in S
    <3>1. n - j \in 0 .. n /\ n - (n - j) = j /\ ~ (m <= n - j)
      BY <2>2
    <3> QED
      BY <2>1, <3>1
  <2> QED
    BY <2>2, <2>3
<1> SUFFICES ASSUME NEW i \in 0 .. n PROVE i \in S
  OBVIOUS
<1>2. n - i \in 0 .. n /\ n - (n - i) = i
  OBVIOUS
<1> QED
  BY <1>1, <1>2

(* A function computed from the end of an interval, each value from one     *)
(* further on.                                                              *)
Computable(n, V, base, further, step) ==
  \E f \in [0 .. n -> V] :
    f = [i \in 0 .. n |-> IF i = n THEN base ELSE step[i][f[further[i]]]]

(* It exists.                                                               *)
LEMMA BackwardRecursion ==
  ASSUME NEW n \in Nat, NEW V, NEW base \in V,
         NEW further, \A i \in 0 .. n - 1 : further[i] \in i + 1 .. n,
         NEW step, \A i \in 0 .. n - 1 : \A v \in V : step[i][v] \in V
  PROVE  Computable(n, V, base, further, step)
<1> DEFINE Solves(f, a) ==
             /\ f \in [a .. n -> V]
             /\ \A i \in a .. n : f[i] = IF i = n THEN base ELSE step[i][f[further[i]]]
           S == {a \in 0 .. n : \E f : Solves(f, a)}
<1>1. ASSUME NEW a \in 0 .. n, \A j \in a + 1 .. n : j \in S
      PROVE  a \in S
  <2>1. CASE a = n
    <3> DEFINE f == [i \in n .. n |-> base]
    <3>1. Solves(f, n)
      OBVIOUS
    <3> HIDE DEF Solves, f
    <3> QED
      BY <2>1, <3>1
  <2>2. CASE a # n
    <3>1. a + 1 \in a + 1 .. n /\ a \in 0 .. n - 1 /\ n \in a + 1 .. n
      BY <2>2
    <3>2. PICK g : Solves(g, a + 1)
      <4>1. a + 1 \in S
        BY <1>1, <3>1
      <4> HIDE DEF Solves
      <4> QED
        BY <4>1
    <3> DEFINE f == [i \in a .. n |-> IF i = a THEN step[a][g[further[a]]] ELSE g[i]]
    <3>3. further[a] \in a + 1 .. n /\ g[further[a]] \in V
      BY <3>1, <3>2
    <3>4. \A i \in a .. n : i # a => i \in a + 1 .. n
      OBVIOUS
    <3>5. f \in [a .. n -> V]
      BY <3>1, <3>2, <3>3, <3>4
    <3>6. \A i \in a + 1 .. n : f[i] = g[i]
      OBVIOUS
    <3>7. f[a] = step[a][f[further[a]]]
      BY <3>3, <3>6
    <3>8. ASSUME NEW i \in a + 1 .. n
          PROVE  f[i] = IF i = n THEN base ELSE step[i][f[further[i]]]
      <4>1. g[i] = IF i = n THEN base ELSE step[i][g[further[i]]]
        BY <3>2
      <4>2. i # n => further[i] \in a + 1 .. n
        <5>1. i # n => i \in 0 .. n - 1 /\ further[i] \in i + 1 .. n
          OBVIOUS
        <5> QED
          BY <5>1
      <4> HIDE DEF f
      <4> QED
        BY <3>6, <4>1, <4>2
    <3> HIDE DEF f
    <3>9. Solves(f, a)
      BY <2>2, <3>4, <3>5, <3>7, <3>8
    <3> HIDE DEF Solves
    <3> QED
      BY <3>9
  <2> QED
    BY <2>1, <2>2
<1>2. 0 \in S
  <2> HIDE DEF S
  <2>1. \A a \in 0 .. n : (\A j \in a + 1 .. n : j \in S) => a \in S
    BY <1>1
  <2>2. \A a \in 0 .. n : a \in S
    BY <2>1, FromTheEnd
  <2> QED
    BY <2>2
<1>3. PICK f : Solves(f, 0)
  <2> HIDE DEF Solves
  <2> QED
    BY <1>2
<1>4. f = [i \in 0 .. n |-> f[i]]
  BY <1>3
<1>5. f = [i \in 0 .. n |-> IF i = n THEN base ELSE step[i][f[further[i]]]]
  BY <1>3, <1>4
<1> HIDE DEF Solves
<1> QED
  BY <1>3, <1>5 DEF Computable, Solves

(* A function computed from the end of an interval, each value from all     *)
(* that come behind it.                                                     *)
Fitting(n, V) == {f \in [0 .. n -> UNION {V[i] : i \in 0 .. n}] : \A i \in 0 .. n : f[i] \in V[i]}
ComputableBack(n, V, step) == \E f \in Fitting(n, V) : f = [i \in 0 .. n |-> step[i][f]]

(* It exists.                                                               *)
LEMMA CourseRecursion ==
  ASSUME NEW n \in Nat, NEW V, NEW step, \A i \in 0 .. n : V[i] # {},
         \A i \in 0 .. n : \A f \in Fitting(n, V) : step[i][f] \in V[i],
         \A i \in 0 .. n : \A f, g \in Fitting(n, V) :
           (\A j \in i + 1 .. n : f[j] = g[j]) => step[i][f] = step[i][g]
  PROVE  ComputableBack(n, V, step)
<1> DEFINE Solves(f, a) == f \in Fitting(n, V) /\ \A i \in a .. n : f[i] = step[i][f]
           S == {a \in 0 .. n : \E f : Solves(f, a)}
<1>1. ASSUME NEW a \in 0 .. n, \A j \in a + 1 .. n : j \in S
      PROVE  a \in S
  <2>1. PICK g : Solves(g, a + 1)
    <3>1. CASE a = n
      <4> DEFINE g == [i \in 0 .. n |-> CHOOSE v : v \in V[i]]
      <4>1. \A i \in 0 .. n : g[i] \in V[i]
        OBVIOUS
      <4>2. g \in [0 .. n -> UNION {V[i] : i \in 0 .. n}]
        OBVIOUS
      <4>3. \A i \in a + 1 .. n : FALSE
        BY <3>1
      <4> HIDE DEF g
      <4> QED
        BY <4>1, <4>2, <4>3 DEF Fitting
    <3>2. CASE a # n
      <4>1. a + 1 \in S
        <5> HIDE DEF S
        <5> QED
          BY <1>1, <3>2
      <4> QED
        BY <4>1
    <3> QED
      BY <3>1, <3>2
  <2> DEFINE f == [g EXCEPT ![a] = step[a][g]]
  <2>2. f \in Fitting(n, V) /\ f[a] = step[a][g] /\ \A i \in 0 .. n : i # a => f[i] = g[i]
    BY <2>1 DEF Fitting
  <2> HIDE DEF f
  <2>3. ASSUME NEW i \in a .. n PROVE step[i][f] = step[i][g]
    <3>1. \A j \in i + 1 .. n : f[j] = g[j]
      BY <2>2
    <3> QED
      BY <2>1, <2>2, <3>1
  <2>4. ASSUME NEW i \in a .. n PROVE f[i] = step[i][f]
    <3>1. CASE i = a
      BY <2>2, <2>3, <3>1
    <3>2. CASE i # a
      <4>1. i \in a + 1 .. n /\ i \in 0 .. n
        BY <3>2
      <4> QED
        BY <2>1, <2>2, <2>3, <3>2, <4>1
    <3> QED
      BY <3>1, <3>2
  <2>5. Solves(f, a)
    BY <2>2, <2>4
  <2> HIDE DEF Solves
  <2> QED
    BY <2>5
<1>2. 0 \in S
  <2> HIDE DEF S
  <2>1. \A a \in 0 .. n : (\A j \in a + 1 .. n : j \in S) => a \in S
    BY <1>1
  <2>2. \A a \in 0 .. n : a \in S
    BY <2>1, FromTheEnd
  <2> QED
    BY <2>2
<1>3. PICK f : Solves(f, 0)
  <2> HIDE DEF Solves
  <2> QED
    BY <1>2
<1>4. f = [i \in 0 .. n |-> f[i]]
  BY <1>3 DEF Fitting
<1>5. f = [i \in 0 .. n |-> step[i][f]]
  BY <1>3, <1>4
<1> QED
  BY <1>3, <1>5 DEF ComputableBack

-----------------------------------------------------------------------------
(* Sequences of sequences, laid end to end.                                 *)

(* FlattenSeq, with the function it is computed by written out.             *)
LEMMA FlattenUnfolded ==
  ASSUME NEW seqs, Len(seqs) # 0
  PROVE  FlattenSeq(seqs) =
           (CHOOSE f : f = [i \in 1 .. Len(seqs) |->
                              IF i = 1 THEN seqs[i] ELSE f[i - 1] \o seqs[i]])[Len(seqs)]
BY DEF FlattenSeq

(* The function that lays the first m of them end to end exists.            *)
LEMMA FlattenExists ==
  ASSUME NEW seqs, NEW n \in Nat
  PROVE  \E f : f = [i \in 1 .. n |-> IF i = 1 THEN seqs[i] ELSE f[i - 1] \o seqs[i]]
<1> DEFINE Lays(f, m) ==
             f = [i \in 1 .. m |-> IF i = 1 THEN seqs[i] ELSE f[i - 1] \o seqs[i]]
           T == {m \in Nat : ~ \E f : Lays(f, m)}
<1> SUFFICES ASSUME T # {} PROVE FALSE
  OBVIOUS
<1>1. PICK m \in T : \A k \in T : m <= k
  <2>1. T \subseteq Nat
    OBVIOUS
  <2> HIDE DEF T
  <2> QED
    BY <2>1, LeastNatural
<1>2. m \in Nat /\ ~ \E f : Lays(f, m)
  OBVIOUS
<1>3. m # 0
  <2> DEFINE e == [i \in 1 .. 0 |-> seqs[i]]
  <2>1. Lays(e, 0)
    OBVIOUS
  <2> QED
    BY <1>2, <2>1
<1>4. PICK g : Lays(g, m - 1)
  <2>1. m - 1 \in Nat /\ ~ (m <= m - 1)
    BY <1>2, <1>3
  <2>2. m - 1 \notin T
    BY <1>1, <2>1
  <2> QED
    BY <2>1, <2>2
<1> DEFINE h == [i \in 1 .. m |-> IF i = m THEN (IF m = 1 THEN seqs[m] ELSE g[m - 1] \o seqs[m])
                                  ELSE g[i]]
<1>5. Lays(h, m)
  <2> SUFFICES ASSUME NEW i \in 1 .. m
               PROVE  h[i] = IF i = 1 THEN seqs[i] ELSE h[i - 1] \o seqs[i]
    OBVIOUS
  <2>1. CASE i = m
    <3>1. m # 1 => m - 1 \in 1 .. m /\ m - 1 # m
      BY <1>2, <1>3
    <3> QED
      BY <2>1, <3>1
  <2>2. CASE i # m
    <3>1. i \in 1 .. m - 1 /\ (i # 1 => i - 1 \in 1 .. m /\ i - 1 # m)
      BY <1>2, <2>2
    <3>2. g[i] = IF i = 1 THEN seqs[i] ELSE g[i - 1] \o seqs[i]
      BY <1>4, <3>1
    <3> QED
      BY <2>2, <3>1, <3>2
  <2> QED
    BY <2>1, <2>2
<1> QED
  BY <1>2, <1>5

(* What lies before each of the sequences.                                  *)
LEMMA FlattenGrows ==
  ASSUME NEW S, NEW seqs \in Seq(Seq(S))
  PROVE  /\ FlattenSeq(SubSeq(seqs, 1, 0)) = <<>>
         /\ \A m \in 0 .. Len(seqs) : FlattenSeq(SubSeq(seqs, 1, m)) \in Seq(S)
         /\ \A m \in 1 .. Len(seqs) :
              FlattenSeq(SubSeq(seqs, 1, m)) = FlattenSeq(SubSeq(seqs, 1, m - 1)) \o seqs[m]
         /\ FlattenSeq(SubSeq(seqs, 1, Len(seqs))) = FlattenSeq(seqs)
<1> DEFINE n == Len(seqs)
           Lays(f, t, m) ==
             f = [i \in 1 .. m |-> IF i = 1 THEN t[i] ELSE f[i - 1] \o t[i]]
           First(m) == SubSeq(seqs, 1, m)
<1>1. n \in Nat /\ \A i \in 1 .. n : seqs[i] \in Seq(S)
  OBVIOUS
<1>2. PICK g : Lays(g, seqs, n)
  BY <1>1, FlattenExists
<1>3. \A i \in 1 .. n : g[i] = IF i = 1 THEN seqs[i] ELSE g[i - 1] \o seqs[i]
  BY <1>2
<1>4. \A i \in 1 .. n : g[i] \in Seq(S)
  <2> DEFINE T == {i \in 1 .. n : g[i] \notin Seq(S)}
  <2> SUFFICES ASSUME T # {} PROVE FALSE
    OBVIOUS
  <2>1. PICK i \in T : \A k \in T : i <= k
    <3>1. T \subseteq Nat
      BY <1>1
    <3> HIDE DEF T
    <3> QED
      BY <3>1, LeastNatural
  <2>2. i \in 1 .. n /\ g[i] \notin Seq(S)
    OBVIOUS
  <2>3. i # 1
    BY <1>1, <1>3, <2>2
  <2>4. i - 1 \in 1 .. n /\ ~ (i <= i - 1)
    BY <1>1, <2>2, <2>3
  <2>5. g[i - 1] \in Seq(S)
    BY <2>1, <2>4
  <2>6. g[i - 1] \o seqs[i] \in Seq(S)
    BY <1>1, <2>2, <2>5, ConcatProperties
  <2> QED
    BY <1>3, <2>2, <2>3, <2>6
<1>5. ASSUME NEW m \in 1 .. n
      PROVE  FlattenSeq(First(m)) = g[m]
  <2>1. Len(First(m)) = m /\ \A i \in 1 .. m : First(m)[i] = seqs[i]
    BY <1>1
  <2> DEFINE t == First(m)
             f == CHOOSE f : Lays(f, t, m)
  <2>2. Lays(f, t, m)
    <3>1. \E e : Lays(e, t, m)
      <4>1. m \in Nat
        BY <1>1
      <4> QED
        BY <4>1, FlattenExists
    <3> HIDE DEF Lays
    <3> QED
      BY <3>1
  <2>3. FlattenSeq(t) = f[m]
    <3>1. Len(t) = m /\ Len(t) # 0
      BY <1>1, <2>1
    <3> HIDE DEF t
    <3>2. FlattenSeq(t) = (CHOOSE e : Lays(e, t, Len(t)))[Len(t)]
      BY <3>1, FlattenUnfolded, ZenonT(40)
    <3> QED
      BY <3>1, <3>2
  <2>4. \A i \in 1 .. m : f[i] = IF i = 1 THEN t[i] ELSE f[i - 1] \o t[i]
    BY <2>2, ZenonT(40)
  <2> HIDE DEF f, t
  <2>5. \A i \in 1 .. m : t[i] = seqs[i]
    BY <2>1 DEF t
  <2> DEFINE T == {i \in 1 .. m : f[i] # g[i]}
  <2>6. T = {}
    <3> SUFFICES ASSUME T # {} PROVE FALSE
      OBVIOUS
    <3>1. PICK i \in T : \A k \in T : i <= k
      <4>1. T \subseteq Nat
        BY <1>1
      <4> HIDE DEF T
      <4> QED
        BY <4>1, LeastNatural
    <3>2. i \in 1 .. m /\ i \in 1 .. n /\ f[i] # g[i]
      BY <1>1
    <3>3. i # 1
      BY <1>3, <2>4, <2>5, <3>2
    <3>4. i - 1 \in 1 .. m /\ ~ (i <= i - 1)
      BY <1>1, <3>2, <3>3
    <3>5. f[i - 1] = g[i - 1]
      BY <3>1, <3>4
    <3> QED
      BY <1>3, <2>4, <2>5, <3>2, <3>3, <3>5
  <2>7. m \in 1 .. m
    BY <1>1
  <2>8. f[m] = g[m]
    BY <2>6, <2>7
  <2> QED
    BY <2>3, <2>8 DEF t
<1>6. First(0) = <<>> /\ FlattenSeq(<<>>) = <<>>
  <2>1. First(0) = <<>>
    BY <1>1
  <2> QED
    BY <2>1 DEF FlattenSeq
<1>7. First(n) = seqs
  BY <1>1
<1>8. ASSUME NEW m \in 1 .. n
      PROVE  FlattenSeq(First(m)) = FlattenSeq(First(m - 1)) \o seqs[m]
  <2>1. CASE m = 1
    <3>1. FlattenSeq(First(m - 1)) = <<>>
      <4>1. m - 1 = 0
        BY <2>1
      <4> HIDE DEF First
      <4> QED
        BY <1>6, <4>1
    <3>2. FlattenSeq(First(m)) = seqs[m] /\ seqs[m] \in Seq(S)
      BY <1>1, <1>3, <1>5, <2>1
    <3>3. <<>> \o seqs[m] = seqs[m]
      BY <3>2, ConcatEmptySeq
    <3> QED
      BY <3>1, <3>2, <3>3
  <2>2. CASE m # 1
    <3>1. m - 1 \in 1 .. n
      BY <1>1, <2>2
    <3>2. FlattenSeq(First(m)) = g[m] /\ FlattenSeq(First(m - 1)) = g[m - 1]
      BY <1>5, <3>1
    <3> QED
      BY <1>3, <2>2, <3>2
  <2> QED
    BY <2>1, <2>2
<1>9. \A m \in 0 .. n : FlattenSeq(First(m)) \in Seq(S)
  <2> SUFFICES ASSUME NEW m \in 0 .. n PROVE FlattenSeq(First(m)) \in Seq(S)
    OBVIOUS
  <2>1. m = 0 \/ m \in 1 .. n
    BY <1>1
  <2>2. <<>> \in Seq(S)
    OBVIOUS
  <2> QED
    BY <1>4, <1>5, <1>6, <2>1, <2>2
<1> QED
  BY <1>6, <1>7, <1>8, <1>9

(* Each of the sequences lies in `all` behind those before it, of which     *)
(* there are B, and everything lies in one of them.                         *)
LaidOut(seqs, all, B) ==
  /\ B[0] = 0 /\ B[Len(seqs)] = Len(all)
  /\ \A m \in 0 .. Len(seqs) : B[m] \in Nat
  /\ \A m \in 1 .. Len(seqs) : B[m] = B[m - 1] + Len(seqs[m])
  /\ \A m \in 0 .. Len(seqs) : \A l \in 0 .. m : B[l] <= B[m]
  /\ \A m \in 1 .. Len(seqs) : \A k \in 1 .. Len(seqs[m]) : all[B[m - 1] + k] = seqs[m][k]
  /\ \A i \in 1 .. Len(all) : \E m \in 1 .. Len(seqs) : B[m - 1] < i /\ i <= B[m]

(* FlattenSeq lays the sequences out.                                       *)
LEMMA LaidEndToEnd ==
  ASSUME NEW S, NEW seqs \in Seq(Seq(S)),
         NEW All, All = FlattenSeq(seqs),
         NEW B, B = [m \in 0 .. Len(seqs) |-> Len(FlattenSeq(SubSeq(seqs, 1, m)))]
  PROVE  All \in Seq(S) /\ LaidOut(seqs, All, B)
<1> DEFINE n == Len(seqs)
           F == [m \in 0 .. n |-> FlattenSeq(SubSeq(seqs, 1, m))]
<1>1. n \in Nat /\ \A m \in 1 .. n : seqs[m] \in Seq(S) /\ Len(seqs[m]) \in Nat
  OBVIOUS
<1>2. \A m \in 0 .. n : F[m] \in Seq(S) /\ B[m] = Len(F[m]) /\ B[m] \in Nat
  <2>1. \A m \in 0 .. n : F[m] \in Seq(S)
    BY FlattenGrows
  <2>2. \A m \in 0 .. n : B[m] = Len(F[m])
    OBVIOUS
  <2> HIDE DEF F
  <2>3. \A m \in 0 .. n : Len(F[m]) \in Nat
    BY <2>1
  <2> QED
    BY <2>1, <2>2, <2>3
<1>3. F[0] = <<>> /\ F[n] = All
  BY <1>1, FlattenGrows, SMTT(30)
<1>4. \A m \in 1 .. n : m - 1 \in 0 .. n /\ m \in 0 .. n
  BY <1>1
<1>5. \A m \in 1 .. n : F[m] = F[m - 1] \o seqs[m]
  BY <1>4, FlattenGrows
<1> HIDE DEF F, n
<1>6. n = Len(seqs)
  BY DEF n
<1>7. B[0] = 0 /\ B[n] = Len(All) /\ All \in Seq(S)
  <2>1. 0 \in 0 .. n /\ n \in 0 .. n /\ Len(<<>>) = 0
    BY <1>1
  <2> QED
    BY <1>2, <1>3, <2>1
<1>8. ASSUME NEW m \in 1 .. n
      PROVE  /\ B[m] = B[m - 1] + Len(seqs[m])
             /\ \A k \in 1 .. B[m - 1] : F[m][k] = F[m - 1][k]
             /\ \A k \in 1 .. Len(seqs[m]) : F[m][B[m - 1] + k] = seqs[m][k]
  <2> DEFINE a == F[m - 1]
             b == seqs[m]
  <2>1. a \in Seq(S) /\ b \in Seq(S) /\ F[m] = a \o b /\ B[m] = Len(F[m]) /\ B[m - 1] = Len(a)
    BY <1>1, <1>2, <1>4, <1>5
  <2> HIDE DEF a, b
  <2>2. /\ Len(a \o b) = Len(a) + Len(b)
        /\ \A i \in 1 .. Len(a) + Len(b) : (a \o b)[i] = IF i <= Len(a) THEN a[i] ELSE b[i - Len(a)]
    BY <2>1, ConcatProperties
  <2>3. Len(a) \in Nat /\ Len(b) \in Nat
    BY <2>1
  <2>4. \A k \in 1 .. Len(a) : (a \o b)[k] = a[k]
    <3>1. \A k \in 1 .. Len(a) : k \in 1 .. Len(a) + Len(b) /\ k <= Len(a)
      BY <2>3
    <3> QED
      BY <2>2, <3>1
  <2>5. \A k \in 1 .. Len(b) : (a \o b)[Len(a) + k] = b[k]
    <3>1. \A k \in 1 .. Len(b) : /\ Len(a) + k \in 1 .. Len(a) + Len(b)
                                 /\ ~ (Len(a) + k <= Len(a)) /\ (Len(a) + k) - Len(a) = k
      BY <2>3
    <3> QED
      BY <2>2, <3>1
  <2> QED
    BY <2>1, <2>2, <2>4, <2>5 DEF a, b
<1>9. ASSUME NEW l \in 0 .. n, NEW m \in 0 .. n, l <= m
      PROVE  B[l] <= B[m] /\ \A k \in 1 .. B[l] : F[m][k] = F[l][k]
  <2> DEFINE Extends(j) == B[l] <= B[j] /\ \A k \in 1 .. B[l] : F[j][k] = F[l][k]
             T == {j \in l .. n : ~ Extends(j)}
  <2>1. T = {}
    <3> SUFFICES ASSUME T # {} PROVE FALSE
      OBVIOUS
    <3>1. PICK j \in T : \A i \in T : j <= i
      <4>1. T \subseteq Nat
        BY <1>1
      <4> HIDE DEF T
      <4> QED
        BY <4>1, LeastNatural
    <3>2. j \in l .. n /\ ~ Extends(j) /\ l \in Nat
      <4>1. j \in l .. n /\ ~ Extends(j)
        OBVIOUS
      <4> HIDE DEF Extends
      <4> QED
        BY <1>1, <4>1
    <3>3. B[l] \in Nat /\ B[l] <= B[l]
      BY <1>2
    <3>4. j # l
      BY <3>2, <3>3
    <3>5. j - 1 \in l .. n /\ j \in 1 .. n /\ j - 1 \in 0 .. n /\ j \in 0 .. n /\ ~ (j <= j - 1)
      BY <1>1, <3>2, <3>4
    <3>6. Extends(j - 1)
      BY <3>1, <3>5
    <3>7. /\ B[j] = B[j - 1] + Len(seqs[j]) /\ Len(seqs[j]) \in Nat
          /\ \A k \in 1 .. B[j - 1] : F[j][k] = F[j - 1][k]
      BY <1>1, <1>8, <3>5
    <3>8. B[j] \in Nat /\ B[j - 1] \in Nat
      BY <1>2, <3>5
    <3>9. B[l] <= B[j]
      BY <3>3, <3>6, <3>7, <3>8, SMTT(30)
    <3>10. \A k \in 1 .. B[l] : k \in 1 .. B[j - 1]
      BY <3>3, <3>6, <3>8
    <3> QED
      BY <3>2, <3>6, <3>7, <3>9, <3>10
  <2>2. m \in l .. n
    BY <1>1, <1>9
  <2> QED
    BY <2>1, <2>2
<1>10. ASSUME NEW m \in 1 .. n, NEW k \in 1 .. Len(seqs[m])
       PROVE  All[B[m - 1] + k] = seqs[m][k]
  <2>1. m \in 0 .. n /\ n \in 0 .. n /\ m <= n
    BY <1>1
  <2>2. \A i \in 1 .. B[m] : F[n][i] = F[m][i]
    BY <1>9, <2>1
  <2>3. B[m - 1] \in Nat /\ Len(seqs[m]) \in Nat /\ B[m] = B[m - 1] + Len(seqs[m])
    BY <1>1, <1>2, <1>4, <1>8
  <2>4. B[m - 1] + k \in 1 .. B[m]
    BY <2>3
  <2> QED
    BY <1>3, <1>8, <2>2, <2>4
<1>11. ASSUME NEW i \in 1 .. Len(All)
       PROVE  \E m \in 1 .. n : B[m - 1] < i /\ i <= B[m]
  <2> DEFINE T == {m \in 0 .. n : i <= B[m]}
  <2>1. n \in T
    BY <1>1, <1>7
  <2>2. PICK m \in T : \A l \in T : m <= l
    <3>1. T \subseteq Nat
      BY <1>1
    <3> HIDE DEF T
    <3> QED
      BY <2>1, <3>1, LeastNatural
  <2>3. m \in 0 .. n /\ i <= B[m]
    OBVIOUS
  <2>4. m # 0
    BY <1>7, <2>3
  <2>5. m \in 1 .. n /\ m - 1 \in 0 .. n /\ ~ (m <= m - 1)
    BY <1>1, <2>3, <2>4
  <2>6. ~ (i <= B[m - 1])
    BY <2>2, <2>5
  <2>7. B[m - 1] \in Nat /\ i \in Int
    <3>1. Len(All) \in Nat
      BY <1>7
    <3> QED
      BY <1>2, <2>5, <3>1
  <2>8. B[m - 1] < i
    BY <2>6, <2>7
  <2> QED
    BY <2>3, <2>5, <2>8
<1>12. \A m \in 0 .. n : \A l \in 0 .. m : B[l] <= B[m]
  <2> SUFFICES ASSUME NEW m \in 0 .. n, NEW l \in 0 .. m PROVE B[l] <= B[m]
    OBVIOUS
  <2>1. l \in 0 .. n /\ l <= m
    BY <1>1
  <2> QED
    BY <1>9, <2>1
<1> QED
  BY <1>2, <1>6, <1>7, <1>8, <1>10, <1>11, <1>12 DEF LaidOut

-----------------------------------------------------------------------------
(* Division.                                                                *)

(* A number already below the modulus is its own remainder.                 *)
LEMMA ModSmall ==
  ASSUME NEW m \in Nat \ {0}, NEW x \in Nat, x < m
  PROVE  x % m = x
OBVIOUS

(* A product grows with each factor.                                        *)
LEMMA ProductMonotone ==
  ASSUME NEW m \in Nat, NEW a \in Int, NEW b \in Int, a <= b
  PROVE  a * m <= b * m
<1>1. (b - a) * m >= 0
  OBVIOUS
<1>2. (b - a) * m = b * m - a * m
  OBVIOUS
<1> QED
  BY <1>1, <1>2

(* Quotient and remainder are unique.                                       *)
LEMMA DivisionUnique ==
  ASSUME NEW m \in Nat \ {0}, NEW q \in Int, NEW r \in 0 .. m - 1
  PROVE  /\ (q * m + r) % m = r
         /\ (q * m + r) \div m = q
<1> DEFINE x == q * m + r
           d == x \div m
           e == x % m
<1>0. x \in Int /\ d \in Int /\ e \in 0 .. m - 1 /\ x = d * m + e
  OBVIOUS
<1>1. (d - q) * m = r - e
  BY <1>0
<1>2. ~ (d >= q + 1)
  <2> SUFFICES ASSUME d >= q + 1 PROVE FALSE
    OBVIOUS
  <2>1. 1 * m <= (d - q) * m
    BY <1>0, ProductMonotone
  <2> QED
    BY <2>1, <1>0, <1>1
<1>3. ~ (d <= q - 1)
  <2> SUFFICES ASSUME d <= q - 1 PROVE FALSE
    OBVIOUS
  <2>1. (d - q) * m <= (-1) * m
    BY <1>0, ProductMonotone
  <2> QED
    BY <2>1, <1>0, <1>1
<1>4. d = q
  BY <1>0, <1>2, <1>3
<1>5. e = r
  BY <1>0, <1>4
<1> QED
  BY <1>4, <1>5

(* The quotient of a number between two neighbouring multiples.             *)
LEMMA Quotient ==
  ASSUME NEW m \in Nat \ {0}, NEW q \in Int, NEW x \in Int, x - q * m \in 0 .. m - 1
  PROVE  x \div m = q
<1> DEFINE r == x - q * m
<1>1. (q * m + r) \div m = q
  BY DivisionUnique
<1>2. q * m + r = x
  OBVIOUS
<1> QED
  BY <1>1, <1>2

(* Adding one to a remainder and reducing again is counting modulo m.       *)
LEMMA ModSuccessor ==
  ASSUME NEW m \in Nat \ {0}, NEW x \in Nat
  PROVE  ((x % m) + 1) % m = (x + 1) % m
<1> DEFINE q == x \div m
           r == x % m
<1>0. q \in Int /\ r \in 0 .. m - 1 /\ x = q * m + r
  OBVIOUS
<1>1. CASE r + 1 < m
  <2>1. r + 1 \in 0 .. m - 1
    BY <1>0, <1>1
  <2>2. (q * m + (r + 1)) % m = r + 1
    BY <1>0, <2>1, DivisionUnique
  <2>3. (r + 1) % m = r + 1
    BY <1>0, <1>1, ModSmall
  <2>4. q * m + (r + 1) = x + 1
    BY <1>0
  <2> QED
    BY <2>2, <2>3, <2>4
<1>2. CASE r + 1 = m
  <2>1. ((q + 1) * m + 0) % m = 0
    BY <1>0, DivisionUnique
  <2>2. (1 * m + 0) % m = 0
    BY DivisionUnique
  <2>3. (q + 1) * m + 0 = x + 1
    BY <1>0, <1>2
  <2>4. 1 * m + 0 = r + 1
    BY <1>0, <1>2
  <2> QED
    BY <2>1, <2>2, <2>3, <2>4
<1> QED
  BY <1>0, <1>1, <1>2

-----------------------------------------------------------------------------
(* The window.                                                              *)

(* A window is a stride and an overlap.                                     *)
LEMMA StrideType ==
  ASSUME NEW o \in Option, ValidOption(o)
  PROVE  /\ o.max_tokens \in Nat \ {0}
         /\ o.overlap_tokens \in Nat
         /\ Stride(o) \in Nat \ {0}
         /\ o.max_tokens = Stride(o) + o.overlap_tokens
         /\ o.max_tokens < SizeModulus
BY ModulusAssumption DEF Option, ValidOption, Stride, SizeT

(* Where the k-th window may begin while the input has tokens left: right   *)
(* behind the strides of the windows before it, and, from the second window *)
(* on, with more than the overlap still to come.                            *)
AtWindow(o, tokens, k, s) ==
  /\ s = k * Stride(o)
  /\ s < Len(tokens)
  /\ k > 0 => s + o.overlap_tokens < Len(tokens)

(* start + max_tokens never wraps around std::size_t, although max_tokens   *)
(* may be as large as the largest std::size_t.                              *)
LEMMA NoWrapAround ==
  ASSUME NEW o \in Option, ValidOption(o),
         NEW tokens \in Seq(Token), FitsMemory(tokens),
         NEW k \in Nat, NEW s \in Nat, AtWindow(o, tokens, k, s)
  PROVE  (s + o.max_tokens) % SizeModulus = s + o.max_tokens
<1>0. /\ o.max_tokens \in Nat \ {0} /\ o.overlap_tokens \in Nat
      /\ Stride(o) \in Nat \ {0}
      /\ o.max_tokens = Stride(o) + o.overlap_tokens
      /\ o.max_tokens < SizeModulus
      /\ SizeModulus \in Nat \ {0}
      /\ Len(tokens) \in Nat
  BY StrideType, ModulusAssumption
<1>1. s + o.max_tokens < SizeModulus
  <2>1. CASE k = 0
    BY <1>0, <2>1 DEF AtWindow
  <2>2. CASE k >= 1
    <3>1. 1 * Stride(o) <= k * Stride(o)
      BY <1>0, <2>2, ProductMonotone
    <3>2. Stride(o) <= s /\ s + o.overlap_tokens < Len(tokens) /\ s < Len(tokens)
      BY <1>0, <2>2, <3>1 DEF AtWindow
    <3>3. o.max_tokens < Len(tokens)
      BY <1>0, <3>2
    <3> QED
      BY <1>0, <3>2, <3>3 DEF FitsMemory
  <2> QED
    BY <2>1, <2>2
<1>2. s + o.max_tokens \in Nat
  BY <1>0
<1> QED
  BY <1>0, <1>1, <1>2, ModSmall

(* One turn of the window computes the next window of the closed form.      *)
LEMMA WindowStep ==
  ASSUME NEW o \in Option, ValidOption(o),
         NEW tokens \in Seq(Token), FitsMemory(tokens),
         NEW k \in Nat, NEW s \in Nat, AtWindow(o, tokens, k, s)
  PROVE  /\ s = RefFirst(o, k)
         /\ WindowEnd(o, tokens, s) = RefLast(o, Len(tokens), k)
         /\ WindowEnd(o, tokens, s) \in s + 1 .. Len(tokens)
         /\ WindowEnd(o, tokens, s) = Len(tokens) =>
              NextStart(o, tokens, s) = Len(tokens)
         /\ WindowEnd(o, tokens, s) # Len(tokens) =>
              /\ WindowEnd(o, tokens, s) = s + o.max_tokens
              /\ NextStart(o, tokens, s) = WindowEnd(o, tokens, s) - o.overlap_tokens
              /\ AtWindow(o, tokens, k + 1, NextStart(o, tokens, s))
<1> DEFINE end == WindowEnd(o, tokens, s)
           N == Len(tokens)
<1>0. /\ o.max_tokens \in Nat \ {0} /\ o.overlap_tokens \in Nat
      /\ Stride(o) \in Nat \ {0}
      /\ o.max_tokens = Stride(o) + o.overlap_tokens
      /\ SizeModulus \in Nat \ {0}
      /\ N \in Nat
  BY StrideType, ModulusAssumption
<1>1. s = k * Stride(o) /\ s < N
  BY DEF AtWindow
<1>2. end = LesserOf(s + o.max_tokens, N)
  BY NoWrapAround DEF WindowEnd
<1>3. s = RefFirst(o, k) /\ end = RefLast(o, N, k)
  BY <1>1, <1>2 DEF RefFirst, RefLast
<1>4. end \in s + 1 .. N
  BY <1>0, <1>1, <1>2 DEF LesserOf
<1>5. ASSUME end = N PROVE NextStart(o, tokens, s) = N
  BY <1>5 DEF NextStart
<1>6. ASSUME end # N
      PROVE  /\ end = s + o.max_tokens
             /\ NextStart(o, tokens, s) = end - o.overlap_tokens
             /\ AtWindow(o, tokens, k + 1, NextStart(o, tokens, s))
  <2>1. end = s + o.max_tokens /\ end < N
    BY <1>0, <1>1, <1>2, <1>6 DEF LesserOf
  <2>2. end - o.overlap_tokens = (k + 1) * Stride(o)
    BY <1>0, <1>1, <2>1
  <2>3. end - o.overlap_tokens \in Nat
    BY <1>0, <1>1, <2>1
  <2>4. end - o.overlap_tokens < SizeModulus
    <3>1. 2 * N <= SizeModulus
      BY DEF FitsMemory
    <3>2. end \in Nat
      BY <1>0, <1>4
    <3> DEFINE lap == o.overlap_tokens
    <3>3. lap \in Nat /\ N \in Nat /\ end < N
      BY <1>0, <2>1
    <3> HIDE DEF end, N, lap
    <3>4. end - lap < SizeModulus
      BY <3>1, <3>2, <3>3, ModulusAssumption
    <3> QED
      BY <3>4 DEF lap
  <2>5. (end - o.overlap_tokens) % SizeModulus = end - o.overlap_tokens
    BY <1>0, <2>3, <2>4, ModSmall
  <2>6. NextStart(o, tokens, s) = end - o.overlap_tokens
    <3>1. ASSUME IsOversized(o, tokens, s)
          PROVE  NextStart(o, tokens, s) = end - o.overlap_tokens
      <4>1. end = s + 1
        BY <3>1 DEF IsOversized
      <4>2. o.overlap_tokens = 0
        BY <1>0, <1>1, <2>1, <4>1
      <4>3. NextStart(o, tokens, s) = end
        BY <3>1 DEF NextStart
      <4>4. end \in Int
        BY <1>0, <1>1, <2>1
      <4> HIDE DEF end
      <4> QED
        BY <4>2, <4>3, <4>4
    <3>2. ASSUME ~ IsOversized(o, tokens, s)
          PROVE  NextStart(o, tokens, s) = end - o.overlap_tokens
      BY <1>6, <2>5, <3>2 DEF NextStart
    <3> QED
      BY <3>1, <3>2
  <2>7. AtWindow(o, tokens, k + 1, end - o.overlap_tokens)
    <3>1. end \in Nat /\ N \in Nat /\ o.overlap_tokens \in Nat
      BY <1>0, <1>1, <2>1
    <3>2. end - o.overlap_tokens < N
      <4> HIDE DEF end, N
      <4> QED
        BY <2>1, <3>1
    <3>3. (end - o.overlap_tokens) + o.overlap_tokens < N
      <4> HIDE DEF end, N
      <4> QED
        BY <2>1, <3>1
    <3> QED
      BY <2>2, <3>2, <3>3 DEF AtWindow
  <2> QED
    BY <2>1, <2>6, <2>7
<1> QED
  BY <1>3, <1>4, <1>5, <1>6

(* The window that reaches the end of the input is the last of the closed   *)
(* form.                                                                    *)
LEMMA LastWindow ==
  ASSUME NEW o \in Option, ValidOption(o),
         NEW tokens \in Seq(Token), FitsMemory(tokens),
         NEW k \in Nat, NEW s \in Nat, AtWindow(o, tokens, k, s),
         WindowEnd(o, tokens, s) = Len(tokens)
  PROVE  WindowCount(o, Len(tokens)) = k + 1
<1> DEFINE n == Len(tokens)
           d == Stride(o)
           e == o.overlap_tokens
<1>1. /\ o.max_tokens \in Nat \ {0} /\ e \in Nat /\ d \in Nat \ {0}
      /\ o.max_tokens = d + e /\ n \in Nat
  BY StrideType
<1>2. s = k * d /\ s < n /\ (k > 0 => s + e < n)
  BY DEF AtWindow
<1>3. n <= s + o.max_tokens
  <2>1. n = LesserOf(s + o.max_tokens, n)
    BY NoWrapAround DEF WindowEnd
  <2> QED
    BY <1>1, <2>1 DEF LesserOf
<1>4. CASE k = 0
  BY <1>1, <1>2, <1>3, <1>4 DEF WindowCount
<1>5. CASE k > 0
  <2>1. 1 * d <= k * d
    BY <1>1, <1>5, ProductMonotone
  <2>2. n > o.max_tokens
    <3> HIDE DEF n, d, e
    <3> QED
      BY <1>1, <1>2, <1>5, <2>1
  <2>3. WindowCount(o, n) = ((n - e - 1) \div d) + 1
    BY <1>1, <2>2 DEF WindowCount
  <2>4. n - e - 1 - k * d \in 0 .. d - 1
    <3> HIDE DEF n, d, e
    <3> QED
      BY <1>1, <1>2, <1>3, <1>5
  <2>5. (n - e - 1) \div d = k
    <3>1. n - e - 1 \in Int /\ k \in Int
      BY <1>1
    <3> HIDE DEF n, d, e
    <3> QED
      BY <1>1, <2>4, <3>1, Quotient
  <2> QED
    BY <2>3, <2>5
<1> QED
  BY <1>4, <1>5

(* The loop's variables are std::size_t, also for sizes nobody accepts.     *)
LEMMA WindowType ==
  ASSUME NEW o \in Option, NEW tokens \in Seq(Token), FitsMemory(tokens),
         NEW s \in SizeT
  PROVE  /\ WindowEnd(o, tokens, s) \in SizeT
         /\ WindowEnd(o, tokens, s) <= Len(tokens)
         /\ NextStart(o, tokens, s) \in SizeT
<1> DEFINE end == WindowEnd(o, tokens, s)
<1>1. /\ o.max_tokens \in Nat /\ o.overlap_tokens \in Nat /\ s \in Nat
      /\ SizeModulus \in Nat \ {0} /\ Len(tokens) \in Nat
      /\ 2 * Len(tokens) <= SizeModulus
  BY ModulusAssumption DEF Option, SizeT, FitsMemory
<1>2. (s + o.max_tokens) % SizeModulus \in 0 .. SizeModulus - 1
  BY <1>1
<1>3. end \in SizeT /\ end <= Len(tokens)
  BY <1>1, <1>2 DEF WindowEnd, LesserOf, SizeT
<1>4. (end - o.overlap_tokens) % SizeModulus \in SizeT
  <2>1. end \in Int
    BY <1>3 DEF SizeT
  <2> HIDE DEF end
  <2> QED
    BY <1>1, <2>1 DEF SizeT
<1>5. NextStart(o, tokens, s) \in SizeT
  BY <1>3, <1>4 DEF NextStart
<1> QED
  BY <1>3, <1>5

-----------------------------------------------------------------------------
(* Chunks.                                                                  *)

(* k tasks of the rounded-up size hold n windows.                           *)
LEMMA RoundedUp ==
  ASSUME NEW n \in Nat \ {0}, NEW t \in Nat \ {0}
  PROVE  /\ (n + t - 1) \div t \in Nat \ {0}
         /\ t * ((n + t - 1) \div t) >= n
<1> DEFINE d == (n + t - 1) \div t
           e == (n + t - 1) % t
<1>1. d \in Int /\ e \in 0 .. t - 1 /\ n + t - 1 = d * t + e
  OBVIOUS
<1>2. d * t = t * d
  BY <1>1
<1> HIDE DEF d, e
<1>3. d * t >= n
  BY <1>1
<1>4. ~ (d <= 0)
  <2> SUFFICES ASSUME d <= 0 PROVE FALSE
    OBVIOUS
  <2>1. d * t <= 0 * t
    BY <1>1, ProductMonotone
  <2> QED
    BY <1>1, <1>3, <2>1
<1> QED
  BY <1>1, <1>2, <1>3, <1>4 DEF d

(* The closed form counts in natural numbers.                               *)
LEMMA WindowCountType ==
  ASSUME NEW o \in Option, ValidOption(o), NEW n \in Nat
  PROVE  WindowCount(o, n) \in Nat
<1>1. /\ o.max_tokens \in Nat \ {0} /\ o.overlap_tokens \in Nat
      /\ Stride(o) \in Nat \ {0} /\ o.max_tokens = Stride(o) + o.overlap_tokens
  BY StrideType
<1>2. CASE n > o.max_tokens
  <2> DEFINE x == n - o.overlap_tokens - 1
             d == Stride(o)
  <2>1. x \in Nat /\ d \in Nat \ {0}
    BY <1>1, <1>2
  <2>2. x \div d \in Nat
    <3> HIDE DEF x, d
    <3>1. x \div d \in Int /\ x % d \in 0 .. d - 1 /\ x = (x \div d) * d + (x % d)
      BY <2>1
    <3> QED
      BY <2>1
  <2>3. WindowCount(o, n) = (x \div d) + 1
    BY <1>1, <1>2 DEF WindowCount
  <2> QED
    BY <2>2, <2>3
<1>3. CASE ~ (n > o.max_tokens)
  BY <1>1, <1>3 DEF WindowCount
<1> QED
  BY <1>2, <1>3

(* The closed form's last window begins before the end of n tokens and      *)
(* reaches it.                                                              *)
LEMMA WindowsSpan ==
  ASSUME NEW o \in Option, ValidOption(o), NEW n \in Nat \ {0}
  PROVE  LET c == WindowCount(o, n) IN
         /\ c \in Nat \ {0}
         /\ (c - 1) * Stride(o) < n
         /\ n <= (c - 1) * Stride(o) + o.max_tokens
<1> DEFINE d == Stride(o)
           e == o.overlap_tokens
           m == o.max_tokens
           c == WindowCount(o, n)
<1>1. m \in Nat \ {0} /\ e \in Nat /\ d \in Nat \ {0} /\ m = d + e
  BY StrideType
<1>2. CASE n <= m
  <2>1. c = 1
    BY <1>2 DEF WindowCount
  <2>2. (c - 1) * d = 0
    BY <1>1, <2>1
  <2> QED
    BY <1>1, <1>2, <2>1, <2>2
<1>3. CASE n > m
  <2> DEFINE x == n - e - 1
             q == x \div d
             r == x % d
  <2>1. c = q + 1
    BY <1>1, <1>3 DEF WindowCount
  <2>2. x \in Nat
    BY <1>1, <1>3
  <2>3. q \in Int /\ r \in 0 .. d - 1 /\ x = q * d + r
    <3> HIDE DEF x, d
    <3> QED
      BY <1>1, <2>2
  <2>4. q \in Nat
    <3> HIDE DEF x, d, r, q
    <3> QED
      BY <1>1, <2>2, <2>3
  <2>5. c - 1 = q /\ c \in Nat \ {0}
    <3> HIDE DEF c, q
    <3> QED
      BY <2>1, <2>4
  <2>6. q * d = n - e - 1 - r
    <3> DEFINE y == q * d
    <3>1. y \in Int
      BY <1>1, <2>4
    <3> HIDE DEF y, r
    <3> QED
      BY <1>1, <2>3
  <2> HIDE DEF d, e, m, c, r
  <2>7. (c - 1) * d = n - e - 1 - r
    BY <2>5, <2>6
  <2>8. (c - 1) * d < n /\ n <= (c - 1) * d + m
    BY <1>1, <2>3, <2>7
  <2> QED
    BY <2>5, <2>8 DEF d, m, c
<1> QED
  BY <1>2, <1>3, <1>1

(* Every token is in one of the windows.                                    *)
LEMMA WindowsCover ==
  ASSUME NEW o \in Option, ValidOption(o), NEW n \in Nat \ {0}, NEW i \in 0 .. n - 1
  PROVE  \E k \in 0 .. WindowCount(o, n) - 1 : RefFirst(o, k) <= i /\ i < RefLast(o, n, k)
<1> DEFINE d == Stride(o)
           m == o.max_tokens
           c == WindowCount(o, n)
           q == i \div d
           r == i % d
<1>1. /\ m \in Nat \ {0} /\ d \in Nat \ {0} /\ d <= m
      /\ c \in Nat \ {0} /\ (c - 1) * d < n /\ n <= (c - 1) * d + m
  BY StrideType, WindowsSpan
<1>2. i \in Nat /\ i < n
  OBVIOUS
<1>3. q \in Int /\ r \in 0 .. d - 1 /\ i = q * d + r
  <2> HIDE DEF d
  <2> QED
    BY <1>1, <1>2
<1>4. q \in Nat
  <2> HIDE DEF d, r, q
  <2> QED
    BY <1>1, <1>2, <1>3
<1>5. ASSUME NEW k \in 0 .. c - 1, k * d <= i, i < k * d + m
      PROVE  RefFirst(o, k) <= i /\ i < RefLast(o, n, k)
  <2>1. RefFirst(o, k) = k * d /\ RefLast(o, n, k) = LesserOf(k * d + m, n)
    BY DEF RefFirst, RefLast
  <2> QED
    BY <1>2, <1>5, <2>1 DEF LesserOf
<1>6. CASE q <= c - 1
  <2>1. q \in 0 .. c - 1
    BY <1>1, <1>4, <1>6
  <2>2. q * d <= i /\ i < q * d + m
    <3> DEFINE y == q * d
    <3>1. y \in Int
      BY <1>1, <1>4
    <3>2. i = y + r
      BY <1>3
    <3> HIDE DEF y, d, m, r
    <3>3. y <= i /\ i < y + m
      BY <1>1, <1>2, <1>3, <3>1, <3>2
    <3> QED
      BY <3>3 DEF y
  <2> QED
    BY <1>5, <2>1, <2>2
<1>7. CASE q > c - 1
  <2> DEFINE k == c - 1
             y == k * d
             z == q * d
  <2>1. k \in 0 .. c - 1
    BY <1>1
  <2>2. y <= z /\ y \in Int /\ z \in Int
    BY <1>1, <1>4, <1>7, ProductMonotone
  <2>3. y <= i /\ i < y + m
    <3>1. i = z + r /\ n <= y + m
      BY <1>1, <1>3
    <3> HIDE DEF y, z, d, m, r
    <3> QED
      BY <1>1, <1>2, <1>3, <2>2, <3>1
  <2> QED
    BY <1>5, <2>1, <2>3
<1> QED
  BY <1>1, <1>4, <1>6, <1>7

=============================================================================
