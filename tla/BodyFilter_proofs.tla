-------------------------- MODULE BodyFilter_proofs --------------------------
(***************************************************************************)
(* Proofs about the body filter, for every number and size of buffers,     *)
(* every body and every zstd_max_length.                                   *)
(*                                                                         *)
(* Three inductive invariants, each used by the next:                      *)
(*   BufInv     where every output buffer is and what it may hold;         *)
(*   StreamInv  the pieces between the upstream and the client, cut at the *)
(*              encoder into Ahead and Behind, make up one frame;          *)
(*   CloseInv   the buffer that ends the response is the last to leave.    *)
(* BufInv gives NoZeroSizeBuf and BuffersUnshared, StreamInv gives         *)
(* StreamIntact, and the three together the refinement of FrameStream.     *)
(*                                                                         *)
(* A lemma named <Step>Keeps is about BufInv, <Step>End and <Step>Flow     *)
(* about the two halves of StreamInv, and <Step>Close about CloseInv.      *)
(***************************************************************************)
EXTENDS BodyFilter, SequenceTheorems, FiniteSetTheorems, WellFoundedInduction, TLAPS

-----------------------------------------------------------------------------
(* Joining sequences: what FlattenSeq computes *)

\* A nonempty set of naturals has a least element.
LEMMA LeastNat ==
  ASSUME NEW S, S \subseteq Nat, S # {}
  PROVE  \E m \in S : \A n \in S : m <= n
<1> DEFINE R == {ss \in Nat \X Nat : ss[1] < ss[2]}
<1>1. IsWellFoundedOn(R, Nat)
  BY NatLessThanWellFounded DEF OpToRel
<1>2. PICK m \in S : \A y \in S : ~ (<<y, m>> \in R)
  <2> HIDE DEF R
  <2> QED  BY <1>1, WFMin
<1>3. \A n \in S : ~ (n < m)
  BY <1>2
<1> QED  BY <1>3

\* What holds at the start and is kept by every turn holds to the end.
LEMMA Turns ==
  ASSUME NEW n \in Nat, NEW G, 0 \in G, \A k \in 1 .. n : k - 1 \in G => k \in G
  PROVE  0 .. n \subseteq G
<1> DEFINE Bad == (0 .. n) \ G
<1> SUFFICES ASSUME Bad # {} PROVE FALSE
  OBVIOUS
<1>1. PICK m \in Bad : \A k \in Bad : m <= k
  <2>1. Bad \subseteq Nat
    OBVIOUS
  <2> HIDE DEF Bad
  <2> QED  BY <2>1, LeastNat
<1>2. m \in 1 .. n /\ m \notin G
  <2>1. m \in 0 .. n /\ m \notin G
    BY <1>1
  <2>2. m # 0
    BY <2>1
  <2> QED  BY <2>1, <2>2
<1>3. m - 1 \in G
  <2>1. m - 1 \in 0 .. n /\ ~ (m <= m - 1)
    BY <1>2
  <2> QED  BY <1>1, <2>1
<1> QED  BY <1>2, <1>3

\* The first k of several sequences, joined.
Joins(seqs, n, g) ==
  g[0] = <<>> /\ \A k \in 1 .. n : g[k] = g[k - 1] \o seqs[k]

\* The equation that FlattenSeq solves.
FlatStep(seqs, f, i) == IF i = 1 THEN seqs[i] ELSE f[i - 1] \o seqs[i]
IsFlat(seqs, n, f) == f = [i \in 1 .. n |-> FlatStep(seqs, f, i)]

\* The equation of FlattenSeq has a solution for every number of pieces.
LEMMA FlatEnds ==
  ASSUME NEW n \in Nat, NEW seqs
  PROVE  \E f : IsFlat(seqs, n, f)
<1> DEFINE Solves(f, m) == \A i \in 1 .. m : f[i] = FlatStep(seqs, f, i)
           Solved == {m \in Nat : \E f : Solves(f, m)}
<1>1. 0 \in Solved
  <2>1. Solves(0, 0)
    OBVIOUS
  <2> QED  BY <2>1
<1>2. ASSUME NEW k \in 1 .. n, k - 1 \in Solved PROVE k \in Solved
  <2>1. PICK f : Solves(f, k - 1)
    BY <1>2
  <2> DEFINE g == [i \in 1 .. k |-> FlatStep(seqs, f, i)]
  <2>2. \A i \in 1 .. k - 1 : g[i] = f[i]
    BY <2>1
  <2>3. ASSUME NEW i \in 1 .. k PROVE g[i] = FlatStep(seqs, g, i)
    <3>1. g[i] = FlatStep(seqs, f, i)
      OBVIOUS
    <3>2. CASE i = 1
      <4> HIDE DEF g
      <4> QED  BY <3>1, <3>2 DEF FlatStep
    <3>3. CASE i # 1
      <4>1. i - 1 \in 1 .. k - 1
        BY <3>3
      <4> HIDE DEF g
      <4> QED  BY <2>2, <3>1, <3>3, <4>1 DEF FlatStep
    <3> QED  BY <3>2, <3>3
  <2>4. Solves(g, k)
    BY <2>3
  <2> HIDE DEF g, Solves
  <2> QED  BY <2>4
<1>3. n \in Solved
  <2>1. 0 .. n \subseteq Solved
    <3> HIDE DEF Solved
    <3> QED  BY <1>1, <1>2, Turns
  <2> HIDE DEF Solved
  <2> QED  BY <2>1
<1>4. PICK f : Solves(f, n)
  BY <1>3
<1> DEFINE g == [i \in 1 .. n |-> f[i]]
<1>5. \A i \in 1 .. n : FlatStep(seqs, g, i) = FlatStep(seqs, f, i)
  <2> TAKE i \in 1 .. n
  <2>1. CASE i = 1
    BY <2>1 DEF FlatStep
  <2>2. CASE i # 1
    <3>1. i - 1 \in 1 .. n
      BY <2>2
    <3>2. g[i - 1] = f[i - 1]
      BY <3>1
    <3> HIDE DEF g
    <3> QED  BY <2>2, <3>2 DEF FlatStep
  <2> QED  BY <2>1, <2>2
<1>6. g = [i \in 1 .. n |-> FlatStep(seqs, g, i)]
  BY <1>4, <1>5
<1> HIDE DEF g
<1> QED  BY <1>6 DEF IsFlat

\* FlattenSeq joins them.
LEMMA FlatJoins ==
  ASSUME NEW T, NEW seqs \in Seq(Seq(T))
  PROVE  \E g : Joins(seqs, Len(seqs), g) /\ FlattenSeq(seqs) = g[Len(seqs)]
<1> DEFINE n == Len(seqs)
           P(f) == f = [i \in 1 .. n |-> IF i = 1 THEN seqs[i] ELSE f[i - 1] \o seqs[i]]
           F == CHOOSE f : f = [i \in 1 .. n |-> IF i = 1 THEN seqs[i] ELSE f[i - 1] \o
             seqs[i]]
<1>1. n \in Nat /\ DOMAIN seqs = 1 .. n /\ \A i \in 1 .. n : seqs[i] \in Seq(T)
  OBVIOUS
<1>2. CASE n = 0
  <2>1. FlattenSeq(seqs) = <<>>
    BY <1>2 DEF FlattenSeq
  <2> DEFINE g == [i \in {0} |-> <<>>]
  <2>2. Joins(seqs, n, g) /\ g[n] = <<>>
    BY <1>2 DEF Joins
  <2> HIDE DEF g
  <2> QED  BY <2>1, <2>2
<1>3. CASE n # 0
  <2>1. FlattenSeq(seqs) = F[n]
    BY <1>3 DEF FlattenSeq
  <2>2. P(F)
    <3>1. \E f : P(f)
      <4>1. PICK f : IsFlat(seqs, n, f)
        <5> HIDE DEF n
        <5> QED  BY <1>1, FlatEnds
      <4> QED  BY <4>1 DEF IsFlat, FlatStep
    <3>2. F = CHOOSE f : P(f)
      OBVIOUS
    <3> HIDE DEF P, F
    <3> QED  BY <3>1, <3>2
  <2>3. \A i \in 1 .. n : F[i] = IF i = 1 THEN seqs[i] ELSE F[i - 1] \o seqs[i]
    <3> HIDE DEF F, n
    <3> QED  BY <2>2
  <2> DEFINE g == [i \in 0 .. n |-> IF i = 0 THEN <<>> ELSE F[i]]
  <2> HIDE DEF F
  <2>4. ASSUME NEW k \in 1 .. n PROVE g[k] = g[k - 1] \o seqs[k]
    <3>1. g[k] = F[k]
      BY <1>1
    <3>2. CASE k = 1
      <4>1. g[k - 1] = <<>> /\ F[k] = seqs[k]
        BY <1>1, <2>3, <3>2
      <4>2. <<>> \o seqs[k] = seqs[k]
        BY <1>1, ConcatEmptySeq
      <4> HIDE DEF g
      <4> QED  BY <3>1, <4>1, <4>2
    <3>3. CASE k # 1
      <4>1. g[k - 1] = F[k - 1]
        BY <1>1, <3>3
      <4>2. F[k] = F[k - 1] \o seqs[k]
        BY <2>3, <3>3, Zenon
      <4> HIDE DEF g
      <4> QED  BY <3>1, <4>1, <4>2, Zenon
    <3> QED  BY <3>2, <3>3
  <2>5. g[0] = <<>> /\ g[n] = F[n]
    BY <1>1, <1>3
  <2> HIDE DEF g
  <2>6. Joins(seqs, n, g)
    BY <2>4, <2>5 DEF Joins
  <2> QED  BY <2>1, <2>5, <2>6
<1> QED  BY <1>2, <1>3

\* There is one way to join sequences.
LEMMA JoinsTyped ==
  ASSUME NEW T, NEW seqs \in Seq(Seq(T)), NEW n \in 0 .. Len(seqs), NEW g, Joins(seqs, n, g)
  PROVE  \A k \in 0 .. n : g[k] \in Seq(T)
<1> DEFINE G == {k \in 0 .. n : g[k] \in Seq(T)}
<1>1. 0 \in G
  <2>1. g[0] \in Seq(T)
    BY EmptySeq, Zenon DEF Joins
  <2>2. 0 \in 0 .. n
    OBVIOUS
  <2> QED  BY <2>1, <2>2, Zenon
<1>2. ASSUME NEW k \in 1 .. n, k - 1 \in G PROVE k \in G
  <2>0. k \in 1 .. Len(seqs) /\ k \in 0 .. n
    OBVIOUS
  <2>1. g[k] = g[k - 1] \o seqs[k] /\ seqs[k] \in Seq(T)
    BY <2>0, ElementOfSeq, Zenon DEF Joins
  <2>2. g[k - 1] \in Seq(T)
    BY <1>2
  <2>3. g[k] \in Seq(T)
    BY <2>1, <2>2, ConcatProperties, Zenon
  <2> QED  BY <2>0, <2>3, Zenon
<1>3. n \in Nat
  OBVIOUS
<1> HIDE DEF G
<1>4. 0 .. n \subseteq G
  BY <1>1, <1>2, <1>3, Turns
<1> QED  BY <1>4 DEF G

\* Joining sequences over T gives a sequence over T.
LEMMA FlattenTyped ==
  ASSUME NEW T, NEW seqs \in Seq(Seq(T))
  PROVE  FlattenSeq(seqs) \in Seq(T)
<1>1. PICK g : Joins(seqs, Len(seqs), g) /\ FlattenSeq(seqs) = g[Len(seqs)]
  BY FlatJoins
<1>2. Len(seqs) \in 0 .. Len(seqs)
  OBVIOUS
<1> QED  BY <1>1, <1>2, JoinsTyped

\* Joining two lists of pieces one after the other joins what each gives.
LEMMA FlattenConcat ==
  ASSUME NEW T, NEW s \in Seq(Seq(T)), NEW t \in Seq(Seq(T))
  PROVE  FlattenSeq(s \o t) = FlattenSeq(s) \o FlattenSeq(t)
<1>1. PICK a \in Nat : a = Len(s)
  OBVIOUS
<1>2. PICK b \in Nat : b = Len(t)
  OBVIOUS
<1>3. PICK u \in Seq(Seq(T)) : u = s \o t
  BY ConcatProperties, Zenon
<1>4. /\ Len(u) = a + b
      /\ \A k \in 1 .. a : u[k] = s[k]
      /\ \A k \in 1 .. b : u[a + k] = t[k]
  <2>1. /\ Len(u) = a + b
        /\ \A k \in 1 .. a + b : u[k] = IF k <= a THEN s[k] ELSE t[k - a]
    BY <1>1, <1>2, <1>3, ConcatProperties, Zenon
  <2>2. ASSUME NEW k \in 1 .. b PROVE u[a + k] = t[k]
    <3>1. a + k \in 1 .. a + b /\ ~ (a + k <= a) /\ (a + k) - a = k
      OBVIOUS
    <3> QED  BY <2>1, <3>1
  <2>3. ASSUME NEW k \in 1 .. a PROVE u[k] = s[k]
    <3>1. k \in 1 .. a + b /\ k <= a
      OBVIOUS
    <3> QED  BY <2>1, <3>1
  <2> QED  BY <2>1, <2>2, <2>3
<1>5. PICK g : Joins(u, Len(u), g) /\ FlattenSeq(u) = g[Len(u)]
  BY FlatJoins
<1>6. PICK gs : Joins(s, Len(s), gs) /\ FlattenSeq(s) = gs[Len(s)]
  BY FlatJoins
<1>7. PICK gt : Joins(t, Len(t), gt) /\ FlattenSeq(t) = gt[Len(t)]
  BY FlatJoins
<1>8. /\ g[0] = <<>> /\ \A k \in 1 .. a + b : g[k] = g[k - 1] \o u[k]
      /\ gs[0] = <<>> /\ \A k \in 1 .. a : gs[k] = gs[k - 1] \o s[k]
      /\ gt[0] = <<>> /\ \A k \in 1 .. b : gt[k] = gt[k - 1] \o t[k]
  BY <1>1, <1>2, <1>4, <1>5, <1>6, <1>7 DEF Joins
<1> DEFINE G == {k \in 0 .. a : g[k] = gs[k]}
<1>9. g[a] = gs[a]
  <2>1. 0 \in G
    BY <1>8
  <2>2. ASSUME NEW k \in 1 .. a, k - 1 \in G PROVE k \in G
    <3>0. k \in 1 .. a + b /\ k \in 0 .. a
      OBVIOUS
    <3>1. g[k] = g[k - 1] \o u[k] /\ gs[k] = gs[k - 1] \o s[k] /\ u[k] = s[k]
      BY <1>4, <1>8, <3>0, Zenon
    <3>2. g[k - 1] = gs[k - 1]
      BY <2>2
    <3> QED  BY <3>0, <3>1, <3>2, Zenon
  <2>3. 0 .. a \subseteq G
    <3> HIDE DEF G
    <3> QED  BY <2>1, <2>2, Turns
  <2> QED  BY <2>3
<1>10. PICK base \in Seq(T) : base = gs[a]
  <2>1. gs[a] \in Seq(T)
    BY <1>1, <1>6, FlattenTyped
  <2> QED  BY <2>1
<1>11. \A k \in 0 .. b : gt[k] \in Seq(T)
  <2>1. b \in 0 .. Len(t)
    BY <1>2
  <2> QED  BY <1>2, <1>7, <2>1, JoinsTyped
<1> DEFINE H == {k \in 0 .. b : g[a + k] = base \o gt[k]}
<1>12. 0 \in H
  <2>1. base \o <<>> = base
    BY ConcatEmptySeq
  <2>2. a + 0 = a
    OBVIOUS
  <2>3. 0 \in 0 .. b
    OBVIOUS
  <2> QED  BY <1>8, <1>9, <1>10, <2>1, <2>2, <2>3, Zenon
<1>13. ASSUME NEW k \in 1 .. b, k - 1 \in H PROVE k \in H
  <2>1. g[a + (k - 1)] = base \o gt[k - 1]
    BY <1>13
  <2>2. a + k \in 1 .. a + b /\ a + (k - 1) = (a + k) - 1 /\ k \in 0 .. b
    OBVIOUS
  <2>3. g[a + k] = g[(a + k) - 1] \o u[a + k] /\ u[a + k] = t[k]
    BY <1>4, <1>8, <2>2, Zenon
  <2>4. g[a + k] = (base \o gt[k - 1]) \o t[k]
    BY <2>1, <2>2, <2>3, Zenon
  <2>5. gt[k - 1] \in Seq(T) /\ t[k] \in Seq(T)
    <3>1. k - 1 \in 0 .. b /\ k \in 1 .. Len(t)
      BY <1>2
    <3> QED  BY <1>11, <3>1, ElementOfSeq, Zenon
  <2>6. (base \o gt[k - 1]) \o t[k] = base \o (gt[k - 1] \o t[k])
    <3>1. PICK x \in Seq(T), y \in Seq(T) : x = gt[k - 1] /\ y = t[k]
      BY <2>5
    <3>2. (base \o x) \o y = base \o (x \o y)
      BY ConcatAssociative
    <3> QED  BY <3>1, <3>2, Zenon
  <2>7. gt[k] = gt[k - 1] \o t[k]
    BY <1>8, Zenon
  <2> QED  BY <2>2, <2>4, <2>6, <2>7, Zenon
<1>14. g[a + b] = base \o gt[b]
  <2>1. 0 .. b \subseteq H
    <3> HIDE DEF H
    <3> QED  BY <1>12, <1>13, Turns
  <2>2. b \in 0 .. b
    OBVIOUS
  <2> QED  BY <2>1, <2>2, Zenon
<1> QED  BY <1>1, <1>2, <1>3, <1>4, <1>5, <1>6, <1>7, <1>10, <1>14

\* A chain of one element.
LEMMA Single ==
  ASSUME NEW S, NEW x \in S
  PROVE  <<x>> \in Seq(S) /\ Len(<<x>>) = 1 /\ <<x>>[1] = x
OBVIOUS

\* Nothing joins to nothing, and one piece to itself.
LEMMA FlattenSmall ==
  ASSUME NEW T, NEW x \in Seq(T)
  PROVE  FlattenSeq(<<>>) = <<>> /\ FlattenSeq(<<x>>) = x
<1>1. FlattenSeq(<<>>) = <<>>
  BY DEF FlattenSeq
<1>2. PICK s \in Seq(Seq(T)) : s = <<x>> /\ Len(s) = 1 /\ s[1] = x
  BY Single, Zenon
<1>3. PICK g : Joins(s, 1, g) /\ FlattenSeq(s) = g[1]
  BY <1>2, FlatJoins
<1>4. g[1] = <<>> \o x
  <2>1. 1 \in 1 .. 1 /\ 1 - 1 = 0
    OBVIOUS
  <2> QED  BY <1>2, <1>3, <2>1, Zenon DEF Joins
<1> QED  BY <1>1, <1>2, <1>3, <1>4, ConcatEmptySeq

-----------------------------------------------------------------------------
(* Chains of buffers *)

\* No buffer is in the chain twice.
Distinct(s) == \A i, j \in 1 .. Len(s) : s[i] = s[j] => i = j

\* What is at the positions of a sequence.
Ranged(s) ==
  /\ \A i \in 1 .. Len(s) : s[i] \in Range(s)
  /\ \A x \in Range(s) : \E i \in 1 .. Len(s) : s[i] = x

\* The range of a sequence is what is at its positions.
LEMMA InRange ==
  ASSUME NEW S, NEW s \in Seq(S)
  PROVE  Ranged(s) /\ \A x \in Range(s) : x \in S
<1>1. Range(s) = {s[i] : i \in 1 .. Len(s)}
  BY RangeEquality
<1>2. \A i \in 1 .. Len(s) : s[i] \in S
  BY ElementOfSeq
<1> QED  BY <1>1, <1>2 DEF Ranged

\* The empty chain holds no buffer.
LEMMA NoBuffers ==
  Range(<<>>) = {} /\ Distinct(<<>>)
<1>1. <<>> \in Seq({})
  BY EmptySeq
<1>2. Range(<<>>) = {}
  <2>1. PICK s \in Seq({}) : s = <<>>
    BY <1>1
  <2>2. Range(s) \in SUBSET {}
    BY RangeOfSeq
  <2> QED  BY <2>1, <2>2
<1> QED  BY <1>2 DEF Distinct

\* Two chains without a common buffer make one without a repetition.
LEMMA DistinctConcat ==
  ASSUME NEW S, NEW s \in Seq(S), NEW t \in Seq(S)
  PROVE  /\ s \o t \in Seq(S)
         /\ Range(s \o t) = Range(s) \cup Range(t)
         /\ Distinct(s) /\ Distinct(t) /\ Range(s) \cap Range(t) = {}
              => Distinct(s \o t)
<1>1. PICK u \in Seq(S) : u = s \o t
  BY ConcatProperties, Zenon
<1>2. Range(u) = Range(s) \cup Range(t)
  BY <1>1, RangeConcatenation
<1>3. PICK m \in Nat : m = Len(s)
  OBVIOUS
<1>4. PICK n \in Nat : n = Len(t)
  OBVIOUS
<1>5. /\ Len(u) = m + n
      /\ \A i \in 1 .. m + n : u[i] = IF i <= m THEN s[i] ELSE t[i - m]
  BY <1>1, <1>3, <1>4, ConcatProperties, Zenon
<1>r. Ranged(s) /\ Ranged(t)
  BY InRange, Zenon
<1>6. ASSUME Distinct(s), Distinct(t), Range(s) \cap Range(t) = {},
             NEW i \in 1 .. m + n, NEW j \in 1 .. m + n, u[i] = u[j]
      PROVE  i = j
  <2>1. \A x \in 1 .. m, y \in 1 .. n : s[x] # t[y]
    BY <1>3, <1>4, <1>6, <1>r DEF Ranged
  <2>2. CASE i <= m /\ j <= m
    BY <1>3, <1>5, <1>6, <2>2 DEF Distinct
  <2>3. CASE i > m /\ j > m
    <3>1. i - m \in 1 .. n /\ j - m \in 1 .. n
      BY <2>3
    <3>2. t[i - m] = t[j - m]
      BY <1>5, <1>6, <2>3
    <3>3. i - m = j - m
      BY <1>4, <1>6, <3>1, <3>2 DEF Distinct
    <3> QED  BY <3>3
  <2>4. CASE i <= m /\ j > m
    <3>1. i \in 1 .. m /\ j - m \in 1 .. n
      BY <2>4
    <3>2. s[i] = t[j - m]
      BY <1>5, <1>6, <2>4
    <3> QED  BY <2>1, <3>1, <3>2
  <2>5. CASE i > m /\ j <= m
    <3>1. j \in 1 .. m /\ i - m \in 1 .. n
      BY <2>5
    <3>2. s[j] = t[i - m]
      BY <1>5, <1>6, <2>5
    <3> QED  BY <2>1, <3>1, <3>2
  <2> QED  BY <2>2, <2>3, <2>4, <2>5
<1> QED  BY <1>1, <1>2, <1>5, <1>6 DEF Distinct

\* A chain cut in two.
CutAt(q, k, a, b) ==
  /\ Len(a) = k /\ \A i \in 1 .. k : a[i] = q[i]
  /\ Len(b) = Len(q) - k /\ \A i \in 1 .. Len(q) - k : b[i] = q[k + i]
  /\ Distinct(a) /\ Distinct(b) /\ Range(a) \cap Range(b) = {}
  /\ Range(q) = Range(a) \cup Range(b)

\* The two parts of a chain without repetitions have no buffer in common.
LEMMA DistinctCut ==
  ASSUME NEW S, NEW q \in Seq(S), NEW k \in 0 .. Len(q), Distinct(q)
  PROVE  /\ SubSeq(q, 1, k) \in Seq(S) /\ SubSeq(q, k + 1, Len(q)) \in Seq(S)
         /\ CutAt(q, k, SubSeq(q, 1, k), SubSeq(q, k + 1, Len(q)))
<1>1. PICK n \in Nat : n = Len(q)
  OBVIOUS
<1>2. \A i \in 1 .. n : q[i] \in S
  BY <1>1, ElementOfSeq
<1>3. PICK a \in Seq(S) : /\ a = SubSeq(q, 1, k) /\ Len(a) = k
                          /\ \A i \in 1 .. k : a[i] = q[i]
  <2>1. k \in Int /\ \A i \in 1 .. k : q[i] \in S
    BY <1>1, <1>2
  <2>2. /\ SubSeq(q, 1, k) \in Seq(S)
        /\ Len(SubSeq(q, 1, k)) = (IF 1 <= k THEN k - 1 + 1 ELSE 0)
        /\ \A i \in 1 .. k - 1 + 1 : SubSeq(q, 1, k)[i] = q[1 + i - 1]
    BY <2>1, SubSeqProperties
  <2>3. k - 1 + 1 = k /\ (IF 1 <= k THEN k - 1 + 1 ELSE 0) = k /\ \A i \in 1 .. k :
          1 + i - 1 = i
    BY <1>1
  <2> QED  BY <2>2, <2>3
<1>4. PICK b \in Seq(S) : /\ b = SubSeq(q, k + 1, n) /\ Len(b) = n - k
                          /\ \A i \in 1 .. n - k : b[i] = q[k + i]
  <2>1. k + 1 \in Int /\ \A i \in k + 1 .. n : q[i] \in S
    BY <1>1, <1>2
  <2>2. /\ SubSeq(q, k + 1, n) \in Seq(S)
        /\ Len(SubSeq(q, k + 1, n)) = (IF k + 1 <= n THEN n - (k + 1) + 1 ELSE 0)
        /\ \A i \in 1 .. n - (k + 1) + 1 : SubSeq(q, k + 1, n)[i] = q[(k + 1) + i - 1]
    BY <2>1, SubSeqProperties
  <2>3. PICK b \in Seq(S) : b = SubSeq(q, k + 1, n)
    BY <2>2
  <2>4. Len(b) = n - k
    BY <1>1, <2>2, <2>3
  <2>5. ASSUME NEW i \in 1 .. n - k PROVE b[i] = q[k + i]
    <3>1. i \in 1 .. n - (k + 1) + 1 /\ (k + 1) + i - 1 = k + i
      BY <1>1
    <3> QED  BY <2>2, <2>3, <3>1
  <2> QED  BY <2>3, <2>4, <2>5
<1>5. Distinct(a)
  BY <1>1, <1>3 DEF Distinct
<1>6. Distinct(b)
  <2> SUFFICES ASSUME NEW i \in 1 .. n - k, NEW j \in 1 .. n - k, b[i] = b[j] PROVE i = j
    BY <1>4 DEF Distinct
  <2>1. k + i \in 1 .. n /\ k + j \in 1 .. n /\ q[k + i] = q[k + j]
    BY <1>1, <1>4
  <2>2. k + i = k + j
    BY <1>1, <2>1 DEF Distinct
  <2> QED  BY <1>1, <2>2
<1>7. \A i \in 1 .. k, j \in 1 .. n - k : a[i] # b[j]
  <2> TAKE i \in 1 .. k, j \in 1 .. n - k
  <2>1. i \in 1 .. n /\ k + j \in 1 .. n /\ i # k + j
    BY <1>1
  <2>2. q[i] # q[k + j]
    BY <1>1, <2>1 DEF Distinct
  <2> QED  BY <1>3, <1>4, <2>2
<1>r. Ranged(a) /\ Ranged(b) /\ Ranged(q)
  BY InRange, Zenon
<1>8. Range(a) \cap Range(b) = {}
  <2> SUFFICES ASSUME NEW x \in Range(a), x \in Range(b) PROVE FALSE
    OBVIOUS
  <2>1. PICK i \in 1 .. k : a[i] = x
    BY <1>3, <1>r DEF Ranged
  <2>2. PICK j \in 1 .. n - k : b[j] = x
    BY <1>4, <1>r DEF Ranged
  <2> QED  BY <1>7, <2>1, <2>2
<1>9. Range(q) = Range(a) \cup Range(b)
  <2>1. ASSUME NEW x \in Range(q) PROVE x \in Range(a) \cup Range(b)
    <3>1. PICK i \in 1 .. n : q[i] = x
      BY <1>1, <1>r DEF Ranged
    <3>2. CASE i <= k
      BY <1>3, <3>1, <3>2, <1>r DEF Ranged
    <3>3. CASE i > k
      <4>1. i - k \in 1 .. n - k /\ k + (i - k) = i
        BY <1>1, <3>3
      <4>2. b[i - k] = x
        BY <1>4, <3>1, <4>1
      <4> QED  BY <1>4, <4>1, <4>2, <1>r DEF Ranged
    <3> QED  BY <1>1, <3>2, <3>3
  <2>2. ASSUME NEW x \in Range(a) PROVE x \in Range(q)
    <3>1. PICK i \in 1 .. k : a[i] = x
      BY <1>3, <1>r DEF Ranged
    <3>2. i \in 1 .. Len(q) /\ q[i] = x
      BY <1>1, <1>3, <3>1
    <3> QED  BY <3>2, <1>r DEF Ranged
  <2>3. ASSUME NEW x \in Range(b) PROVE x \in Range(q)
    <3>1. PICK i \in 1 .. n - k : b[i] = x
      BY <1>4, <1>r DEF Ranged
    <3>2. k + i \in 1 .. Len(q) /\ q[k + i] = x
      BY <1>1, <1>4, <3>1
    <3> QED  BY <3>2, <1>r DEF Ranged
  <2> QED  BY <2>1, <2>2, <2>3
<1>10. CutAt(q, k, a, b)
  BY <1>1, <1>3, <1>4, <1>5, <1>6, <1>8, <1>9 DEF CutAt
<1> QED  BY <1>1, <1>3, <1>4, <1>10

\* ngx_chain_update_chains() stacks: a reversed chain has the same buffers.
LEMMA Reversed ==
  ASSUME NEW S, NEW s \in Seq(S)
  PROVE  /\ Reverse(s) \in Seq(S)
         /\ Range(Reverse(s)) = Range(s)
         /\ Distinct(s) => Distinct(Reverse(s))
<1>1. PICK n \in Nat : n = Len(s)
  OBVIOUS
<1>2. \A i \in 1 .. n : n - i + 1 \in 1 .. n /\ n - (n - i + 1) + 1 = i
  OBVIOUS
<1>3. \A i \in 1 .. n : s[n - i + 1] \in S
  BY <1>1, <1>2, ElementOfSeq
<1>4. PICK r \in Seq(S) : /\ r = Reverse(s) /\ Len(r) = n
                          /\ \A i \in 1 .. n : r[i] = s[n - i + 1]
  <2>1. Reverse(s) = [i \in 1 .. n |-> s[(n - i) + 1]]
    BY <1>1 DEF Reverse
  <2>2. Reverse(s) \in Seq(S)
    BY <1>3, <2>1
  <2> QED  BY <2>1, <2>2
<1>r. Ranged(r) /\ Ranged(s)
  BY InRange, Zenon
<1>5. Range(r) = Range(s)
  <2>1. ASSUME NEW x \in Range(r) PROVE x \in Range(s)
    <3>1. PICK i \in 1 .. n : r[i] = x
      BY <1>4, <1>r DEF Ranged
    <3>2. n - i + 1 \in 1 .. Len(s) /\ s[n - i + 1] = x
      BY <1>1, <1>2, <1>4, <3>1
    <3> QED  BY <3>2, <1>r DEF Ranged
  <2>2. ASSUME NEW x \in Range(s) PROVE x \in Range(r)
    <3>1. PICK i \in 1 .. n : s[i] = x
      BY <1>1, <1>r DEF Ranged
    <3>2. n - i + 1 \in 1 .. Len(r) /\ r[n - i + 1] = x
      BY <1>2, <1>4, <3>1
    <3> QED  BY <3>2, <1>r DEF Ranged
  <2> QED  BY <2>1, <2>2
<1>6. ASSUME Distinct(s), NEW i \in 1 .. n, NEW j \in 1 .. n, r[i] = r[j] PROVE i = j
  <2>0. PICK x \in 1 .. n, y \in 1 .. n : x = n - i + 1 /\ y = n - j + 1
    BY <1>2
  <2>1. s[x] = s[y]
    BY <1>4, <1>6, <2>0
  <2>2. n - i + 1 = n - j + 1
    BY <1>1, <1>6, <2>0, <2>1 DEF Distinct
  <2> QED  BY <2>2
<1> QED  BY <1>4, <1>5, <1>6 DEF Distinct

\* Taking the head off a chain, as filter_get_buf() does with ctx->free.
LEMMA Popped ==
  ASSUME NEW S, NEW s \in Seq(S), s # <<>>
  PROVE  /\ Head(s) \in S /\ Tail(s) \in Seq(S)
         /\ Range(s) = {Head(s)} \cup Range(Tail(s))
         /\ Distinct(s) => Distinct(Tail(s)) /\ Head(s) \notin Range(Tail(s))
<1>1. PICK n \in Nat : n = Len(s) /\ n > 0
  BY EmptySeq
<1>2. PICK t \in Seq(S) : /\ t = Tail(s) /\ Len(t) = n - 1
                          /\ \A i \in 1 .. n - 1 : t[i] = s[i + 1]
  <2>1. PICK t \in Seq(S) : t = Tail(s)
    BY HeadTailProperties, Zenon
  <2>2. Len(t) = n - 1
    BY <1>1, <2>1, HeadTailProperties
  <2>3. \A i \in 1 .. n - 1 : t[i] = s[i + 1]
    BY <2>1, <2>2, HeadTailProperties, Zenon
  <2> QED  BY <2>1, <2>2, <2>3
<1>3. Head(s) = s[1] /\ Head(s) \in S
  <2>1. Head(s) = s[1]
    BY <1>1
  <2> QED  BY <2>1, HeadTailProperties
<1>r. Ranged(s) /\ Ranged(t)
  BY InRange, Zenon
<1>4. Range(s) = {Head(s)} \cup Range(t)
  <2>1. ASSUME NEW x \in Range(s) PROVE x = s[1] \/ x \in Range(t)
    <3>1. PICK i \in 1 .. n : s[i] = x
      BY <1>1, <1>r DEF Ranged
    <3>2. CASE i > 1
      <4>1. i - 1 \in 1 .. n - 1 /\ (i - 1) + 1 = i
        BY <3>2
      <4>2. i - 1 \in 1 .. Len(t) /\ t[i - 1] = x
        BY <1>2, <3>1, <4>1
      <4> QED  BY <4>2, <1>r DEF Ranged
    <3> QED  BY <3>1, <3>2
  <2>2. s[1] \in Range(s)
    BY <1>1, <1>r DEF Ranged
  <2>3. ASSUME NEW x \in Range(t) PROVE x \in Range(s)
    <3>1. PICK i \in 1 .. n - 1 : t[i] = x
      BY <1>2, <1>r DEF Ranged
    <3>2. i + 1 \in 1 .. Len(s) /\ s[i + 1] = x
      BY <1>1, <1>2, <3>1
    <3> QED  BY <3>2, <1>r DEF Ranged
  <2> QED  BY <1>3, <2>1, <2>2, <2>3
<1>5. ASSUME Distinct(s) PROVE Distinct(t)
  <2> SUFFICES ASSUME NEW i \in 1 .. n - 1, NEW j \in 1 .. n - 1, t[i] = t[j] PROVE i = j
    BY <1>2 DEF Distinct
  <2>1. i + 1 \in 1 .. n /\ j + 1 \in 1 .. n /\ s[i + 1] = s[j + 1]
    BY <1>2
  <2>2. i + 1 = j + 1
    BY <1>1, <1>5, <2>1 DEF Distinct
  <2> QED  BY <2>2
<1>6. ASSUME Distinct(s), s[1] \in Range(t) PROVE FALSE
  <2>1. PICK i \in 1 .. n - 1 : t[i] = s[1]
    BY <1>2, <1>6, <1>r DEF Ranged
  <2>2. i + 1 \in 1 .. n /\ 1 \in 1 .. n /\ s[i + 1] = s[1]
    BY <1>1, <1>2, <2>1
  <2>3. i + 1 = 1
    BY <1>1, <1>6, <2>2 DEF Distinct
  <2> QED  BY <2>3
<1> QED  BY <1>2, <1>3, <1>4, <1>5, <1>6

\* Linking a buffer to the end of a chain, as filter_compress() does.
LEMMA Pushed ==
  ASSUME NEW S, NEW s \in Seq(S), NEW x \in S
  PROVE  /\ Append(s, x) \in Seq(S)
         /\ Range(Append(s, x)) = Range(s) \cup {x}
         /\ Distinct(s) /\ x \notin Range(s) => Distinct(Append(s, x))
<1>1. Append(s, x) = s \o <<x>>
  BY AppendIsConcat
<1>2. PICK t \in Seq(S) : t = <<x>> /\ Len(t) = 1 /\ t[1] = x
  BY Single, Zenon
<1>3. Range(t) = {x}
  <2>1. \A i \in 1 .. Len(t) : i = 1
    BY <1>2
  <2>2. 1 \in 1 .. Len(t)
    BY <1>2
  <2>3. Ranged(t)
    BY InRange, Zenon
  <2> QED  BY <1>2, <2>1, <2>2, <2>3 DEF Ranged
<1>4. Distinct(t)
  BY <1>2 DEF Distinct
<1>5. Range(s) \cap Range(t) = {} <=> x \notin Range(s)
  BY <1>3
<1>6. Append(s, x) = s \o t
  BY <1>1, <1>2, Zenon
<1>7. /\ s \o t \in Seq(S)
      /\ Range(s \o t) = Range(s) \cup Range(t)
      /\ Distinct(s) /\ Distinct(t) /\ Range(s) \cap Range(t) = {} => Distinct(s \o t)
  BY DistinctConcat, Zenon
<1> QED  BY <1>3, <1>4, <1>5, <1>6, <1>7, Zenon

-----------------------------------------------------------------------------
(* Types; the downstream and ngx_chain_update_chains() *)

\* The tokens of a body.
Toks == 1 .. MaxTokens

\* The type of ngx_http_zstd_ctx_t.
Ctx == [in : Seq(Link), buffer_in : Seq(Toks),
        free : Seq(Bufs), busy : Seq(Bufs), out : Seq(Bufs),
        out_buf : Bufs \cup {NULL}, bufs : Nat,
        last : BOOLEAN, redo : BOOLEAN, flush : BOOLEAN, done : BOOLEAN,
        aborted : BOOLEAN, nomem : BOOLEAN, dcz_header_sent : BOOLEAN,
        cctx_ready : BOOLEAN, action : {"COMPRESS", "FLUSH", "END"},
        bytes_in : Nat, bytes_out : Nat]

\* The type of the encoder's state.
Enc == [acc : Seq(Toks), stg : Seq(Units), ended : BOOLEAN]

\* The type invariant.
TypeInv ==
  /\ conf \in [num : Bufs, max_length : Limits, dcz : BOOLEAN]
  /\ ctx \in Ctx
  /\ mem \in [Bufs -> Buf]
  /\ pc \in {"parked", "entry", "add", "buf", "compress", "deliver", "failed"}
  /\ in \in Seq(Link)
  /\ flush \in BOOLEAN
  /\ enc \in Enc
  /\ held \in Seq(Bufs)
  /\ wire \in Seq(Units)
  /\ closed \in BOOLEAN /\ broken \in BOOLEAN /\ room \in BOOLEAN
  /\ buffered \in BOOLEAN
  /\ up.tokens \in 0 .. MaxTokens /\ up.eof \in BOOLEAN

\* The first k buffers of a queue leave.
Leaves(queue, k) ==
  /\ k \in 0 .. Len(queue)
  /\ wire' = wire \o BufData(mem, SubSeq(queue, 1, k))
  /\ closed' = (closed \/ \E i \in 1 .. k : mem[queue[i]].last_buf)
  /\ held' = SubSeq(queue, k + 1, Len(queue))
  /\ mem' \in [Bufs -> Buf]
  /\ \A b \in Bufs :
       /\ mem'[b].data = IF b \in Range(SubSeq(queue, 1, k)) THEN <<>> ELSE mem[b].data
       /\ mem'[b].size = mem[b].size
       /\ mem'[b].last_buf = mem[b].last_buf
       /\ mem'[b].memory = mem[b].memory

\* A call of the next body filter that succeeds sends the first k buffers of
\* what is held and new, for some k.
LEMMA PassLeaves ==
  ASSUME TypeInv, NEW chain \in Seq(Bufs), Pass(chain)
  PROVE  \E k \in 0 .. Len(held \o chain) : Leaves(held \o chain, k)
<1>1. PICK q \in Seq(Bufs) : q = held \o chain
  BY ConcatProperties, Zenon DEF TypeInv
<1>2. PICK k \in 0 .. Len(q) :
        /\ wire' = wire \o BufData(mem, SubSeq(q, 1, k))
        /\ closed' = (closed \/ \E i \in 1 .. k : mem[q[i]].last_buf)
        /\ held' = SubSeq(q, k + 1, Len(q))
        /\ mem' = [b \in Bufs |-> IF \E i \in 1 .. k : q[i] = b
                                  THEN [mem[b] EXCEPT !.data = <<>>]
                                  ELSE mem[b]]
  <2>1. PICK k \in 0 .. Len(held \o chain) :
          /\ wire' = wire \o BufData(mem, SubSeq(held \o chain, 1, k))
          /\ closed' = (closed \/ \E i \in 1 .. k : mem[(held \o chain)[i]].last_buf)
          /\ held' = SubSeq(held \o chain, k + 1, Len(held \o chain))
          /\ mem' = [b \in Bufs |-> IF \E i \in 1 .. k : (held \o chain)[i] = b
                                    THEN [mem[b] EXCEPT !.data = <<>>]
                                    ELSE mem[b]]
    BY Zenon DEF Pass
  <2>2. k \in 0 .. Len(q)
    BY <1>1
  <2> QED  BY <1>1, <2>1, <2>2, Zenon
<1>3. PICK a \in Seq(Bufs) : a = SubSeq(q, 1, k) /\ Len(a) = k /\ \A i \in 1 .. k :
        a[i] = q[i]
  <2>1. \A i \in 1 .. k : q[i] \in Bufs
    OBVIOUS
  <2>2. k \in Int
    OBVIOUS
  <2>3. /\ SubSeq(q, 1, k) \in Seq(Bufs)
        /\ Len(SubSeq(q, 1, k)) = (IF 1 <= k THEN k - 1 + 1 ELSE 0)
        /\ \A i \in 1 .. k - 1 + 1 : SubSeq(q, 1, k)[i] = q[1 + i - 1]
    BY <2>1, <2>2, SubSeqProperties
  <2>4. k - 1 + 1 = k /\ (IF 1 <= k THEN k - 1 + 1 ELSE 0) = k /\ \A i \in 1 .. k :
          1 + i - 1 = i
    OBVIOUS
  <2> QED  BY <2>3, <2>4
<1>4. Ranged(a)
  BY InRange, Zenon
<1>5. \A b \in Bufs : (\E i \in 1 .. k : q[i] = b) <=> b \in Range(a)
  BY <1>3, <1>4 DEF Ranged
<1>6. \A b \in Bufs : mem[b] \in Buf
  BY DEF TypeInv
<1>7. ASSUME NEW b \in Bufs
      PROVE  /\ mem'[b] \in Buf
             /\ mem'[b].data = IF b \in Range(a) THEN <<>> ELSE mem[b].data
             /\ mem'[b].size = mem[b].size
             /\ mem'[b].last_buf = mem[b].last_buf
             /\ mem'[b].memory = mem[b].memory
  <2>1. mem'[b] = IF b \in Range(a) THEN [mem[b] EXCEPT !.data = <<>>] ELSE mem[b]
    BY <1>2, <1>5
  <2>2. PICK c \in Buf : c = mem[b]
    BY <1>6
  <2>3. PICK e \in Seq(Units) : e = <<>>
    BY EmptySeq
  <2>4. [c EXCEPT !.data = e] \in Buf
    BY DEF Buf
  <2> QED  BY <2>1, <2>2, <2>3, <2>4 DEF Buf
<1>8. mem' \in [Bufs -> Buf]
  <2>1. mem' = [b \in Bufs |-> mem'[b]]
    BY <1>2
  <2> QED  BY <1>7, <2>1
<1>9. Leaves(q, k)
  <2>1. a = SubSeq(q, 1, k)
    BY <1>3
  <2>2. \A b \in Bufs :
          /\ mem'[b].data = IF b \in Range(SubSeq(q, 1, k)) THEN <<>> ELSE mem[b].data
          /\ mem'[b].size = mem[b].size
          /\ mem'[b].last_buf = mem[b].last_buf
          /\ mem'[b].memory = mem[b].memory
    BY <1>7, <2>1
  <2> QED  BY <1>2, <1>8, <2>2 DEF Leaves
<1> QED  BY <1>1, <1>9, Zenon

\* The first k buffers of a queue are drained and the next one is not.
Drained(queue, m, k) ==
  /\ k \in 0 .. Len(queue)
  /\ \A i \in 1 .. k : m[queue[i]].data = <<>>
  /\ k < Len(queue) => m[queue[k + 1]].data # <<>>

\* What UpdateChains() makes of a queue of which k buffers are drained.
Updates(c, m, q, chain, k) ==
  /\ Drained(q, m, k)
  /\ UpdateChains(c, m, chain) =
       [c EXCEPT !.busy = SubSeq(q, k + 1, Len(q)),
                 !.free = Reverse(SubSeq(q, 1, k)) \o @]

\* ngx_chain_update_chains() recycles exactly the drained buffers at the head
\* of the queue: the CHOOSE of UpdateChains has such a number.
LEMMA UpdateDrains ==
  ASSUME NEW c, NEW m, NEW q \in Seq(Bufs), NEW chain, q = c.busy \o chain
  PROVE  \E k \in 0 .. Len(q) : Updates(c, m, q, chain, k)
<1> DEFINE n == Len(q)
           W(k) == /\ \A i \in 1 .. k : m[q[i]].data = <<>>
                   /\ k < Len(q) => m[q[k + 1]].data # <<>>
           Stops == {k \in 0 .. n : k < n => m[q[k + 1]].data # <<>>}
           sent == CHOOSE k \in 0 .. Len(q) : W(k)
<1>1. n \in Nat
  OBVIOUS
<1>2. \E k \in 0 .. n : W(k)
  <2>1. n \in Stops /\ Stops \subseteq Nat
    BY <1>1
  <2>2. PICK k \in Stops : \A j \in Stops : k <= j
    <3> HIDE DEF Stops, n
    <3> QED  BY <2>1, LeastNat
  <2>3. ASSUME NEW i \in 1 .. k PROVE m[q[i]].data = <<>>
    <3>1. i - 1 \in 0 .. n /\ i - 1 < n /\ (i - 1) + 1 = i /\ ~ (k <= i - 1)
      BY <1>1, <2>2
    <3>2. i - 1 \notin Stops
      BY <2>2, <3>1
    <3> QED  BY <3>1, <3>2
  <2> QED  BY <2>2, <2>3
<1>3. sent \in 0 .. Len(q) /\ W(sent)
  BY <1>2
<1>4. UpdateChains(c, m, chain) =
        [c EXCEPT !.busy = SubSeq(q, sent + 1, Len(q)),
                  !.free = Reverse(SubSeq(q, 1, sent)) \o @]
  BY DEF UpdateChains
<1>5. Drained(q, m, sent)
  BY <1>3 DEF Drained
<1>6. Updates(c, m, q, chain, sent)
  BY <1>4, <1>5 DEF Updates
<1> HIDE DEF sent
<1> QED  BY <1>3, <1>6

-----------------------------------------------------------------------------
(* Strings of units, and the encoder *)

\* The two halves of a sequence make it up.
LEMMA TakeDrop ==
  ASSUME NEW T, NEW s \in Seq(T), NEW n \in Nat
  PROVE  /\ Take(s, n) \in Seq(T) /\ Drop(s, n) \in Seq(T)
         /\ Take(s, n) \o Drop(s, n) = s
         /\ Len(Take(s, n)) = IF n < Len(s) THEN n ELSE Len(s)
         /\ n = 0 => Take(s, n) = <<>>
         /\ Len(s) <= n => Drop(s, n) = <<>>
         /\ Len(s) > n => Drop(s, n) # <<>>
<1>1. PICK m \in Nat : m = (IF n < Len(s) THEN n ELSE Len(s)) /\ m <= Len(s)
  OBVIOUS
<1>2. Take(s, n) = SubSeq(s, 1, m)
  BY <1>1 DEF Take
<1>3. SubSeq(s, 1, m) \in Seq(T) /\ Len(SubSeq(s, 1, m)) = m
  BY <1>1
<1>4. Drop(s, n) = SubSeq(s, m + 1, Len(s))
  <2>1. CASE n < Len(s)
    BY <1>1, <2>1 DEF Drop
  <2>2. CASE ~ (n < Len(s))
    <3>1. SubSeq(s, n + 1, Len(s)) = <<>> /\ SubSeq(s, m + 1, Len(s)) = <<>>
      BY <1>1, <2>2, SubSeqEmpty
    <3> QED  BY <3>1 DEF Drop
  <2> QED  BY <2>1, <2>2
<1>5. SubSeq(s, m + 1, Len(s)) \in Seq(T)
  BY <1>1
<1>6. SubSeq(s, 1, m) \o SubSeq(s, m + 1, Len(s)) = s
  <2>1. 1 \in 1 .. Len(s) + 1 /\ m \in 1 - 1 .. Len(s) /\ Len(s) \in m .. Len(s)
    BY <1>1
  <2> QED  BY <2>1, ConcatAdjacentSubSeq, SubSeqFull
<1>7. n = 0 => SubSeq(s, 1, m) = <<>>
  BY <1>1, SubSeqEmpty
<1>8. ASSUME Len(s) <= n PROVE SubSeq(s, m + 1, Len(s)) = <<>>
  <2>1. m + 1 \in Int /\ Len(s) \in Int /\ Len(s) < m + 1
    BY <1>1, <1>8
  <2> QED  BY <2>1, SubSeqEmpty
<1>9. Len(s) > n => Len(SubSeq(s, m + 1, Len(s))) # 0
  BY <1>1
<1>10. Len(s) > n => SubSeq(s, m + 1, Len(s)) # <<>>
  BY <1>9, EmptySeq
<1> QED  BY <1>1, <1>2, <1>3, <1>4, <1>5, <1>6, <1>7, <1>8, <1>10

\* What a call of the encoder gives.
Coded(d, inp, space, o) ==
  /\ o.put \in Seq(Units) /\ o.stg \in Seq(Units)
  /\ o.acc \in Seq(Toks) /\ o.rest \in Seq(Toks)
  /\ o.fin \in BOOLEAN /\ o.coy \in BOOLEAN
  /\ Len(o.put) <= space
  /\ o.rest # <<>> => o.stg # <<>>
  /\ d # "continue" /\ o.acc # <<>> => o.stg # <<>>
  /\ d = "end" /\ o.stg = <<>> => o.fin \/ enc.ended
  /\ o.fin => d = "end" /\ ~enc.ended /\ o.rest = <<>> /\ o.acc = <<>>
  /\ o.coy => o.fin /\ o.stg = <<>> /\ Len(o.put) = space
  /\ o.put \o (o.stg \o (o.acc \o o.rest)) =
       enc.stg \o (enc.acc \o (inp \o (IF o.fin THEN <<EPILOGUE>> ELSE <<>>)))

\* Strings of units, and joining them; the provers are given the three laws
\* below instead of the definition of \o.
Str == Seq(Units)
a ++ b == a \o b

\* Joined strings are strings of units.
LEMMA CatTyped ==
  \A a, b \in Str : a ++ b \in Str
<1> TAKE a \in Str, b \in Str
<1>1. PICK S : S = Units
  OBVIOUS
<1> QED  BY <1>1, ConcatProperties DEF Str, ++

\* Joining is associative: where the pipeline is cut does not matter.
LEMMA CatAssoc ==
  \A a, b, c \in Str : (a ++ b) ++ c = a ++ (b ++ c)
<1> TAKE a \in Str, b \in Str, c \in Str
<1>1. PICK S : S = Units
  OBVIOUS
<1> QED  BY <1>1, ConcatAssociative DEF Str, ++

\* The empty string is neutral.
LEMMA CatEmpty ==
  <<>> \in Str /\ \A a \in Str : a ++ <<>> = a /\ <<>> ++ a = a
<1>1. PICK S : S = Units
  OBVIOUS
<1>2. <<>> \in Str
  BY <1>1, EmptySeq DEF Str
<1>3. ASSUME NEW a \in Str PROVE a ++ <<>> = a /\ <<>> ++ a = a
  BY <1>1, ConcatEmptySeq DEF Str, ++
<1> QED  BY <1>2, <1>3

\* Body tokens are units: a plain piece can be part of the output.
LEMMA TokensAreUnits ==
  ASSUME NEW s \in Seq(Toks)
  PROVE  s \in Seq(Units)
<1>1. Toks \subseteq Units
  BY DEF Toks, Units
<1> QED  BY <1>1, SeqMonotonic

\* Every outcome that the model allows ZSTD_compressStream2() keeps the order
\* of the tokens, and loses and repeats none.
LEMMA OutcomeCoded ==
  ASSUME enc \in Enc, NEW d, NEW inp \in Seq(Toks), NEW space \in Nat,
         NEW o \in Outcomes(d, inp, space)
  PROVE  Coded(d, inp, space, o)
<1> DEFINE Filter(x) ==
             /\ x.rest # <<>> => x.stg # <<>>
             /\ d # "continue" /\ x.acc # <<>> => x.stg # <<>>
             /\ d = "end" /\ x.stg = <<>> => x.fin \/ enc.ended
             /\ x.fin => d = "end" /\ ~enc.ended /\ x.rest = <<>> /\ x.acc = <<>>
             /\ x.coy => x.fin /\ x.stg = <<>> /\ Len(x.put) = space
           Ready(taken, cut, fin) ==
             enc.stg \o Take(taken, cut) \o (IF fin THEN <<EPILOGUE>> ELSE <<>>)
           Made(taken, cut, eat, fin, coy) ==
             [put |-> Take(Ready(taken, cut, fin), space),
               stg |-> Drop(Ready(taken, cut, fin), space),
              acc |-> Drop(taken, cut), rest |-> Drop(inp, eat),
              fin |-> fin, coy |-> coy]
<1>1. /\ Filter(o)
      /\ \E eat \in 0 .. Len(inp) : \E keep \in 0 .. Len(enc.acc) + eat, fin \in BOOLEAN,
         coy \in BOOLEAN :
           o = Made(enc.acc \o Take(inp, eat), Len(enc.acc \o Take(inp, eat)) - keep, eat,
             fin, coy)
  <2> DEFINE Out(eat, keep, fin, coy) ==
               Made(enc.acc \o Take(inp, eat), Len(enc.acc \o Take(inp, eat)) - keep, eat,
                 fin, coy)
             All == UNION {{Out(eat, keep, fin, coy) :
                       keep \in 0 .. Len(enc.acc) + eat,
                       fin \in BOOLEAN, coy \in BOOLEAN} : eat \in 0 .. Len(inp)}
  <2>1. Outcomes(d, inp, space) = {x \in All : Filter(x)}
    BY DEF Outcomes
  <2> HIDE DEF Filter, Out
  <2>2. o \in All /\ Filter(o)
    <3> HIDE DEF All
    <3> QED  BY <2>1
  <2>3. \E eat \in 0 .. Len(inp) : \E keep \in 0 .. Len(enc.acc) + eat, fin \in BOOLEAN,
          coy \in BOOLEAN :
          o = Out(eat, keep, fin, coy)
    BY <2>2
  <2>4. \A eat, keep, fin, coy :
          Out(eat, keep, fin, coy)
          = Made(enc.acc \o Take(inp, eat), Len(enc.acc \o Take(inp, eat)) - keep, eat, fin,
          coy)
    BY DEF Out
  <2> HIDE DEF Made
  <2> QED  BY <2>2, <2>3, <2>4
<1>2. PICK eat \in 0 .. Len(inp) : \E keep \in 0 .. Len(enc.acc) + eat, fin \in BOOLEAN,
        coy \in BOOLEAN :
           o = Made(enc.acc \o Take(inp, eat), Len(enc.acc \o Take(inp, eat)) - keep, eat,
             fin, coy)
  BY <1>1
<1>3. PICK keep \in 0 .. Len(enc.acc) + eat, fin \in BOOLEAN, coy \in BOOLEAN :
           o = Made(enc.acc \o Take(inp, eat), Len(enc.acc \o Take(inp, eat)) - keep, eat,
             fin, coy)
  BY <1>2
<1>4. PICK acc \in Seq(Toks), stg \in Seq(Units) : acc = enc.acc /\ stg = enc.stg
  BY DEF Enc
<1>5. PICK eaten \in Seq(Toks), rest \in Seq(Toks) :
        /\ eaten = Take(inp, eat) /\ rest = Drop(inp, eat) /\ eaten \o rest = inp
        /\ Len(eaten) = eat
  <2>1. eat \in Nat
    OBVIOUS
  <2>2. Len(Take(inp, eat)) = eat
    <3>1. Len(Take(inp, eat)) = IF eat < Len(inp) THEN eat ELSE Len(inp)
      BY <2>1, TakeDrop
    <3> QED  BY <3>1
  <2> QED  BY <2>1, <2>2, TakeDrop, Zenon
<1>6. PICK taken \in Seq(Toks) : taken = acc \o eaten /\ Len(taken) = Len(acc) + Len(eaten)
  BY ConcatProperties, Zenon
<1>7. PICK cut \in Nat : cut = Len(taken) - keep
  <2>1. PICK a \in Nat : a = Len(acc)
    OBVIOUS
  <2>2. Len(taken) = a + eat /\ keep \in 0 .. a + eat
    BY <1>4, <1>5, <1>6, <2>1
  <2>3. (a + eat) - keep \in Nat
    BY <2>2
  <2> QED  BY <2>2, <2>3
<1>8. PICK head \in Seq(Toks), left \in Seq(Toks) :
        head = Take(taken, cut) /\ left = Drop(taken, cut) /\ head \o left = taken
  <2>1. /\ Take(taken, cut) \in Seq(Toks) /\ Drop(taken, cut) \in Seq(Toks)
        /\ Take(taken, cut) \o Drop(taken, cut) = taken
    BY TakeDrop
  <2> QED  BY <2>1
<1>9. PICK end \in Seq(Units) : end = IF fin THEN <<EPILOGUE>> ELSE <<>>
  <2>1. EPILOGUE \in Units
    BY DEF Units
  <2>2. <<EPILOGUE>> \in Seq(Units) /\ <<>> \in Seq(Units)
    BY <2>1, Single, EmptySeq
  <2> QED  BY <2>2
<1>10. /\ head \in Seq(Units) /\ left \in Seq(Units) /\ rest \in Seq(Units)
       /\ acc \in Seq(Units) /\ eaten \in Seq(Units) /\ inp \in Seq(Units)
  BY TokensAreUnits
<1>11. PICK ready \in Seq(Units) : ready = stg \o head \o end
  <2>1. PICK sh \in Seq(Units) : sh = stg \o head
    BY <1>10, CatTyped DEF Str, ++
  <2>2. sh \o end \in Seq(Units)
    BY ConcatProperties, Zenon
  <2> QED  BY <2>1, <2>2, Zenon
<1>12. PICK put \in Seq(Units), over \in Seq(Units) :
         /\ put = Take(ready, space) /\ over = Drop(ready, space)
         /\ put \o over = ready
         /\ Len(put) <= space
  <2>1. Len(Take(ready, space)) <= space
    <3>1. Len(Take(ready, space)) = IF space < Len(ready) THEN space ELSE Len(ready)
      BY TakeDrop
    <3> QED  BY <3>1
  <2> QED  BY <2>1, TakeDrop, Zenon
<1>13. o = [put |-> put, stg |-> over, acc |-> left, rest |-> rest, fin |-> fin, coy |-> coy]
  BY <1>3, <1>4, <1>5, <1>6, <1>7, <1>8, <1>9, <1>11, <1>12
<1>14. o.put = put /\ o.stg = over /\ o.acc = left /\ o.rest = rest /\ o.fin = fin
         /\ o.coy = coy
  BY <1>13
<1>15. fin => left = <<>> /\ rest = <<>>
  BY <1>1, <1>14
<1>16. put \o (over \o (left \o rest)) = stg \o (acc \o (inp \o end))
  <2>0. /\ put \in Str /\ over \in Str /\ left \in Str /\ rest \in Str /\ head \in Str
        /\ stg \in Str /\ acc \in Str /\ inp \in Str /\ end \in Str /\ eaten \in Str
           /\ ready \in Str
    BY <1>10 DEF Str
  <2>1. /\ put ++ over = ready /\ ready = (stg ++ head) ++ end
        /\ head ++ left = acc ++ eaten /\ eaten ++ rest = inp
    BY <1>5, <1>6, <1>8, <1>11, <1>12, Zenon DEF ++
  <2>2. put ++ (over ++ (left ++ rest)) = (put ++ over) ++ (left ++ rest)
    BY <2>0, CatAssoc, CatTyped
  <2>3. CASE fin
    <3>1. left = <<>> /\ rest = <<>>
      BY <1>15, <2>3
    <3>2. left ++ rest = <<>> /\ ready ++ <<>> = ready
      BY <2>0, <3>1, CatEmpty
    <3>3. head = acc ++ eaten /\ eaten = inp
      BY <2>0, <2>1, <3>1, CatEmpty
    <3>4. (stg ++ (acc ++ inp)) ++ end = stg ++ (acc ++ (inp ++ end))
      BY <2>0, CatAssoc, CatTyped
    <3>5. put ++ (over ++ (left ++ rest)) = stg ++ (acc ++ (inp ++ end))
      BY <2>1, <2>2, <3>2, <3>3, <3>4, Zenon
    <3> QED  BY <3>5, Zenon DEF ++
  <2>4. CASE ~ fin
    <3>1. end = <<>>
      BY <1>9, <2>4
    <3>2. ready = stg ++ head /\ inp ++ end = inp
      BY <2>0, <2>1, <3>1, CatEmpty, CatTyped
    <3>3. (stg ++ head) ++ (left ++ rest) = stg ++ ((head ++ left) ++ rest)
      BY <2>0, CatAssoc, CatTyped
    <3>4. (acc ++ eaten) ++ rest = acc ++ (eaten ++ rest)
      BY <2>0, CatAssoc, CatTyped
    <3>5. put ++ (over ++ (left ++ rest)) = stg ++ (acc ++ (inp ++ end))
      BY <2>1, <2>2, <3>2, <3>3, <3>4, Zenon
    <3> QED  BY <3>5, Zenon DEF ++
  <2> QED  BY <2>3, <2>4
<1>17. /\ o.put \o (o.stg \o (o.acc \o o.rest)) = enc.stg \o
          (enc.acc \o (inp \o (IF o.fin THEN <<EPILOGUE>> ELSE <<>>)))
  BY <1>4, <1>9, <1>14, <1>16, Zenon
<1>18. o.put \in Seq(Units) /\ o.stg \in Seq(Units) /\ o.acc \in Seq(Toks)
         /\ o.rest \in Seq(Toks) /\ o.fin \in BOOLEAN /\ o.coy \in BOOLEAN
         /\ Len(o.put) <= space
  BY <1>12, <1>14, Zenon
<1> QED  BY <1>1, <1>17, <1>18, Zenon DEF Coded

-----------------------------------------------------------------------------
(* What is in chains of buffers and of links *)

\* What the elements of a chain hold, piece by piece and joined.
Pieces(h, chain) == [i \in 1 .. Len(chain) |-> h[chain[i]]]
Joined(h, chain) == FlattenSeq(Pieces(h, chain))

\* h maps S to V.  A name, so that the lemmas apply by matching it.
Maps(h, S, V) == h \in [S -> V]

\* The pieces of a chain, one for each of its elements.
LEMMA PiecesTyped ==
  ASSUME NEW S, NEW V, NEW h, Maps(h, S, V), NEW chain \in Seq(S)
  PROVE  /\ Pieces(h, chain) \in Seq(V)
         /\ Len(Pieces(h, chain)) = Len(chain)
         /\ \A i \in 1 .. Len(chain) : Pieces(h, chain)[i] = h[chain[i]]
<1>1. \A i \in 1 .. Len(chain) : chain[i] \in S
  BY ElementOfSeq
<1>2. Pieces(h, chain) \in [1 .. Len(chain) -> V]
  BY <1>1 DEF Pieces, Maps
<1>3. PICK n \in Nat : n = Len(chain)
  OBVIOUS
<1>4. PICK f \in [1 .. n -> V] : f = Pieces(h, chain)
  BY <1>2, <1>3
<1>5. f \in Seq(V) /\ Len(f) = n
  OBVIOUS
<1>6. \A i \in 1 .. Len(chain) : Pieces(h, chain)[i] = h[chain[i]]
  BY DEF Pieces
<1> QED  BY <1>3, <1>4, <1>5, <1>6

\* The pieces of two chains linked together.
LEMMA PiecesConcat ==
  ASSUME NEW S, NEW V, NEW h, Maps(h, S, V), NEW s \in Seq(S), NEW t \in Seq(S)
  PROVE  Pieces(h, s \o t) = Pieces(h, s) \o Pieces(h, t)
<1>0. \A c \in Seq(S) : /\ Pieces(h, c) \in Seq(V)
                        /\ Len(Pieces(h, c)) = Len(c)
                        /\ \A i \in 1 .. Len(c) : Pieces(h, c)[i] = h[c[i]]
  BY PiecesTyped
<1>1. PICK a \in Nat, b \in Nat : a = Len(s) /\ b = Len(t)
  OBVIOUS
<1>2. PICK u \in Seq(S) : u = s \o t
  BY ConcatProperties, Zenon
<1>3. Len(u) = a + b /\ \A i \in 1 .. a + b : u[i] = IF i <= a THEN s[i] ELSE t[i - a]
  BY <1>1, <1>2, ConcatProperties, Zenon
<1>4. PICK ds \in Seq(V) : ds = Pieces(h, s) /\ Len(ds) = a /\ \A i \in 1 .. a :
        ds[i] = h[s[i]]
  <2>1. /\ Pieces(h, s) \in Seq(V)
        /\ Len(Pieces(h, s)) = Len(s)
        /\ \A i \in 1 .. Len(s) : Pieces(h, s)[i] = h[s[i]]
    BY <1>0, Zenon
  <2>2. Len(s) = a
    BY <1>1
  <2> QED  BY <2>1, <2>2, Zenon
<1>5. PICK dt \in Seq(V) : dt = Pieces(h, t) /\ Len(dt) = b /\ \A i \in 1 .. b :
        dt[i] = h[t[i]]
  <2>1. /\ Pieces(h, t) \in Seq(V)
        /\ Len(Pieces(h, t)) = Len(t)
        /\ \A i \in 1 .. Len(t) : Pieces(h, t)[i] = h[t[i]]
    BY <1>0, Zenon
  <2>2. Len(t) = b
    BY <1>1
  <2> QED  BY <2>1, <2>2, Zenon
<1>6. PICK du \in Seq(V) : du = Pieces(h, u) /\ Len(du) = a + b /\ \A i \in 1 .. a + b :
        du[i] = h[u[i]]
  <2>1. /\ Pieces(h, u) \in Seq(V)
        /\ Len(Pieces(h, u)) = Len(u)
        /\ \A i \in 1 .. Len(u) : Pieces(h, u)[i] = h[u[i]]
    BY <1>0, Zenon
  <2>2. Len(u) = a + b
    BY <1>3
  <2> QED  BY <2>1, <2>2, Zenon
<1>7. PICK dst \in Seq(V) : dst = ds \o dt
  BY ConcatProperties, Zenon
<1>8. Len(dst) = a + b /\ \A i \in 1 .. a + b : dst[i] = IF i <= a THEN ds[i] ELSE dt[i - a]
  <2>1. Len(ds) = a /\ Len(dt) = b
    BY <1>4, <1>5
  <2>2. /\ Len(ds \o dt) = Len(ds) + Len(dt)
        /\ \A i \in 1 .. Len(ds) + Len(dt) :
           (ds \o dt)[i] = IF i <= Len(ds) THEN ds[i] ELSE dt[i - Len(ds)]
    BY ConcatProperties
  <2> QED  BY <1>7, <2>1, <2>2, Zenon
<1>9. \A i \in 1 .. a + b : du[i] = dst[i]
  <2> TAKE i \in 1 .. a + b
  <2>2. CASE i <= a
    <3>1. i \in 1 .. a
      BY <2>2
    <3>2. u[i] = s[i] /\ dst[i] = ds[i]
      BY <1>3, <1>8, <2>2
    <3> QED  BY <1>4, <1>6, <3>1, <3>2, Zenon
  <2>3. CASE ~ (i <= a)
    <3>1. i - a \in 1 .. b
      BY <2>3
    <3>2. u[i] = t[i - a] /\ dst[i] = dt[i - a]
      BY <1>3, <1>8, <2>3
    <3>3. dt[i - a] = h[t[i - a]]
      BY <1>5, <3>1
    <3> QED  BY <1>6, <3>2, <3>3, Zenon
  <2> QED  BY <2>2, <2>3
<1>10. du = dst
  BY <1>6, <1>8, <1>9, SeqEqual, Zenon
<1> QED  BY <1>2, <1>4, <1>5, <1>6, <1>7, <1>10, Zenon

\* What a chain holds is a sequence of what its elements hold.
LEMMA JoinedTyped ==
  ASSUME NEW S, NEW T, NEW h, Maps(h, S, Seq(T)), NEW chain \in Seq(S)
  PROVE  Joined(h, chain) \in Seq(T)
<1>1. PICK V : V = Seq(T)
  OBVIOUS
<1>2. Maps(h, S, V)
  BY <1>1
<1>3. PICK d \in Seq(V) : d = Pieces(h, chain)
  BY <1>2, PiecesTyped
<1>4. FlattenSeq(d) \in Seq(T)
  BY <1>1, FlattenTyped, Zenon
<1> QED  BY <1>3, <1>4, Zenon DEF Joined

\* The empty chain holds nothing.
LEMMA JoinedEmpty ==
  ASSUME NEW h
  PROVE  Joined(h, <<>>) = <<>>
<1>1. Pieces(h, <<>>) = <<>>
  BY DEF Pieces
<1>2. <<>> \in Seq(Nat)
  OBVIOUS
<1> QED  BY <1>1, <1>2, FlattenSmall, Zenon DEF Joined

\* A chain of one holds what its element holds.
LEMMA JoinedOne ==
  ASSUME NEW S, NEW T, NEW h, Maps(h, S, Seq(T)), NEW b \in S
  PROVE  Joined(h, <<b>>) = h[b]
<1>1. PICK d \in Seq(T) : d = h[b]
  BY Zenon DEF Maps
<1>2. Pieces(h, <<b>>) = <<d>>
  BY <1>1 DEF Pieces
<1> QED  BY <1>1, <1>2, FlattenSmall, Zenon DEF Joined

\* Chains linked together hold what they hold, one after the other.
LEMMA JoinedConcat ==
  ASSUME NEW S, NEW T, NEW h, Maps(h, S, Seq(T)), NEW s \in Seq(S), NEW t \in Seq(S)
  PROVE  Joined(h, s \o t) = Joined(h, s) \o Joined(h, t)
<1>1. PICK V : V = Seq(T)
  OBVIOUS
<1>2. Maps(h, S, V)
  BY <1>1
<1>c. Pieces(h, s \o t) = Pieces(h, s) \o Pieces(h, t)
  BY <1>2, PiecesConcat
<1>3. PICK ds \in Seq(V), dt \in Seq(V) : ds = Pieces(h, s) /\ dt = Pieces(h, t)
  BY <1>2, PiecesTyped
<1>4. Pieces(h, s \o t) = ds \o dt
  BY <1>3, <1>c, Zenon
<1>5. FlattenSeq(ds \o dt) = FlattenSeq(ds) \o FlattenSeq(dt)
  BY <1>1, FlattenConcat, Zenon
<1> QED  BY <1>3, <1>4, <1>5, Zenon DEF Joined

\* The data of buffers.
LEMMA BufDataJoined ==
  ASSUME NEW m \in [Bufs -> Buf]
  PROVE  /\ Maps([b \in Bufs |-> m[b].data], Bufs, Seq(Units))
         /\ \A chain \in Seq(Bufs) :
            BufData(m, chain) = Joined([b \in Bufs |-> m[b].data], chain)
<1>1. \A b \in Bufs : m[b].data \in Seq(Units)
  <2> TAKE b \in Bufs
  <2>1. m[b] \in Buf
    OBVIOUS
  <2> QED  BY <2>1 DEF Buf
<1>2. ASSUME NEW chain \in Seq(Bufs)
      PROVE  [i \in 1 .. Len(chain) |-> m[chain[i]].data]
               = [i \in 1 .. Len(chain) |-> [b \in Bufs |-> m[b].data][chain[i]]]
  <2>1. \A i \in 1 .. Len(chain) : chain[i] \in Bufs
    OBVIOUS
  <2> QED  BY <2>1, Zenon
<1>3. Maps([b \in Bufs |-> m[b].data], Bufs, Seq(Units))
  BY <1>1, Zenon DEF Maps
<1> QED  BY <1>2, <1>3, Zenon DEF BufData, Joined, Pieces

\* The units in a chain of buffers: type, empty, single and linked chains.
LEMMA BufDataFacts ==
  ASSUME NEW m \in [Bufs -> Buf]
  PROVE  /\ \A s \in Seq(Bufs) : BufData(m, s) \in Seq(Units)
         /\ BufData(m, <<>>) = <<>>
         /\ \A b \in Bufs : BufData(m, <<b>>) = m[b].data
         /\ \A s, t \in Seq(Bufs) : BufData(m, s \o t) = BufData(m, s) \o BufData(m, t)
<1>1. PICK h :
        /\ Maps(h, Bufs, Seq(Units))
        /\ h = [b \in Bufs |-> m[b].data]
        /\ \A chain \in Seq(Bufs) : BufData(m, chain) = Joined(h, chain)
  BY BufDataJoined, Zenon
<1>m. Maps(h, Bufs, Seq(Units))
  BY <1>1
<1>2. \A s \in Seq(Bufs) : BufData(m, s) \in Seq(Units)
  <2> TAKE s \in Seq(Bufs)
  <2>1. PICK S, T : S = Bufs /\ T = Units
    OBVIOUS
  <2>2. Joined(h, s) \in Seq(T)
    BY <1>1, <2>1, JoinedTyped, Zenon
  <2> QED  BY <1>1, <2>1, <2>2, Zenon
<1>3. BufData(m, <<>>) = <<>>
  <2>1. <<>> \in Seq(Bufs)
    OBVIOUS
  <2> QED  BY <1>1, <2>1, JoinedEmpty, Zenon
<1>4. ASSUME NEW b \in Bufs PROVE BufData(m, <<b>>) = m[b].data
  <2>1. <<b>> \in Seq(Bufs)
    OBVIOUS
  <2>2. Joined(h, <<b>>) = h[b]
    BY <1>1, JoinedOne
  <2> QED  BY <1>1, <2>1, <2>2, Zenon
<1>5. ASSUME NEW s \in Seq(Bufs), NEW t \in Seq(Bufs)
      PROVE  BufData(m, s \o t) = BufData(m, s) \o BufData(m, t)
  <2>1. s \o t \in Seq(Bufs)
    OBVIOUS
  <2>2. Joined(h, s \o t) = Joined(h, s) \o Joined(h, t)
    BY <1>m, JoinedConcat
  <2> QED  BY <1>1, <2>1, <2>2, Zenon
<1> QED  BY <1>2, <1>3, <1>4, <1>5, Zenon

\* Only the buffers of the chain matter.
LEMMA BufDataSame ==
  ASSUME NEW m, NEW mm, NEW chain,
         \A i \in 1 .. Len(chain) : m[chain[i]].data = mm[chain[i]].data
  PROVE  BufData(m, chain) = BufData(mm, chain)
<1>1. [i \in 1 .. Len(chain) |-> m[chain[i]].data]
        = [i \in 1 .. Len(chain) |-> mm[chain[i]].data]
  BY Zenon
<1> QED  BY <1>1, Zenon DEF BufData

\* The data of links.
LEMMA LinkDataFacts ==
  /\ \A s \in Seq(Link) : LinkData(s) \in Seq(Toks)
  /\ LinkData(<<>>) = <<>>
  /\ \A x \in Link : LinkData(<<x>>) = x.data
  /\ \A s, t \in Seq(Link) : LinkData(s \o t) = LinkData(s) \o LinkData(t)
<1> DEFINE h == [x \in Link |-> x.data]
<1>1. Maps(h, Link, Seq(Toks))
  <2>1. \A x \in Link : x.data \in Seq(Toks)
    BY DEF Link, Toks
  <2> QED  BY <2>1, Zenon DEF Maps
<1>2. ASSUME NEW chain \in Seq(Link) PROVE LinkData(chain) = Joined(h, chain)
  <2>1. \A i \in 1 .. Len(chain) : chain[i] \in Link
    BY ElementOfSeq, Zenon
  <2>2. [i \in 1 .. Len(chain) |-> chain[i].data]
          = [i \in 1 .. Len(chain) |-> h[chain[i]]]
    BY <2>1, Zenon
  <2> QED  BY <2>2, Zenon DEF LinkData, Joined, Pieces
<1>3. \A x \in Link : h[x] = x.data
  BY Zenon
<1> HIDE DEF h
<1>4. \A s \in Seq(Link) : LinkData(s) \in Seq(Toks)
  <2> TAKE s \in Seq(Link)
  <2>1. PICK S, T : S = Link /\ T = Toks
    OBVIOUS
  <2>2. Joined(h, s) \in Seq(T)
    BY <1>1, <2>1, JoinedTyped, Zenon
  <2> QED  BY <1>2, <2>1, <2>2, Zenon
<1>5. LinkData(<<>>) = <<>>
  <2>1. <<>> \in Seq(Link)
    BY EmptySeq, Zenon
  <2> QED  BY <1>2, <2>1, JoinedEmpty, Zenon
<1>6. ASSUME NEW x \in Link PROVE LinkData(<<x>>) = x.data
  <2>1. <<x>> \in Seq(Link)
    BY Single, Zenon
  <2>2. Joined(h, <<x>>) = h[x]
    BY <1>1, JoinedOne
  <2> QED  BY <1>2, <1>3, <2>1, <2>2, Zenon
<1>7. ASSUME NEW s \in Seq(Link), NEW t \in Seq(Link)
      PROVE  LinkData(s \o t) = LinkData(s) \o LinkData(t)
  <2>1. s \o t \in Seq(Link)
    BY ConcatProperties, Zenon
  <2>2. Joined(h, s \o t) = Joined(h, s) \o Joined(h, t)
    <3>1. PICK S, T : S = Link /\ T = Toks
      OBVIOUS
    <3> QED  BY <1>1, <3>1, JoinedConcat
  <2> QED  BY <1>2, <2>1, <2>2, Zenon
<1> QED  BY <1>4, <1>5, <1>6, <1>7, Zenon

\* n body tokens behind the first m.
LEMMA TokensTyped ==
  ASSUME NEW m \in Nat, NEW n \in Nat, m + n <= MaxTokens
  PROVE  /\ Tokens(m, n) \in Seq(Toks) /\ Len(Tokens(m, n)) = n
         /\ \A i \in 1 .. n : Tokens(m, n)[i] = m + i
<1>1. MaxTokens \in Nat
  BY BoundsAssumption
<1>2. \A i \in 1 .. n : m + i \in Toks
  BY <1>1 DEF Toks
<1>3. PICK f \in [1 .. n -> Toks] : f = Tokens(m, n)
  BY <1>2 DEF Tokens
<1>4. f \in Seq(Toks) /\ Len(f) = n
  OBVIOUS
<1>5. \A i \in 1 .. n : f[i] = m + i
  BY <1>3 DEF Tokens
<1> QED  BY <1>3, <1>4, <1>5

\* Consecutive stretches of the body join up.
LEMMA TokensJoin ==
  ASSUME NEW m \in Nat, NEW a \in Nat, NEW b \in Nat, m + (a + b) <= MaxTokens
  PROVE  Tokens(m, a) \o Tokens(m + a, b) = Tokens(m, a + b)
<1>0. MaxTokens \in Nat
  BY BoundsAssumption
<1>1. PICK s \in Seq(Toks) : s = Tokens(m, a) /\ Len(s) = a /\ \A i \in 1 .. a : s[i] = m + i
  <2>1. m + a <= MaxTokens
    BY <1>0
  <2> QED  BY <2>1, TokensTyped
<1>2. PICK t \in Seq(Toks) : t = Tokens(m + a, b) /\ Len(t) = b /\ \A i \in 1 .. b : t[i] =
        (m + a) + i
  <2>1. (m + a) + b <= MaxTokens /\ m + a \in Nat
    BY <1>0
  <2> QED  BY <2>1, TokensTyped
<1>3. PICK u \in Seq(Toks) : u = Tokens(m, a + b) /\ Len(u) = a + b /\ \A i \in 1 .. a + b :
        u[i] = m + i
  <2>1. a + b \in Nat
    OBVIOUS
  <2> QED  BY <2>1, TokensTyped
<1>4. PICK st \in Seq(Toks) : st = s \o t /\ Len(st) = a + b
         /\ \A i \in 1 .. a + b : st[i] = IF i <= a THEN s[i] ELSE t[i - a]
  <2>1. /\ s \o t \in Seq(Toks) /\ Len(s \o t) = Len(s) + Len(t)
        /\ \A i \in 1 .. Len(s) + Len(t) :
           (s \o t)[i] = IF i <= Len(s) THEN s[i] ELSE t[i - Len(s)]
    BY ConcatProperties
  <2>2. Len(s) = a /\ Len(t) = b
    BY <1>1, <1>2
  <2> QED  BY <2>1, <2>2, Zenon
<1>5. \A i \in 1 .. a + b : st[i] = u[i]
  <2> TAKE i \in 1 .. a + b
  <2>1. CASE i <= a
    BY <1>1, <1>3, <1>4, <2>1
  <2>2. CASE i > a
    <3>1. i - a \in 1 .. b /\ (m + a) + (i - a) = m + i
      BY <2>2
    <3>2. st[i] = t[i - a]
      BY <1>4, <2>2
    <3> QED  BY <1>2, <1>3, <3>1, <3>2
  <2> QED  BY <2>1, <2>2
<1>6. st = u
  BY <1>3, <1>4, <1>5, SeqEqual
<1> QED  BY <1>1, <1>2, <1>3, <1>4, <1>6, Zenon

\* A chain of two links is two chains of one.
LEMMA Pair ==
  ASSUME NEW S, NEW a \in S, NEW b \in S
  PROVE  <<a, b>> = <<a>> \o <<b>>
<1>1. PICK s \in Seq(S), t \in Seq(S), u \in Seq(S) :
        /\ s = <<a>> /\ Len(s) = 1 /\ s[1] = a
        /\ t = <<b>> /\ Len(t) = 1 /\ t[1] = b
        /\ u = <<a, b>> /\ Len(u) = 2 /\ u[1] = a /\ u[2] = b
  <2>1. <<a>> \in Seq(S) /\ Len(<<a>>) = 1 /\ <<a>>[1] = a
    OBVIOUS
  <2>2. <<b>> \in Seq(S) /\ Len(<<b>>) = 1 /\ <<b>>[1] = b
    OBVIOUS
  <2>3. <<a, b>> \in Seq(S) /\ Len(<<a, b>>) = 2 /\ <<a, b>>[1] = a /\ <<a, b>>[2] = b
    OBVIOUS
  <2> QED  BY <2>1, <2>2, <2>3, Zenon
<1>2. PICK v \in Seq(S) : v = s \o t
  BY ConcatProperties, Zenon
<1>3. Len(v) = 2 /\ v[1] = a /\ v[2] = b
  <2>1. /\ Len(s \o t) = Len(s) + Len(t)
        /\ \A i \in 1 .. Len(s) + Len(t) :
           (s \o t)[i] = IF i <= Len(s) THEN s[i] ELSE t[i - Len(s)]
    BY ConcatProperties
  <2> QED  BY <1>1, <1>2, <2>1
<1>4. \A i \in 1 .. 2 : i = 1 \/ i = 2
  OBVIOUS
<1>5. u = v
  <2>1. \A i \in 1 .. Len(u) : u[i] = v[i]
    BY <1>1, <1>3, <1>4
  <2> QED  BY <1>1, <1>3, <2>1, SeqEqual
<1> QED  BY <1>1, <1>2, <1>5, Zenon

\* What the upstream hands over continues the body.
LEMMA ChainContinues ==
  ASSUME up.tokens \in 0 .. MaxTokens, NEW chain \in Chains
  PROVE  /\ chain \in Seq(Link)
         /\ \E n \in 0 .. MaxTokens - up.tokens :
              LinkData(chain) = Tokens(up.tokens, n) /\ Len(LinkData(chain)) = n
<1> DEFINE One(m) == {[data |-> Tokens(m, n), flush |-> f, last_buf |-> l] :
                        n \in 0 .. MaxTokens - m, f \in BOOLEAN, l \in BOOLEAN}
<1>0. MaxTokens \in Nat /\ up.tokens \in Nat /\ up.tokens <= MaxTokens
  BY BoundsAssumption
<1>1. ASSUME NEW m \in Nat, m <= MaxTokens, NEW a \in One(m)
      PROVE  /\ a \in Link
             /\ \E n \in 0 .. MaxTokens - m : a.data = Tokens(m, n) /\ Len(a.data) = n
  <2>1. PICK n \in 0 .. MaxTokens - m, f \in BOOLEAN, l \in BOOLEAN :
          a = [data |-> Tokens(m, n), flush |-> f, last_buf |-> l]
    BY <1>1
  <2>2. n \in Nat /\ m + n <= MaxTokens
    BY <1>0, <1>1
  <2>3. PICK d \in Seq(Toks) : d = Tokens(m, n) /\ Len(d) = n
    BY <2>2, TokensTyped
  <2>4. a = [data |-> d, flush |-> f, last_buf |-> l]
    BY <2>1, <2>3
  <2>5. a \in Link
    BY <2>4 DEF Link, Toks
  <2> QED  BY <2>3, <2>4, <2>5
<1> HIDE DEF One
<1>2. \/ \E a \in One(up.tokens) : chain = <<a>>
      \/ \E a \in One(up.tokens) : \E b \in One(up.tokens + Len(a.data)) : chain = <<a, b>>
  BY DEF Chains, One
<1>3. ASSUME NEW a \in One(up.tokens), chain = <<a>>
      PROVE  /\ chain \in Seq(Link)
             /\ \E n \in 0 .. MaxTokens - up.tokens :
                  LinkData(chain) = Tokens(up.tokens, n) /\ Len(LinkData(chain)) = n
  <2>1. a \in Link /\ \E n \in 0 .. MaxTokens - up.tokens : a.data = Tokens(up.tokens, n)
          /\ Len(a.data) = n
    BY <1>0, <1>1
  <2>2. LinkData(chain) = a.data
    BY <1>3, <2>1, LinkDataFacts
  <2>3. chain \in Seq(Link)
    BY <1>3, <2>1, Single, Zenon
  <2> QED  BY <2>1, <2>2, <2>3
<1>4. ASSUME NEW a \in One(up.tokens), NEW b \in One(up.tokens + Len(a.data)),
             chain = <<a, b>>
      PROVE  /\ chain \in Seq(Link)
             /\ \E n \in 0 .. MaxTokens - up.tokens :
                  LinkData(chain) = Tokens(up.tokens, n) /\ Len(LinkData(chain)) = n
  <2>1. PICK x \in 0 .. MaxTokens - up.tokens : a.data = Tokens(up.tokens, x)
          /\ Len(a.data) = x
    BY <1>0, <1>1
  <2>2. a \in Link
    BY <1>0, <1>1
  <2>3. PICK m \in Nat : m = up.tokens + x /\ m <= MaxTokens
    BY <1>0, <2>1
  <2>4. b \in One(m)
    BY <1>4, <2>1, <2>3
  <2>5. PICK y \in 0 .. MaxTokens - m : b.data = Tokens(m, y) /\ Len(b.data) = y
    BY <1>1, <2>3, <2>4
  <2>6. b \in Link
    BY <1>1, <2>3, <2>4
  <2>7. <<a>> \in Seq(Link) /\ <<b>> \in Seq(Link) /\ <<a, b>> \in Seq(Link)
          /\ <<a, b>> = <<a>> \o <<b>>
    <3>1. <<a>> \in Seq(Link) /\ <<b>> \in Seq(Link) /\ <<a, b>> \in Seq(Link)
      BY <2>2, <2>6
    <3>2. <<a, b>> = <<a>> \o <<b>>
      BY <2>2, <2>6, Pair, Zenon
    <3> QED  BY <3>1, <3>2
  <2>8. LinkData(chain) = a.data \o b.data
    <3>1. LinkData(<<a>> \o <<b>>) = LinkData(<<a>>) \o LinkData(<<b>>)
      BY <2>7, LinkDataFacts, Zenon
    <3>2. LinkData(<<a>>) = a.data /\ LinkData(<<b>>) = b.data
      BY <2>2, <2>6, LinkDataFacts, Zenon
    <3> QED  BY <1>4, <2>7, <3>1, <3>2, Zenon
  <2>9. PICK t \in Nat, n \in 0 .. MaxTokens - up.tokens :
          /\ t = up.tokens /\ x \in Nat /\ y \in Nat /\ n = x + y /\ t + (x + y) <= MaxTokens
    BY <1>0, <2>1, <2>3, <2>5
  <2>10. Tokens(t, x) \o Tokens(t + x, y) = Tokens(t, x + y)
    BY <2>9, TokensJoin
  <2>11. LinkData(chain) = Tokens(up.tokens, n)
    BY <2>1, <2>3, <2>5, <2>8, <2>9, <2>10, Zenon
  <2>12. Len(Tokens(t, n)) = n
    <3>1. n \in Nat /\ t + n <= MaxTokens
      BY <1>0, <2>9
    <3> QED  BY <3>1, TokensTyped
  <2> QED  BY <1>4, <2>7, <2>9, <2>11, <2>12, Zenon
<1> QED  BY <1>2, <1>3, <1>4, Zenon

-----------------------------------------------------------------------------
(* The buffer invariant: steps that move no buffer *)

\* The response is given up, or about to be.
Dead == pc = "failed" \/ ctx.aborted

\* Where the callback is, and what that says of the context.
ControlInv ==
  /\ ctx.aborted => pc = "parked" /\ ctx.done
  /\ pc \in {"parked", "entry"} /\ ~ctx.aborted => ctx.out = <<>>
  /\ pc \in {"add", "buf", "compress"} => ~ctx.done /\ ~ctx.nomem
  /\ pc = "compress" => ctx.out_buf # NULL
  /\ ctx.nomem => ctx.out_buf = NULL

\* The buffers in the filter's chains.
Placed == Range(ctx.out) \cup Range(ctx.busy) \cup Range(ctx.free)

\* Every buffer that was allocated is in one place.
PlaceInv ==
  /\ ctx.bufs <= conf.num
  /\ \A b \in Placed : b <= ctx.bufs
  /\ ctx.out_buf # NULL => ctx.out_buf <= ctx.bufs
  /\ Distinct(ctx.out) /\ Distinct(ctx.busy) /\ Distinct(ctx.free)
  /\ Range(ctx.out) \cap Range(ctx.busy) = {}
  /\ Range(ctx.out) \cap Range(ctx.free) = {}
  /\ Range(ctx.busy) \cap Range(ctx.free) = {}
  /\ ctx.out_buf \notin Placed

\* What the buffers in each place hold.  The current one is empty at every
\* turn of the loop, but for the dcz header while its call is repeated.
DataInv ==
  /\ \A b \in Range(ctx.out) :
       mem[b].data # <<>> \/ (ctx.done /\ ~mem[b].memory /\ mem[b].last_buf)
  /\ \A b \in Range(ctx.free) : mem[b].data = <<>>
  /\ ctx.out_buf # NULL /\ ~Dead =>
       \/ mem[ctx.out_buf].data = <<>>
       \/ /\ mem[ctx.out_buf].data = <<PREFIX>>
          /\ pc = "compress" \/ (pc # "deliver" /\ ctx.redo)
  /\ \A b \in Bufs : b <= ctx.bufs => mem[b].size > 0

\* Until the response is done the downstream holds exactly the busy buffers.
HeldInv ==
  /\ Distinct(held)
  /\ \A b \in Range(held) : mem[b].data # <<>> => b \in Range(ctx.busy) \cup Range(ctx.out)
  /\ ~ctx.done \/ pc = "deliver" =>
       held = ctx.busy /\ \A b \in Range(held) : mem[b].data # <<>>

\* The inductive invariant of the buffers.
BufInv == TypeInv /\ ControlInv /\ PlaceInv /\ DataInv /\ HeldInv

\* Buffers are numbered from 1, and the next number is a buffer.
LEMMA BufsFacts ==
  /\ Bufs \subseteq Nat /\ NULL \notin Bufs
  /\ \A b \in Bufs : b <= MaxBufs /\ b >= 1
  /\ \A n \in Nat : n < MaxBufs => n + 1 \in Bufs
<1>1. MaxBufs \in Nat /\ NULL \notin Bufs
  BY BoundsAssumption, UnitsAssumption
<1> QED  BY <1>1 DEF Bufs

\* The current buffer has all of its room when the encoder is called.
LEMMA RoomLeft ==
  ASSUME BufInv, ctx.out_buf # NULL, ~Dead
  PROVE  /\ ctx.out_buf \in Bufs
         /\ Space(mem[ctx.out_buf]) \in Nat /\ Space(mem[ctx.out_buf]) > 0
<1>1. PICK b \in Bufs : b = ctx.out_buf
  BY DEF BufInv, TypeInv, Ctx
<1>2. mem[b].data = <<>> \/ mem[b].data = <<PREFIX>>
  BY <1>1 DEF BufInv, DataInv
<1>3. b <= ctx.bufs
  BY <1>1 DEF BufInv, PlaceInv
<1>4. PICK n \in Nat : n = mem[b].size /\ n > 0
  <2>1. mem[b] \in Buf
    BY DEF BufInv, TypeInv
  <2>2. mem[b].size \in Nat
    BY <2>1, BoundsAssumption DEF Buf
  <2>3. mem[b].size > 0
    BY <1>3 DEF BufInv, DataInv
  <2> QED  BY <2>2, <2>3
<1>5. {i \in DOMAIN mem[b].data : mem[b].data[i] # PREFIX} = {}
  <2>1. CASE mem[b].data = <<>>
    <3>1. DOMAIN <<>> = {}
      OBVIOUS
    <3> QED  BY <2>1, <3>1
  <2>2. CASE mem[b].data = <<PREFIX>>
    <3>1. \A i \in DOMAIN <<PREFIX>> : <<PREFIX>>[i] = PREFIX
      <4>1. DOMAIN <<PREFIX>> = {1} /\ <<PREFIX>>[1] = PREFIX
        OBVIOUS
      <4> QED  BY <4>1
    <3> QED  BY <2>2, <3>1
  <2> QED  BY <1>2, <2>1, <2>2
<1>6. Space(mem[b]) = n - 0
  BY <1>4, <1>5, FS_EmptySet DEF Space
<1> QED  BY <1>1, <1>4, <1>6

\* Steps that leave the buffers and the context alone.
LEMMA QuietSteps ==
  ASSUME BufInv, UNCHANGED <<conf, ctx, mem, held>>, TypeInv', ControlInv',
         Dead => Dead',
         pc # "deliver" /\ pc' = "deliver" => ~ctx.done /\ ~ctx.redo,
         pc = "compress" => pc' \in {"compress", "failed"}
  PROVE  BufInv'
<1>1. PlaceInv'
  BY DEF BufInv, PlaceInv, Placed
<1>2. DataInv'
  BY DEF BufInv, DataInv, Dead
<1>3. HeldInv'
  BY DEF BufInv, HeldInv
<1> QED  BY <1>1, <1>2, <1>3 DEF BufInv

\* The upstream's call only sets the caller's chain.
LEMMA FeedKeeps ==
  ASSUME BufInv, NEW chain \in Chains, Feed(chain)
  PROVE  BufInv'
<1>1. chain \in Seq(Link) /\ \E n \in 0 .. MaxTokens - up.tokens : Len(LinkData(chain)) = n
  BY ChainContinues DEF BufInv, TypeInv
<1>2. /\ up'.tokens = up.tokens + Len(LinkData(chain))
      /\ up'.eof = (\E i \in 1 .. Len(chain) : chain[i].last_buf)
  BY DEF Feed
<1>3. up'.tokens \in 0 .. MaxTokens /\ up'.eof \in BOOLEAN
  <2>1. PICK n \in 0 .. MaxTokens - up.tokens : up'.tokens = up.tokens + n
    BY <1>1, <1>2
  <2>2. up'.tokens \in 0 .. MaxTokens
    BY <2>1, BoundsAssumption DEF BufInv, TypeInv
  <2>3. up'.eof \in BOOLEAN
    BY <1>2
  <2> QED  BY <2>2, <2>3
<1>4. TypeInv'
  BY <1>1, <1>3 DEF BufInv, TypeInv, Feed, downVars
<1>5. ControlInv'
  BY DEF BufInv, ControlInv, Feed
<1> QED  BY <1>4, <1>5, QuietSteps DEF Feed, downVars, Dead

\* A call that starts, or that has nothing to do, leaves every buffer in place.
LEMMA CallsKeep ==
  ASSUME BufInv, WriteEvent \/ IdleCall \/ NothingToDo \/ Begin
  PROVE  BufInv'
<1>1. TypeInv'
  BY DEF BufInv, TypeInv, WriteEvent, IdleCall, NothingToDo, Begin, downVars
<1>2. ControlInv'
  BY DEF BufInv, ControlInv, WriteEvent, IdleCall, NothingToDo, Begin
<1> QED  BY <1>1, <1>2, QuietSteps DEF WriteEvent, IdleCall, NothingToDo, Begin, downVars,
            Dead

\* The turns of the loop that only decide where to go leave every buffer in
\* place; AddNone reaches delivery only without pending output.
LEMMA TurnsKeep ==
  ASSUME BufInv, AddPending \/ AddNone \/ GetBufKeep \/ GetBufFails \/ CodecFails \/ ParkFails
  PROVE  BufInv'
<1>1. TypeInv'
  BY DEF BufInv, TypeInv, AddPending, AddNone, GetBufKeep, GetBufFails, CodecFails,
     ParkFails, downVars
<1>2. ControlInv'
  BY DEF BufInv, ControlInv, AddPending, AddNone, GetBufKeep, GetBufFails, CodecFails,
     ParkFails
<1>3. pc # "deliver" /\ pc' = "deliver" => ~ctx.done /\ ~ctx.redo
  BY DEF BufInv, ControlInv, AddPending, AddNone, GetBufKeep, GetBufFails, CodecFails,
     ParkFails
<1> QED  BY <1>1, <1>2, <1>3, QuietSteps DEF AddPending, AddNone, GetBufKeep, GetBufFails,
            CodecFails, ParkFails, downVars, Dead, BufInv, ControlInv

\* An error of the next body filter leaves every buffer in place.
LEMMA DownFailsKeep ==
  ASSUME BufInv, PassFails, UNCHANGED <<conf, ctx, in, flush, enc, up>>,
         buffered' \in BOOLEAN,
         \/ pc = "entry" /\ ctx.done /\ pc' = "parked"
         \/ pc \in {"entry", "deliver"} /\ pc' = "failed"
  PROVE  BufInv'
<1>1. TypeInv'
  BY DEF BufInv, TypeInv, PassFails
<1>2. ControlInv'
  BY DEF BufInv, ControlInv
<1> QED  BY <1>1, <1>2, QuietSteps DEF PassFails, Dead, BufInv, ControlInv

-----------------------------------------------------------------------------
(* The buffer invariant: filter_get_buf() *)

\* Steps that leave the buffers where they are.
LEMMA StillSteps ==
  ASSUME BufInv, UNCHANGED <<conf, mem, held>>, TypeInv', ControlInv',
         ctx'.free = ctx.free, ctx'.busy = ctx.busy, ctx'.out = ctx.out,
         ctx'.out_buf = ctx.out_buf, ctx'.bufs = ctx.bufs,
         Dead => Dead', ctx.done => ctx'.done,
         ~ctx'.done \/ pc' = "deliver" => ~ctx.done \/ pc = "deliver",
         ctx.out_buf # NULL /\ mem[ctx.out_buf].data = <<PREFIX>> /\ ~Dead' =>
           pc' = "compress" \/ (pc' # "deliver" /\ ctx'.redo)
  PROVE  BufInv'
<1>1. PlaceInv'
  BY DEF BufInv, PlaceInv, Placed
<1>2. DataInv'
  BY DEF BufInv, DataInv
<1>3. HeldInv'
  BY DEF BufInv, HeldInv
<1> QED  BY <1>1, <1>2, <1>3 DEF BufInv

\* init_cctx() does not touch the buffers.
LEMMA InitCctxKeeps ==
  ASSUME BufInv, InitCctx
  PROVE  BufInv'
<1>0. ctx \in Ctx /\ enc \in Enc
  BY DEF BufInv, TypeInv
<1>1. ctx' \in Ctx
  BY <1>0 DEF InitCctx, Ctx
<1>2. enc' \in Enc
  <2>1. PICK e \in Seq(Toks), f \in Seq(Units) : e = <<>> /\ f = <<>>
    BY EmptySeq
  <2>2. [acc |-> e, stg |-> f, ended |-> FALSE] \in Enc
    BY DEF Enc
  <2> QED  BY <1>0, <2>1, <2>2 DEF InitCctx
<1>3. TypeInv'
  BY <1>1, <1>2 DEF BufInv, TypeInv, InitCctx, downVars
<1>4. /\ ctx'.free = ctx.free /\ ctx'.busy = ctx.busy /\ ctx'.out = ctx.out
      /\ ctx'.out_buf = ctx.out_buf /\ ctx'.bufs = ctx.bufs /\ ctx'.done = ctx.done
      /\ ctx'.aborted = ctx.aborted /\ ctx'.redo = ctx.redo /\ ctx'.nomem = ctx.nomem
  BY <1>0 DEF InitCctx, Ctx
<1>5. pc = "entry" /\ pc' \in {"entry", "failed"} /\ UNCHANGED <<conf, mem, held>>
  BY DEF InitCctx, downVars
<1>6. ControlInv'
  BY <1>4, <1>5 DEF BufInv, ControlInv
<1>7. ctx.out_buf # NULL /\ mem[ctx.out_buf].data = <<PREFIX>> /\ ~Dead'
        => pc' # "deliver" /\ ctx'.redo
  <2>1. <<PREFIX>> # <<>>
    OBVIOUS
  <2> QED  BY <1>4, <1>5, <2>1 DEF BufInv, DataInv, Dead
<1> QED  BY <1>3, <1>4, <1>5, <1>6, <1>7, StillSteps DEF Dead

\* filter_add_data() does not touch the buffers.
LEMMA AddLinkKeeps ==
  ASSUME BufInv, AddLink
  PROVE  BufInv'
<1>0. ctx \in Ctx /\ in \in Seq(Link) /\ ctx.in \in Seq(Link) /\ ctx.bytes_in \in Nat
  BY DEF BufInv, TypeInv, Ctx
<1>1. PICK link \in Link, rest \in Seq(Link), rest2 \in Seq(Link) :
        /\ link = IF TakeRetained THEN Head(ctx.in) ELSE Head(in)
        /\ rest = IF TakeRetained THEN Tail(ctx.in) ELSE ctx.in
        /\ rest2 = IF TakeRetained THEN in ELSE Tail(in)
  <2>1. CASE TakeRetained
    <3>1. Head(ctx.in) \in Link /\ Tail(ctx.in) \in Seq(Link)
      BY <1>0, <2>1, HeadTailProperties DEF TakeRetained
    <3> QED  BY <1>0, <2>1, <3>1
  <2>2. CASE ~ TakeRetained
    <3>1. Head(in) \in Link /\ Tail(in) \in Seq(Link)
      BY <1>0, <2>2, HeadTailProperties DEF TakeRetained, AddLink
    <3> QED  BY <1>0, <2>2, <3>1
  <2> QED  BY <2>1, <2>2
<1>2. PICK data \in Seq(Toks), bytes \in Nat : data = link.data
        /\ bytes = ctx.bytes_in + Len(link.data)
  <2>1. PICK d \in Seq(Toks) : d = link.data
    BY DEF Link, Toks
  <2>2. Len(d) \in Nat
    OBVIOUS
  <2> QED  BY <1>0, <2>1, <2>2
<1>3. PICK l \in BOOLEAN, f \in BOOLEAN : l = (Signal(link) = "last") /\ f =
        (Signal(link) = "flush")
  OBVIOUS
<1>4. /\ ctx' = [ctx EXCEPT !.in = rest, !.last = l, !.flush = f, !.buffer_in = data,
         !.bytes_in = bytes]
      /\ in' = rest2
      /\ pc' = IF data = <<>> /\ Signal(link) = "none" THEN "add"
               ELSE IF TooLong(bytes) THEN "failed"
               ELSE "buf"
  BY <1>1, <1>2, <1>3 DEF AddLink
<1>5. pc = "add" /\ pc' \in {"add", "failed", "buf"} /\ UNCHANGED <<conf, mem, held>>
  BY <1>4 DEF AddLink, downVars
<1>6. ctx' \in Ctx
  BY <1>0, <1>4 DEF Ctx
<1>7. TypeInv'
  BY <1>4, <1>5, <1>6 DEF BufInv, TypeInv, AddLink, downVars
<1>8. /\ ctx'.free = ctx.free /\ ctx'.busy = ctx.busy /\ ctx'.out = ctx.out
      /\ ctx'.out_buf = ctx.out_buf /\ ctx'.bufs = ctx.bufs /\ ctx'.done = ctx.done
      /\ ctx'.aborted = ctx.aborted /\ ctx'.redo = ctx.redo /\ ctx'.nomem = ctx.nomem
  BY <1>0, <1>4 DEF Ctx
<1>9. ControlInv'
  BY <1>5, <1>8 DEF BufInv, ControlInv
<1>10. ctx.out_buf # NULL /\ ~Dead' => mem[ctx.out_buf].data # <<PREFIX>>
  <2>1. <<PREFIX>> # <<>> /\ ~ctx.redo
    BY DEF AddLink
  <2> QED  BY <1>5, <1>8, <2>1 DEF BufInv, DataInv, ControlInv, Dead
<1> QED  BY <1>5, <1>7, <1>8, <1>9, <1>10, StillSteps DEF Dead

\* Copying the unread input does not touch the buffers.
LEMMA ParkKeeps ==
  ASSUME BufInv, Park
  PROVE  BufInv'
<1>0. ctx \in Ctx /\ in \in Seq(Link) /\ ctx.in \in Seq(Link)
  BY DEF BufInv, TypeInv, Ctx
<1>1. PICK rest \in Seq(Link), e \in Seq(Link) : rest = ctx.in \o in /\ e = <<>>
  BY <1>0, ConcatProperties, EmptySeq
<1>2. ctx' = [ctx EXCEPT !.in = rest] /\ in' = e
  BY <1>1 DEF Park
<1>3. ctx' \in Ctx
  BY <1>0, <1>2 DEF Ctx
<1>4. TypeInv'
  BY <1>2, <1>3 DEF BufInv, TypeInv, Park
<1>5. /\ ctx'.free = ctx.free /\ ctx'.busy = ctx.busy /\ ctx'.out = ctx.out
      /\ ctx'.out_buf = ctx.out_buf /\ ctx'.bufs = ctx.bufs /\ ctx'.done = ctx.done
      /\ ctx'.aborted = ctx.aborted /\ ctx'.redo = ctx.redo /\ ctx'.nomem = ctx.nomem
  BY <1>0, <1>2 DEF Ctx
<1>6. pc = "deliver" /\ pc' = "parked" /\ UNCHANGED <<conf, mem, held>> /\ ctx.out = <<>>
  BY DEF Park
<1>7. ControlInv'
  BY <1>5, <1>6 DEF BufInv, ControlInv
<1>8. ctx.out_buf # NULL /\ ~Dead' => mem[ctx.out_buf].data # <<PREFIX>>
  <2>1. <<PREFIX>> # <<>>
    OBVIOUS
  <2> QED  BY <1>5, <1>6, <2>1 DEF BufInv, DataInv, ControlInv, Dead
<1> QED  BY <1>4, <1>5, <1>6, <1>7, <1>8, StillSteps DEF Dead

\* The `failed' label does not touch the buffers.
LEMMA FailKeeps ==
  ASSUME BufInv, Fail
  PROVE  BufInv'
<1>0. ctx \in Ctx
  BY DEF BufInv, TypeInv
<1>1. ctx' \in Ctx
  BY <1>0 DEF Fail, Ctx
<1>2. TypeInv'
  BY <1>1 DEF BufInv, TypeInv, Fail, downVars
<1>3. /\ ctx'.free = ctx.free /\ ctx'.busy = ctx.busy /\ ctx'.out = ctx.out
      /\ ctx'.out_buf = ctx.out_buf /\ ctx'.bufs = ctx.bufs /\ ctx'.done
      /\ ctx'.aborted /\ ctx'.redo = ctx.redo /\ ctx'.nomem = ctx.nomem
  BY <1>0 DEF Fail, Ctx
<1>4. pc' = "parked" /\ UNCHANGED <<conf, mem, held>>
  BY DEF Fail, downVars
<1>5. ControlInv'
  BY <1>3, <1>4 DEF BufInv, ControlInv
<1> QED  BY <1>2, <1>3, <1>4, <1>5, StillSteps DEF Dead

\* Running out of buffers: none is current, so none is forgotten.
LEMMA GetBufNomemKeeps ==
  ASSUME BufInv, GetBufNomem
  PROVE  BufInv'
<1>0. ctx \in Ctx
  BY DEF BufInv, TypeInv
<1>1. ctx' \in Ctx
  BY <1>0 DEF GetBufNomem, Ctx
<1>2. TypeInv'
  BY <1>1 DEF BufInv, TypeInv, GetBufNomem, downVars
<1>3. /\ ctx'.free = ctx.free /\ ctx'.busy = ctx.busy /\ ctx'.out = ctx.out
      /\ ctx'.out_buf = ctx.out_buf /\ ctx'.bufs = ctx.bufs /\ ctx'.done = ctx.done
      /\ ctx'.aborted = ctx.aborted /\ ctx'.redo = ctx.redo /\ ctx'.nomem
  BY <1>0 DEF GetBufNomem, Ctx
<1>4. pc = "buf" /\ pc' = "deliver" /\ UNCHANGED <<conf, mem, held>>
  BY DEF GetBufNomem, downVars
<1>5. ctx.out_buf = NULL
  <2>1. ~Dead
    BY <1>4 DEF BufInv, ControlInv, Dead
  <2> QED  BY <2>1, RoomLeft DEF GetBufNomem, NeedBuf
<1>6. ControlInv'
  BY <1>3, <1>4, <1>5 DEF BufInv, ControlInv
<1>7. ~ctx.done
  BY <1>4 DEF BufInv, ControlInv
<1> QED  BY <1>2, <1>3, <1>4, <1>5, <1>6, <1>7, StillSteps DEF Dead

-----------------------------------------------------------------------------
(* The buffer invariant: filter_compress() *)

\* A recycled buffer leaves the free chain when it becomes current.
LEMMA GetBufFreeKeeps ==
  ASSUME BufInv, GetBufFree
  PROVE  BufInv'
<1>0. ctx \in Ctx /\ mem \in [Bufs -> Buf] /\ ctx.free \in Seq(Bufs) /\ ctx.free # <<>>
  BY DEF BufInv, TypeInv, Ctx, GetBufFree
<1>1. pc = "buf" /\ pc' = "compress" /\ ~Dead
  BY DEF GetBufFree, BufInv, ControlInv, Dead
<1>2. ctx.out_buf = NULL
  BY <1>1, RoomLeft DEF GetBufFree, NeedBuf
<1>3. PICK h \in Bufs, rest \in Seq(Bufs) :
        /\ h = Head(ctx.free) /\ rest = Tail(ctx.free)
        /\ Range(ctx.free) = {h} \cup Range(rest)
        /\ Distinct(rest) /\ h \notin Range(rest)
  BY <1>0, Popped DEF BufInv, PlaceInv
<1>4. /\ ctx' = [ctx EXCEPT !.free = rest, !.out_buf = h]
      /\ mem' = [mem EXCEPT ![h] = ClearFlags(mem[h])]
  BY <1>3 DEF GetBufFree
<1>5. ctx' \in Ctx
  BY <1>0, <1>4 DEF Ctx
<1>6. mem' \in [Bufs -> Buf]
  BY <1>0, <1>4 DEF ClearFlags, Buf
<1>7. TypeInv'
  BY <1>5, <1>6 DEF BufInv, TypeInv, GetBufFree, downVars
<1>8. /\ ctx'.free = rest /\ ctx'.busy = ctx.busy /\ ctx'.out = ctx.out
      /\ ctx'.out_buf = h /\ ctx'.bufs = ctx.bufs /\ ctx'.done = ctx.done
      /\ ctx'.aborted = ctx.aborted /\ ctx'.redo = ctx.redo /\ ctx'.nomem = ctx.nomem
  BY <1>0, <1>4 DEF Ctx
<1>9. \A b \in Bufs : /\ mem'[b].data = mem[b].data /\ mem'[b].size = mem[b].size
                      /\ b # h => mem'[b] = mem[b]
  BY <1>0, <1>4 DEF ClearFlags, Buf
<1>10. UNCHANGED <<conf, held>>
  BY DEF GetBufFree, downVars
<1>11. ControlInv'
  BY <1>1, <1>3, <1>8, BufsFacts DEF BufInv, ControlInv
<1>12. PlaceInv'
  BY <1>3, <1>8, <1>10 DEF BufInv, PlaceInv, Placed
<1>13. /\ Range(ctx.out) \subseteq Bufs /\ Range(rest) \subseteq Bufs
          /\ Range(held) \subseteq Bufs
  <2>1. ctx.out \in Seq(Bufs) /\ held \in Seq(Bufs)
    BY DEF BufInv, TypeInv, Ctx
  <2> QED  BY <2>1, InRange
<1>14. DataInv'
  <2>1. h \notin Range(ctx.out) /\ h \in Range(ctx.free)
    BY <1>3 DEF BufInv, PlaceInv
  <2>2. mem[h].data = <<>>
    BY <2>1 DEF BufInv, DataInv
  <2>3. \A b \in Range(ctx'.out) :
          mem'[b].data # <<>> \/ (ctx'.done /\ ~mem'[b].memory /\ mem'[b].last_buf)
    BY <1>8, <1>9, <1>13, <2>1 DEF BufInv, DataInv
  <2>4. \A b \in Range(ctx'.free) : mem'[b].data = <<>>
    BY <1>3, <1>8, <1>9, <1>13 DEF BufInv, DataInv
  <2>5. \A b \in Bufs : b <= ctx'.bufs => mem'[b].size > 0
    BY <1>8, <1>9 DEF BufInv, DataInv
  <2>6. mem'[ctx'.out_buf].data = <<>>
    BY <1>8, <1>9, <2>2
  <2> QED  BY <2>3, <2>4, <2>5, <2>6 DEF DataInv
<1>15. HeldInv'
  <2>1. \A b \in Range(held) : mem'[b].data = mem[b].data
    BY <1>9, <1>13
  <2> QED  BY <1>1, <1>8, <1>10, <2>1 DEF BufInv, HeldInv
<1> QED  BY <1>7, <1>11, <1>12, <1>14, <1>15 DEF BufInv

\* A new buffer has the first number no chain refers to.
LEMMA GetBufAllocKeeps ==
  ASSUME BufInv, GetBufAlloc
  PROVE  BufInv'
<1>0. ctx \in Ctx /\ mem \in [Bufs -> Buf] /\ ctx.bufs \in Nat /\ conf.num \in Bufs
  BY DEF BufInv, TypeInv, Ctx
<1>1. pc = "buf" /\ pc' = "compress" /\ ~Dead /\ ~ctx.done
  BY DEF GetBufAlloc, BufInv, ControlInv, Dead
<1>3. PICK h \in Bufs : h = ctx.bufs + 1 /\ h <= conf.num
  <2>1. ctx.bufs < conf.num /\ conf.num \in Nat /\ conf.num <= MaxBufs
    BY <1>0, BufsFacts DEF GetBufAlloc, MayAlloc
  <2>2. ctx.bufs + 1 \in Bufs /\ ctx.bufs + 1 <= conf.num
    BY <1>0, <2>1, BoundsAssumption DEF Bufs
  <2> QED  BY <2>2
<1>4. PICK sent \in BOOLEAN, pfx \in BOOLEAN :
        /\ pfx = (ctx.bufs = 0 /\ conf.dcz /\ ~ctx.dcz_header_sent)
        /\ sent = (ctx.dcz_header_sent \/ pfx)
  <2>1. conf.dcz \in BOOLEAN /\ ctx.dcz_header_sent \in BOOLEAN
    BY DEF BufInv, TypeInv, Ctx
  <2> QED  BY <2>1
<1>5. PICK data \in Seq(Units) : data = (IF pfx THEN <<PREFIX>> ELSE <<>>)
  <2>1. PREFIX \in Units
    BY DEF Units
  <2>2. <<PREFIX>> \in Seq(Units) /\ <<>> \in Seq(Units)
    BY <2>1, Single, EmptySeq
  <2> QED  BY <2>2
<1>6. PICK size \in 1 .. BufSize : mem' = [mem EXCEPT ![h] = NewBuf(size, data)]
  <2>1. BufSize \in 1 .. BufSize
    BY BoundsAssumption
  <2> QED  BY <1>3, <1>4, <1>5, <2>1 DEF GetBufAlloc
<1>7. ctx' = [ctx EXCEPT !.out_buf = h, !.bufs = h, !.dcz_header_sent = sent]
  BY <1>3, <1>4 DEF GetBufAlloc
<1>8. ctx' \in Ctx
  <2>1. h \in Nat
    BY BufsFacts
  <2> QED  BY <1>0, <1>7, <2>1 DEF Ctx
<1>9. NewBuf(size, data) \in Buf /\ NewBuf(size, data).data = data
        /\ NewBuf(size, data).size = size
  <2>1. size \in 0 .. BufSize
    BY BoundsAssumption
  <2> QED  BY <2>1 DEF NewBuf, Buf
<1>10. mem' \in [Bufs -> Buf]
  BY <1>0, <1>6, <1>9
<1>11. TypeInv'
  BY <1>8, <1>10 DEF BufInv, TypeInv, GetBufAlloc, downVars
<1>12. /\ ctx'.free = ctx.free /\ ctx'.busy = ctx.busy /\ ctx'.out = ctx.out
       /\ ctx'.out_buf = h /\ ctx'.bufs = h /\ ctx'.done = ctx.done
       /\ ctx'.aborted = ctx.aborted /\ ctx'.redo = ctx.redo /\ ctx'.nomem = ctx.nomem
  BY <1>0, <1>7 DEF Ctx
<1>13. (\A b \in Bufs : b # h => mem'[b] = mem[b]) /\ mem'[h] = NewBuf(size, data)
  BY <1>0, <1>6
<1>14. UNCHANGED <<conf, held>>
  BY DEF GetBufAlloc, downVars
<1>15. ControlInv'
  BY <1>1, <1>3, <1>12, BufsFacts DEF BufInv, ControlInv
<1>16. /\ Range(ctx.out) \subseteq Bufs /\ Range(ctx.free) \subseteq Bufs
          /\ Range(ctx.busy) \subseteq Bufs
       /\ Range(held) \subseteq Bufs
  <2>1. ctx.out \in Seq(Bufs) /\ held \in Seq(Bufs) /\ ctx.free \in Seq(Bufs)
          /\ ctx.busy \in Seq(Bufs)
    BY DEF BufInv, TypeInv, Ctx
  <2> QED  BY <2>1, InRange
<1>17. h \notin Placed /\ \A b \in Placed : b <= h
  <2>1. \A b \in Placed : b \in Nat /\ b <= ctx.bufs
    BY <1>16, BufsFacts DEF BufInv, PlaceInv, Placed
  <2> QED  BY <1>0, <1>3, <2>1
<1>18. PlaceInv'
  BY <1>3, <1>12, <1>14, <1>17, BufsFacts DEF BufInv, PlaceInv, Placed
<1>19. DataInv'
  <2>1. h \notin Range(ctx.out) /\ h \notin Range(ctx.free)
    BY <1>17 DEF Placed
  <2>3. \A b \in Range(ctx'.out) :
          mem'[b].data # <<>> \/ (ctx'.done /\ ~mem'[b].memory /\ mem'[b].last_buf)
    BY <1>12, <1>13, <1>16, <2>1 DEF BufInv, DataInv
  <2>4. \A b \in Range(ctx'.free) : mem'[b].data = <<>>
    BY <1>12, <1>13, <1>16, <2>1 DEF BufInv, DataInv
  <2>5. ASSUME NEW b \in Bufs, b <= ctx'.bufs PROVE mem'[b].size > 0
    <3>1. CASE b = h
      BY <1>9, <1>13, <3>1
    <3>2. CASE b # h
      <4>1. b <= ctx.bufs
        BY <1>0, <1>3, <1>12, <2>5, <3>2, BufsFacts
      <4> QED  BY <1>13, <3>2, <4>1 DEF BufInv, DataInv
    <3> QED  BY <3>1, <3>2
  <2>6. mem'[ctx'.out_buf].data = <<>> \/ mem'[ctx'.out_buf].data = <<PREFIX>>
    BY <1>5, <1>9, <1>12, <1>13
  <2> QED  BY <1>1, <2>3, <2>4, <2>5, <2>6 DEF DataInv
<1>20. HeldInv'
  <2>1. held = ctx.busy
    BY <1>1 DEF BufInv, HeldInv
  <2>2. h \notin Range(held)
    BY <1>17, <2>1 DEF Placed
  <2>3. \A b \in Range(held) : mem'[b] = mem[b]
    BY <1>13, <1>16, <2>2
  <2> QED  BY <1>1, <1>12, <1>14, <2>3 DEF BufInv, HeldInv
<1> QED  BY <1>11, <1>15, <1>18, <1>19, <1>20 DEF BufInv

\* What holds of a call of the encoder, whatever is made of its output.
LEMMA CallFacts ==
  ASSUME BufInv, pc = "compress",
         NEW o \in Outcomes(Directive, ctx.buffer_in, Space(mem[ctx.out_buf]))
  PROVE  /\ ctx.out_buf \in Bufs /\ ~Dead /\ ~ctx.done /\ ~ctx.nomem
         /\ Coded(Directive, ctx.buffer_in, Space(mem[ctx.out_buf]), o)
         /\ Filled(o) \in Buf
         /\ Filled(o) = [mem[ctx.out_buf] EXCEPT !.data = mem[ctx.out_buf].data \o o.put]
         /\ Filled(o).data = mem[ctx.out_buf].data \o o.put
         /\ Zrc(o) \in Nat
         /\ Advance(o) \in Ctx
         /\ \A e : EncAfter(o, e) \in Enc
<1>1. ctx.out_buf # NULL /\ ~Dead /\ ~ctx.done /\ ~ctx.nomem
  BY DEF BufInv, ControlInv, Dead
<1>2. PICK b \in Bufs, space \in Nat : b = ctx.out_buf /\ space = Space(mem[ctx.out_buf])
  BY <1>1, RoomLeft
<1>3. PICK inp \in Seq(Toks) : inp = ctx.buffer_in
  BY DEF BufInv, TypeInv, Ctx
<1>4. enc \in Enc /\ ctx \in Ctx
  BY DEF BufInv, TypeInv
<1>5. Coded(Directive, inp, space, o)
  BY <1>2, <1>3, <1>4, OutcomeCoded
<1>6. PICK put \in Seq(Units), stg \in Seq(Units), acc \in Seq(Toks), rest \in Seq(Toks),
        fin \in BOOLEAN, coy \in BOOLEAN :
        o.put = put /\ o.stg = stg /\ o.acc = acc /\ o.rest = rest /\ o.fin = fin
          /\ o.coy = coy
  BY <1>5 DEF Coded
<1>7. PICK c \in Buf, data \in Seq(Units) : c = mem[b] /\ data = c.data \o put
  <2>1. PICK c \in Buf : c = mem[b]
    BY DEF BufInv, TypeInv
  <2>2. PICK d \in Seq(Units) : d = c.data
    BY DEF Buf
  <2>3. d \o put \in Seq(Units)
    BY ConcatProperties
  <2> QED  BY <2>1, <2>2, <2>3
<1>8. Filled(o) = [c EXCEPT !.data = data]
  BY <1>2, <1>6, <1>7 DEF Filled
<1>9. [c EXCEPT !.data = data] \in Buf /\ [c EXCEPT !.data = data].data = data
  BY DEF Buf
<1>10. Zrc(o) \in Nat
  <2>1. Len(stg) \in Nat
    OBVIOUS
  <2> QED  BY <1>6, <2>1 DEF Zrc
<1>11. PICK redo \in BOOLEAN, act \in {"COMPRESS", "FLUSH", "END"} :
         redo = (Zrc(o) > 0 \/ SwitchToEnd(o)) /\ act = NextAction(o)
  <2>1. ctx.action \in {"COMPRESS", "FLUSH", "END"}
    BY <1>4 DEF Ctx
  <2>2. NextAction(o) \in {"COMPRESS", "FLUSH", "END"}
    BY <2>1 DEF NextAction
  <2>3. (Zrc(o) > 0 \/ SwitchToEnd(o)) \in BOOLEAN
    OBVIOUS
  <2> QED  BY <2>2, <2>3
<1>12. Advance(o) = [ctx EXCEPT !.buffer_in = rest, !.redo = redo, !.action = act]
  BY <1>6, <1>11 DEF Advance
<1>13. Advance(o) \in Ctx
  BY <1>4, <1>12 DEF Ctx
<1>14. ASSUME NEW e PROVE EncAfter(o, e) \in Enc
  BY <1>4, <1>6 DEF EncAfter, Enc
<1> QED  BY <1>1, <1>2, <1>3, <1>5, <1>6, <1>7, <1>8, <1>9, <1>10, <1>13, <1>14, Zenon

\* The bookkeeping of filter_compress() before it decides to emit: what it
\* sets, and that it leaves the chains alone.
LEMMA AdvanceKeeps ==
  ASSUME ctx \in Ctx, NEW o
  PROVE  /\ Advance(o).free = ctx.free /\ Advance(o).busy = ctx.busy
            /\ Advance(o).out = ctx.out
         /\ Advance(o).out_buf = ctx.out_buf /\ Advance(o).bufs = ctx.bufs
            /\ Advance(o).done = ctx.done
         /\ Advance(o).aborted = ctx.aborted /\ Advance(o).nomem = ctx.nomem
         /\ Advance(o).redo = (Zrc(o) > 0 \/ SwitchToEnd(o))
         /\ Advance(o).dcz_header_sent = ctx.dcz_header_sent
            /\ Advance(o).cctx_ready = ctx.cctx_ready
         /\ Advance(o).last = ctx.last /\ Advance(o).in = ctx.in
            /\ Advance(o).buffer_in = o.rest
         /\ Advance(o).action = NextAction(o) /\ Advance(o).bytes_out = ctx.bytes_out
         /\ Advance(o).flush = ctx.flush
BY DEF Advance, Ctx

\* The chains are not touched, and the current buffer only gets more data.
LEMMA FillSteps ==
  ASSUME BufInv, UNCHANGED <<conf, held>>, TypeInv', ControlInv',
         ctx.out_buf \in Bufs, ~ctx.done, ~ctx'.done,
         ctx'.free = ctx.free, ctx'.busy = ctx.busy, ctx'.out = ctx.out,
         ctx'.out_buf = ctx.out_buf, ctx'.bufs = ctx.bufs,
         \A b \in Bufs : mem'[b].size = mem[b].size,
         \A b \in Bufs : b # ctx.out_buf => mem'[b] = mem[b],
         ~Dead' => \/ mem'[ctx.out_buf].data = <<>>
                   \/ mem'[ctx.out_buf].data = <<PREFIX>> /\ pc' = "add" /\ ctx'.redo
  PROVE  BufInv'
<1>1. PlaceInv'
  BY DEF BufInv, PlaceInv, Placed
<1>2. /\ Range(ctx.out) \subseteq Bufs /\ Range(ctx.free) \subseteq Bufs
      /\ Range(held) \subseteq Bufs
  <2>1. ctx.out \in Seq(Bufs) /\ held \in Seq(Bufs) /\ ctx.free \in Seq(Bufs)
    BY DEF BufInv, TypeInv, Ctx
  <2> QED  BY <2>1, InRange
<1>3. held = ctx.busy
  BY DEF BufInv, HeldInv
<1>4. /\ \A b \in Range(ctx.out) : mem'[b] = mem[b]
      /\ \A b \in Range(ctx.free) : mem'[b] = mem[b]
      /\ \A b \in Range(held) : mem'[b] = mem[b]
  BY <1>2, <1>3 DEF BufInv, PlaceInv, Placed
<1>5. DataInv'
  BY <1>4 DEF BufInv, DataInv
<1>6. HeldInv'
  BY <1>4 DEF BufInv, HeldInv
<1> QED  BY <1>1, <1>5, <1>6 DEF BufInv

\* Joined strings are empty only if both are.
LEMMA NonEmptyCat ==
  ASSUME NEW s \in Seq(Units), NEW t \in Seq(Units)
  PROVE  s \o t = <<>> <=> s = <<>> /\ t = <<>>
BY ConcatEqualIffEmpty

\* A call without anything to queue: the current buffer is still empty, or
\* holds the dcz header and the call is repeated.
LEMMA SuppressKeeps ==
  ASSUME BufInv, pc = "compress",
         NEW o \in Outcomes(Directive, ctx.buffer_in, Space(mem[ctx.out_buf])),
         Suppress(o), enc' = EncAfter(o, Directive),
         UNCHANGED <<conf, in, flush, downVars, up>>
  PROVE  BufInv'
<1>1. /\ ctx.out_buf \in Bufs /\ ~Dead /\ ~ctx.done /\ ~ctx.nomem
      /\ Coded(Directive, ctx.buffer_in, Space(mem[ctx.out_buf]), o)
      /\ Filled(o) \in Buf
      /\ Filled(o) = [mem[ctx.out_buf] EXCEPT !.data = mem[ctx.out_buf].data \o o.put]
      /\ Filled(o).data = mem[ctx.out_buf].data \o o.put
      /\ Advance(o) \in Ctx
      /\ enc' \in Enc
  BY CallFacts
<1>2. PICK b \in Bufs : b = ctx.out_buf
  BY <1>1
<1>3. PICK a \in Ctx, f \in BOOLEAN : a = Advance(o) /\ f = FlushLeft(o)
  <2>1. FlushLeft(o) \in BOOLEAN
    BY DEF FlushLeft
  <2> QED  BY <1>1, <2>1
<1>4. ctx' = [a EXCEPT !.flush = f] /\ mem' = [mem EXCEPT ![b] = Filled(o)] /\ pc' = "add"
  BY <1>2, <1>3 DEF Suppress
<1>5. ctx' \in Ctx
  BY <1>4 DEF Ctx
<1>6. mem \in [Bufs -> Buf] /\ mem' \in [Bufs -> Buf]
  BY <1>1, <1>4 DEF BufInv, TypeInv
<1>7. buffered' \in BOOLEAN
  BY DEF Suppress, BufInv, TypeInv
<1>8. TypeInv'
  BY <1>1, <1>4, <1>5, <1>6, <1>7 DEF BufInv, TypeInv, downVars
<1>9. /\ ctx'.free = ctx.free /\ ctx'.busy = ctx.busy /\ ctx'.out = ctx.out
      /\ ctx'.out_buf = ctx.out_buf /\ ctx'.bufs = ctx.bufs /\ ctx'.done = ctx.done
      /\ ctx'.aborted = ctx.aborted /\ ctx'.nomem = ctx.nomem
      /\ ctx'.redo = a.redo
  <2>1. ctx \in Ctx
    BY DEF BufInv, TypeInv
  <2> QED  BY <1>3, <1>4, <2>1, AdvanceKeeps DEF Ctx
<1>10. ControlInv'
  BY <1>1, <1>4, <1>9 DEF BufInv, ControlInv
<1>11. /\ \A x \in Bufs : x # b => mem'[x] = mem[x]
       /\ mem'[b] = Filled(o)
       /\ \A x \in Bufs : mem'[x].size = mem[x].size
  <2>1. (\A x \in Bufs : x # b => mem'[x] = mem[x]) /\ mem'[b] = Filled(o)
    BY <1>4, <1>6
  <2>2. Filled(o).size = mem[b].size
    <3>1. PICK c \in Buf : c = mem[b]
      BY <1>6
    <3> QED  BY <1>1, <1>2, <3>1 DEF Buf
  <2> QED  BY <2>1, <2>2
<1>12. \/ mem'[b].data = <<>>
       \/ mem'[b].data = <<PREFIX>> /\ ctx'.redo
  <2>1. CASE Filled(o).data = <<>>
    BY <1>11, <2>1
  <2>2. CASE Filled(o).data # <<>>
    <3>1. SwitchToEnd(o) /\ o.put = <<>>
      BY <2>2 DEF Suppress, Emits, ForceEnd
    <3>2. a.redo
      <4>1. ctx \in Ctx
        BY DEF BufInv, TypeInv
      <4> QED  BY <1>3, <3>1, <4>1, AdvanceKeeps
    <3>3. PICK d \in Seq(Units) : d = mem[b].data
      BY <1>6 DEF Buf
    <3>4. Filled(o).data = mem[b].data
      BY <1>1, <1>2, <3>1, <3>3, ConcatEmptySeq
    <3>5. mem[b].data = <<>> \/ mem[b].data = <<PREFIX>>
      <4>1. ctx.out_buf # NULL
        BY <1>1, BufsFacts
      <4> QED  BY <1>1, <1>2, <4>1 DEF BufInv, DataInv
    <3> QED  BY <1>9, <1>11, <2>2, <3>2, <3>4, <3>5
  <2> QED  BY <2>1, <2>2
<1> QED  BY <1>1, <1>2, <1>4, <1>8, <1>9, <1>10, <1>11, <1>12, FillSteps DEF downVars

\* No memory for the chain link: the buffer stays current in a dead response.
LEMMA EmitFailsKeeps ==
  ASSUME BufInv, pc = "compress",
         NEW o \in Outcomes(Directive, ctx.buffer_in, Space(mem[ctx.out_buf])),
         EmitFails(o), enc' = EncAfter(o, Directive),
         UNCHANGED <<conf, in, flush, downVars, up>>
  PROVE  BufInv'
<1>1. /\ ctx.out_buf \in Bufs /\ ~Dead /\ ~ctx.done /\ ~ctx.nomem
      /\ Filled(o) \in Buf
      /\ Filled(o) = [mem[ctx.out_buf] EXCEPT !.data = mem[ctx.out_buf].data \o o.put]
      /\ Advance(o) \in Ctx
      /\ enc' \in Enc
  BY CallFacts
<1>2. PICK b \in Bufs : b = ctx.out_buf
  BY <1>1
<1>3. ctx' = Advance(o) /\ mem' = [mem EXCEPT ![b] = Filled(o)] /\ pc' = "failed"
  BY <1>2 DEF EmitFails
<1>4. mem \in [Bufs -> Buf] /\ mem' \in [Bufs -> Buf]
  BY <1>1, <1>3 DEF BufInv, TypeInv
<1>5. TypeInv'
  BY <1>1, <1>3, <1>4 DEF BufInv, TypeInv, downVars, EmitFails
<1>6. /\ ctx'.free = ctx.free /\ ctx'.busy = ctx.busy /\ ctx'.out = ctx.out
      /\ ctx'.out_buf = ctx.out_buf /\ ctx'.bufs = ctx.bufs /\ ctx'.done = ctx.done
      /\ ctx'.aborted = ctx.aborted /\ ctx'.nomem = ctx.nomem
  <2>1. ctx \in Ctx
    BY DEF BufInv, TypeInv
  <2> QED  BY <1>3, <2>1, AdvanceKeeps
<1>7. ControlInv'
  BY <1>1, <1>3, <1>6 DEF BufInv, ControlInv, Dead
<1>8. /\ \A x \in Bufs : x # b => mem'[x] = mem[x]
      /\ \A x \in Bufs : mem'[x].size = mem[x].size
  <2>1. (\A x \in Bufs : x # b => mem'[x] = mem[x]) /\ mem'[b] = Filled(o)
    BY <1>3, <1>4
  <2>2. Filled(o).size = mem[b].size
    <3>1. PICK c \in Buf : c = mem[b]
      BY <1>4
    <3> QED  BY <1>1, <1>2, <3>1 DEF Buf
  <2> QED  BY <2>1, <2>2
<1>9. Dead'
  BY <1>3 DEF Dead
<1> QED  BY <1>1, <1>2, <1>5, <1>6, <1>7, <1>8, <1>9, FillSteps DEF downVars

\* The buffer as it is queued.
LEMMA QueuedFacts ==
  ASSUME BufInv, NEW o, Filled(o) \in Buf, Emits(o)
  PROVE  /\ Queued(o) \in Buf
         /\ Queued(o).data = Filled(o).data /\ Queued(o).size = Filled(o).size
         /\ Queued(o).data # <<>> \/ (Terminal(o) /\ ~Queued(o).memory /\ Queued(o).last_buf)
<1>1. PICK c \in Buf : c = Filled(o)
  OBVIOUS
<1>2. ctx.flush \in BOOLEAN /\ ctx.last \in BOOLEAN
  BY DEF BufInv, TypeInv, Ctx
<1>3. PICK f \in BOOLEAN, l \in BOOLEAN, m \in BOOLEAN, r \in BOOLEAN :
        /\ f = (IF Complete(o) THEN ctx.flush /\ ~ctx.last ELSE c.flush)
        /\ l = (IF Complete(o) THEN Terminal(o) ELSE c.last_buf)
        /\ m = (c.memory /\ c.data # <<>>)
        /\ r = (c.recycled /\ c.data # <<>>)
  <2>1. c.flush \in BOOLEAN /\ c.last_buf \in BOOLEAN /\ c.memory \in BOOLEAN
          /\ c.recycled \in BOOLEAN
    BY DEF Buf
  <2>2. Terminal(o) \in BOOLEAN
    BY DEF Terminal
  <2> QED  BY <1>2, <2>1, <2>2
<1>4. Queued(o) = [c EXCEPT !.flush = f, !.last_buf = l, !.memory = m, !.recycled = r]
  BY <1>1, <1>3 DEF Queued
<1>5. /\ Queued(o) \in Buf /\ Queued(o).data = c.data /\ Queued(o).size = c.size
      /\ Queued(o).memory = m /\ Queued(o).last_buf = l
  BY <1>4 DEF Buf
<1>6. c.data # <<>> \/ Terminal(o)
  BY <1>1 DEF Emits
<1>7. Terminal(o) => Complete(o)
  BY DEF Terminal, Complete
<1> QED  BY <1>1, <1>3, <1>5, <1>6, <1>7

\* Queueing the current buffer moves it from one place to another.
LEMMA EmitKeeps ==
  ASSUME BufInv, pc = "compress",
         NEW o \in Outcomes(Directive, ctx.buffer_in, Space(mem[ctx.out_buf])),
         Emit(o), enc' = EncAfter(o, Directive),
         UNCHANGED <<conf, in, flush, downVars, up>>
  PROVE  BufInv'
<1>1. /\ ctx.out_buf \in Bufs /\ ~Dead /\ ~ctx.done /\ ~ctx.nomem
      /\ Filled(o) \in Buf
      /\ Filled(o) = [mem[ctx.out_buf] EXCEPT !.data = mem[ctx.out_buf].data \o o.put]
      /\ Advance(o) \in Ctx
      /\ enc' \in Enc
  BY CallFacts
<1>2. PICK b \in Bufs, q \in Buf : b = ctx.out_buf /\ q = Queued(o)
  BY <1>1, QueuedFacts DEF Emit
<1>3. PICK a \in Ctx, f \in BOOLEAN, t \in BOOLEAN, n \in Nat :
        a = Advance(o) /\ f = FlushLeft(o) /\ t = Terminal(o) /\ n = a.bytes_out + Counted(o)
  <2>1. FlushLeft(o) \in BOOLEAN /\ Terminal(o) \in BOOLEAN
    BY DEF FlushLeft, Terminal
  <2>2. Counted(o) \in Nat
    <3>1. PICK d \in Seq(Units) : d = Filled(o).data
      BY <1>1 DEF Buf
    <3>2. Len(d) \in Nat
      OBVIOUS
    <3> QED  BY <3>1, <3>2 DEF Counted
  <2>3. PICK a \in Ctx : a = Advance(o)
    BY <1>1
  <2>4. a.bytes_out \in Nat
    BY DEF Ctx
  <2> QED  BY <2>1, <2>2, <2>3, <2>4
<1>4. PICK out \in Seq(Bufs) : out = Append(ctx.out, b)
  <2>1. ctx.out \in Seq(Bufs)
    BY DEF BufInv, TypeInv, Ctx
  <2> QED  BY <2>1, AppendProperties
<1>5. a.out = ctx.out /\ a.done = ctx.done /\ a.done \in BOOLEAN
  <2>1. ctx \in Ctx
    BY DEF BufInv, TypeInv
  <2> QED  BY <1>3, <2>1, AdvanceKeeps DEF Ctx
<1>6. /\ ctx' = [a EXCEPT !.done = t, !.flush = f, !.bytes_out = n, !.out = out,
         !.out_buf = NULL]
      /\ mem' = [mem EXCEPT ![b] = q]
      /\ pc' = IF t THEN "deliver" ELSE "add"
  BY <1>1, <1>2, <1>3, <1>4, <1>5 DEF Emit, AfterQueueing
<1>7. ctx' \in Ctx
  BY <1>6 DEF Ctx
<1>8. mem \in [Bufs -> Buf] /\ mem' \in [Bufs -> Buf]
  BY <1>6 DEF BufInv, TypeInv
<1>9. buffered' \in BOOLEAN
  BY DEF Emit, BufInv, TypeInv
<1>10. TypeInv'
  BY <1>1, <1>6, <1>7, <1>8, <1>9 DEF BufInv, TypeInv, downVars
<1>11. /\ ctx'.free = ctx.free /\ ctx'.busy = ctx.busy /\ ctx'.out = out
       /\ ctx'.out_buf = NULL /\ ctx'.bufs = ctx.bufs /\ ctx'.done = t
       /\ ctx'.aborted = ctx.aborted /\ ctx'.nomem = ctx.nomem
  <2>1. ctx \in Ctx
    BY DEF BufInv, TypeInv
  <2>2. /\ a.free = ctx.free /\ a.busy = ctx.busy /\ a.bufs = ctx.bufs
        /\ a.aborted = ctx.aborted /\ a.nomem = ctx.nomem
    BY <1>3, <2>1, AdvanceKeeps
  <2> QED  BY <1>6, <2>2 DEF Ctx
<1>12. ControlInv'
  BY <1>1, <1>6, <1>11 DEF BufInv, ControlInv, Dead
<1>13. Range(out) = Range(ctx.out) \cup {b} /\ Distinct(out)
  <2>1. ctx.out \in Seq(Bufs) /\ Distinct(ctx.out) /\ b \notin Range(ctx.out)
    BY <1>2 DEF BufInv, TypeInv, Ctx, PlaceInv, Placed
  <2> QED  BY <1>4, <2>1, Pushed
<1>14. /\ Range(ctx.out) \subseteq Bufs /\ Range(ctx.free) \subseteq Bufs
       /\ Range(ctx.busy) \subseteq Bufs
  <2>1. ctx.out \in Seq(Bufs) /\ ctx.free \in Seq(Bufs) /\ ctx.busy \in Seq(Bufs)
    BY DEF BufInv, TypeInv, Ctx
  <2> QED  BY <2>1, InRange
<1>15. UNCHANGED <<conf, held>> /\ held = ctx.busy
  BY <1>1 DEF downVars, BufInv, HeldInv
<1>16. b <= ctx.bufs
  <2>1. ctx.out_buf # NULL
    BY <1>1, BufsFacts
  <2> QED  BY <1>2, <2>1 DEF BufInv, PlaceInv
<1>17. PlaceInv'
  <2>1. \A x \in Range(ctx.out) \cup Range(ctx.busy) \cup Range(ctx.free) : x # NULL
    BY <1>14, BufsFacts
  <2>2. b # NULL
    BY BufsFacts
  <2> QED  BY <1>2, <1>11, <1>13, <1>15, <1>16, <2>1, <2>2 DEF BufInv, PlaceInv, Placed
<1>18. /\ \A x \in Bufs : x # b => mem'[x] = mem[x]
       /\ mem'[b] = q
       /\ \A x \in Bufs : mem'[x].size = mem[x].size
  <2>1. (\A x \in Bufs : x # b => mem'[x] = mem[x]) /\ mem'[b] = q
    BY <1>6, <1>8
  <2>2. q.size = mem[b].size
    <3>1. PICK c \in Buf : c = mem[b]
      BY <1>8
    <3>2. Filled(o).size = c.size
      BY <1>1, <1>2, <3>1 DEF Buf
    <3> QED  BY <1>1, <1>2, <3>1, <3>2, QueuedFacts DEF Emit
  <2> QED  BY <2>1, <2>2
<1>19. b \notin Range(ctx.out) /\ b \notin Range(ctx.free) /\ b \notin Range(ctx.busy)
  BY <1>2 DEF BufInv, PlaceInv, Placed
<1>20. DataInv'
  <2>1. mem'[b].data # <<>> \/ (ctx'.done /\ ~mem'[b].memory /\ mem'[b].last_buf)
    <3>1. Emits(o) /\ Filled(o) \in Buf
      BY <1>1 DEF Emit
    <3>2. q.data # <<>> \/ (Terminal(o) /\ ~q.memory /\ q.last_buf)
      BY <1>2, <3>1, QueuedFacts, Zenon
    <3>3. Terminal(o) => ctx'.done
      BY <1>3, <1>11, Zenon
    <3> QED  BY <1>18, <3>2, <3>3, Zenon
  <2>2. \A x \in Range(ctx.out) : mem'[x].data # <<>>
    BY <1>1, <1>14, <1>18, <1>19 DEF BufInv, DataInv
  <2>3. \A x \in Range(ctx'.free) : mem'[x].data = <<>>
    BY <1>11, <1>14, <1>18, <1>19 DEF BufInv, DataInv
  <2>4. \A x \in Bufs : x <= ctx'.bufs => mem'[x].size > 0
    BY <1>11, <1>18 DEF BufInv, DataInv
  <2> QED  BY <1>11, <1>13, <2>1, <2>2, <2>3, <2>4 DEF DataInv
<1>21. HeldInv'
  <2>1. \A x \in Range(held) : mem'[x] = mem[x]
    BY <1>14, <1>15, <1>18, <1>19
  <2> QED  BY <1>1, <1>11, <1>13, <1>15, <2>1 DEF BufInv, HeldInv
<1> QED  BY <1>10, <1>12, <1>17, <1>20, <1>21 DEF BufInv

-----------------------------------------------------------------------------
(* The buffer invariant: delivery *)

\* The busy and the free chain when j buffers of the queue are drained.
Recycled(q, free, m, j, busy2, free2) ==
  /\ busy2 = SubSeq(q, j + 1, Len(q))
  /\ free2 = Reverse(SubSeq(q, 1, j)) \o free
  /\ Distinct(busy2) /\ Distinct(free2) /\ Range(busy2) \cap Range(free2) = {}
  /\ Range(busy2) \cup Range(free2) = Range(q) \cup Range(free)
  /\ \A b \in Range(free2) : m[b].data = <<>>
  /\ \A b \in Range(q) : m[b].data # <<>> => b \in Range(busy2)

\* Drained buffers at the head of a queue join the free ones.
LEMMA RecycleFacts ==
  ASSUME NEW q \in Seq(Bufs), NEW free \in Seq(Bufs), Distinct(q), Distinct(free),
         Range(q) \cap Range(free) = {}, NEW m, NEW j \in 0 .. Len(q), Drained(q, m, j),
         \A b \in Range(free) : m[b].data = <<>>
  PROVE  \E busy2 \in Seq(Bufs), free2 \in Seq(Bufs) : Recycled(q, free, m, j, busy2, free2)
<1>1. PICK sent \in Seq(Bufs), left \in Seq(Bufs) :
        /\ sent = SubSeq(q, 1, j) /\ Len(sent) = j /\ \A i \in 1 .. j : sent[i] = q[i]
        /\ left = SubSeq(q, j + 1, Len(q))
        /\ Distinct(sent) /\ Distinct(left) /\ Range(sent) \cap Range(left) = {}
        /\ Range(q) = Range(sent) \cup Range(left)
  <2>1. CutAt(q, j, SubSeq(q, 1, j), SubSeq(q, j + 1, Len(q)))
        /\ SubSeq(q, 1, j) \in Seq(Bufs) /\ SubSeq(q, j + 1, Len(q)) \in Seq(Bufs)
    BY DistinctCut, Zenon
  <2> QED  BY <2>1, Zenon DEF CutAt
<1>2. PICK back \in Seq(Bufs) : back = Reverse(sent) /\ Range(back) = Range(sent)
        /\ Distinct(back)
  BY <1>1, Reversed
<1>3. PICK free2 \in Seq(Bufs) : free2 = back \o free
        /\ Range(free2) = Range(back) \cup Range(free)
        /\ Distinct(free2)
  <2>1. Range(back) \cap Range(free) = {}
    BY <1>1, <1>2
  <2> QED  BY <1>2, <2>1, DistinctConcat
<1>4. \A b \in Range(sent) : m[b].data = <<>>
  <2>1. Ranged(sent)
    BY InRange
  <2>2. ASSUME NEW b \in Range(sent) PROVE m[b].data = <<>>
    <3>1. PICK i \in 1 .. j : sent[i] = b
      BY <1>1, <2>1 DEF Ranged
    <3> QED  BY <1>1, <3>1 DEF Drained
  <2> QED  BY <2>2
<1>5. free2 = Reverse(SubSeq(q, 1, j)) \o free
  BY <1>1, <1>2, <1>3, Zenon
<1>6. Range(left) \cap Range(free2) = {}
        /\ Range(left) \cup Range(free2) = Range(q) \cup Range(free)
  BY <1>1, <1>2, <1>3
<1>7. \A b \in Range(free2) : m[b].data = <<>>
  BY <1>2, <1>3, <1>4
<1>8. \A b \in Range(q) : m[b].data # <<>> => b \in Range(left)
  BY <1>1, <1>4
<1>9. Recycled(q, free, m, j, left, free2)
  BY <1>1, <1>3, <1>5, <1>6, <1>7, <1>8, Zenon DEF Recycled
<1> QED  BY <1>9

\* ngx_http_next_body_filter() and ngx_chain_update_chains().
Delivered(q, k, j, busy2, free2) ==
  /\ q = held \o ctx.out /\ q = ctx.busy \o ctx.out
  /\ Distinct(q) /\ Range(q) = Range(ctx.busy) \cup Range(ctx.out)
  /\ Leaves(q, k)
  /\ Drained(q, mem', j)
  /\ busy2 = SubSeq(q, j + 1, Len(q))
  /\ UpdateChains(ctx, mem', ctx.out) = [ctx EXCEPT !.busy = busy2, !.free = free2]
  /\ Distinct(busy2) /\ Distinct(free2) /\ Range(busy2) \cap Range(free2) = {}
  /\ Range(busy2) \cup Range(free2) = Range(q) \cup Range(ctx.free)
  /\ \A b \in Range(free2) : mem'[b].data = <<>>
  /\ \A b \in Range(q) : mem'[b].data # <<>> => b \in Range(busy2)

\* Delivery: what was held and what is queued is what the filter knows as
\* busy and queued, so what the downstream drains is what comes back.
LEMMA DeliveryFacts ==
  ASSUME BufInv, Pass(ctx.out), ~ctx.done \/ pc = "deliver"
  PROVE  \E q \in Seq(Bufs) : \E k \in 0 .. Len(q), j \in 0 .. Len(q) :
           \E busy2 \in Seq(Bufs), free2 \in Seq(Bufs) : Delivered(q, k, j, busy2, free2)
<1>1. PICK out \in Seq(Bufs), busy \in Seq(Bufs), free \in Seq(Bufs) :
        out = ctx.out /\ busy = ctx.busy /\ free = ctx.free /\ held = busy
  BY DEF BufInv, TypeInv, Ctx, HeldInv
<1>2. PICK q \in Seq(Bufs) : q = busy \o out /\ Range(q) = Range(busy) \cup Range(out)
        /\ Distinct(q)
  <2>1. Distinct(busy) /\ Distinct(out) /\ Range(busy) \cap Range(out) = {}
    BY <1>1 DEF BufInv, PlaceInv
  <2> QED  BY <2>1, DistinctConcat
<1>3. PICK k \in 0 .. Len(q) : Leaves(q, k)
  BY <1>1, <1>2, PassLeaves DEF BufInv
<1>4. PICK j \in 0 .. Len(q) : Updates(ctx, mem', q, out, j)
  <2>1. q = ctx.busy \o out
    BY <1>1, <1>2
  <2> QED  BY <2>1, UpdateDrains, Zenon
<1>5. \A b \in Range(free) : mem'[b].data = <<>>
  <2>1. \A b \in Range(free) : b \in Bufs /\ mem[b].data = <<>>
    BY <1>1, InRange DEF BufInv, DataInv
  <2> QED  BY <1>3, <2>1 DEF Leaves
<1>6. Range(q) \cap Range(free) = {} /\ Distinct(free)
  BY <1>1, <1>2 DEF BufInv, PlaceInv
<1>7. PICK busy2 \in Seq(Bufs), free2 \in Seq(Bufs) : Recycled(q, free, mem', j, busy2, free2)
  <2>1. Drained(q, mem', j)
    BY <1>4 DEF Updates
  <2> QED  BY <1>2, <2>1, <1>5, <1>6, RecycleFacts
<1>8. UpdateChains(ctx, mem', ctx.out) = [ctx EXCEPT !.busy = busy2, !.free = free2]
  BY <1>1, <1>4, <1>7 DEF Recycled, Updates
<1>9. Delivered(q, k, j, busy2, free2)
  BY <1>1, <1>2, <1>3, <1>4, <1>7, <1>8, Zenon DEF Delivered, Recycled, Updates
<1> QED  BY <1>9

\* What the downstream returns of a queue is well formed.
LEMMA LeavesTyped ==
  ASSUME TypeInv, NEW q \in Seq(Bufs), NEW k \in 0 .. Len(q), Leaves(q, k), Distinct(q)
  PROVE  /\ wire' \in Seq(Units) /\ closed' \in BOOLEAN
         /\ held' \in Seq(Bufs) /\ mem' \in [Bufs -> Buf]
         /\ Distinct(held') /\ Range(held') \subseteq Range(q)
<1>1. PICK sent \in Seq(Bufs), left \in Seq(Bufs) :
        /\ sent = SubSeq(q, 1, k) /\ left = SubSeq(q, k + 1, Len(q))
        /\ Distinct(left) /\ Range(q) = Range(sent) \cup Range(left)
  <2>1. CutAt(q, k, SubSeq(q, 1, k), SubSeq(q, k + 1, Len(q)))
        /\ SubSeq(q, 1, k) \in Seq(Bufs) /\ SubSeq(q, k + 1, Len(q)) \in Seq(Bufs)
    BY DistinctCut, Zenon
  <2> QED  BY <2>1, Zenon DEF CutAt
<1>2. wire' \in Seq(Units)
  <2>1. PICK u \in Seq(Units) : u = BufData(mem, sent)
    BY BufDataFacts DEF TypeInv
  <2>2. wire' = wire \o u
    BY <1>1, <2>1, Zenon DEF Leaves
  <2> QED  BY <2>2, ConcatProperties DEF TypeInv
<1>3. closed' \in BOOLEAN
  <2>1. closed' = (closed \/ \E i \in 1 .. k : mem[q[i]].last_buf)
    BY DEF Leaves
  <2> QED  BY <2>1
<1>4. held' = left /\ mem' \in [Bufs -> Buf]
  BY <1>1, Zenon DEF Leaves
<1> QED  BY <1>1, <1>2, <1>3, <1>4

\* A queue of buffers with data is drained as far as it left.
LEMMA DrainedAsLeft ==
  ASSUME NEW q \in Seq(Bufs), NEW k \in 0 .. Len(q), NEW j \in 0 .. Len(q), Distinct(q),
         Leaves(q, k), Drained(q, mem', j), \A b \in Range(q) : mem[b].data # <<>>
  PROVE  j = k /\ held' = SubSeq(q, j + 1, Len(q)) /\ \A b \in Range(held') :
    mem'[b].data # <<>>
<1>1. PICK n \in Nat : n = Len(q)
  OBVIOUS
<1>2. PICK sent \in Seq(Bufs), left \in Seq(Bufs) :
        /\ sent = SubSeq(q, 1, k) /\ left = SubSeq(q, k + 1, Len(q))
        /\ Len(sent) = k /\ \A i \in 1 .. k : sent[i] = q[i]
        /\ Len(left) = n - k /\ \A i \in 1 .. n - k : left[i] = q[k + i]
        /\ Range(sent) \cap Range(left) = {} /\ Range(q) = Range(sent) \cup Range(left)
  <2>1. CutAt(q, k, SubSeq(q, 1, k), SubSeq(q, k + 1, Len(q)))
        /\ SubSeq(q, 1, k) \in Seq(Bufs) /\ SubSeq(q, k + 1, Len(q)) \in Seq(Bufs)
    BY DistinctCut, Zenon
  <2> QED  BY <1>1, <2>1, Zenon DEF CutAt
<1>3. \A b \in Bufs : mem'[b].data = IF b \in Range(sent) THEN <<>> ELSE mem[b].data
  BY <1>2, Zenon DEF Leaves
<1>4. Ranged(sent) /\ Ranged(left) /\ Range(left) \subseteq Bufs /\ Range(sent) \subseteq Bufs
  BY InRange
<1>5. \A b \in Range(left) : mem'[b].data # <<>>
  BY <1>2, <1>3, <1>4
<1>6. \A i \in 1 .. k : mem'[q[i]].data = <<>>
  <2> TAKE i \in 1 .. k
  <2>1. sent[i] \in Range(sent)
    BY <1>2, <1>4 DEF Ranged
  <2> QED  BY <1>2, <1>3, <1>4, <2>1
<1>7. k < n => mem'[q[k + 1]].data # <<>>
  <2> HAVE k < n
  <2>1. 1 \in 1 .. n - k
    BY <1>1
  <2>2. left[1] \in Range(left) /\ left[1] = q[k + 1]
    BY <1>2, <1>4, <2>1 DEF Ranged
  <2> QED  BY <1>5, <2>2
<1>8. j = k
  <2>1. ~(j < k)
    <3>1. SUFFICES ASSUME j < k PROVE FALSE
      OBVIOUS
    <3>2. j + 1 \in 1 .. k /\ j < Len(q)
      BY <1>1, <3>1
    <3> QED  BY <1>6, <3>2 DEF Drained
  <2>2. ~(k < j)
    <3>1. SUFFICES ASSUME k < j PROVE FALSE
      OBVIOUS
    <3>2. k + 1 \in 1 .. j /\ k < n
      BY <1>1, <3>1
    <3> QED  BY <1>7, <3>2 DEF Drained
  <2> QED  BY <2>1, <2>2, <1>1
<1>9. held' = left
  BY <1>2, Zenon DEF Leaves
<1> QED  BY <1>2, <1>5, <1>8, <1>9

\* The filter's chains after ngx_chain_update_chains() and the resets.
Returned(busy2, free2) ==
  /\ ctx' \in Ctx
  /\ ctx'.busy = busy2 /\ ctx'.free = free2 /\ ctx'.out = <<>>
  /\ ctx'.out_buf = NULL /\ ~ctx'.nomem
  /\ ctx'.bufs = ctx.bufs /\ ctx'.done = ctx.done /\ ctx'.aborted = ctx.aborted
  /\ ctx'.in = ctx.in /\ ctx'.buffer_in = ctx.buffer_in /\ ctx'.last = ctx.last
  /\ ctx'.action = ctx.action /\ ctx'.cctx_ready = ctx.cctx_ready
  /\ ctx'.dcz_header_sent = ctx.dcz_header_sent /\ ctx'.bytes_out = ctx.bytes_out

\* After delivery every buffer is busy or free, and the downstream holds
\* exactly the busy ones until the response is done.
LEMMA DeliverySteps ==
  ASSUME BufInv, ~ctx.done \/ pc = "deliver", NEW q \in Seq(Bufs), NEW k \in 0 .. Len(q),
         NEW j \in 0 .. Len(q), NEW busy2 \in Seq(Bufs), NEW free2 \in Seq(Bufs),
         Delivered(q, k, j, busy2, free2), Returned(busy2, free2),
         conf' = conf, pc' # "deliver", TypeInv', ControlInv'
  PROVE  BufInv'
<1>1. PICK out \in Seq(Bufs), busy \in Seq(Bufs), free \in Seq(Bufs) :
        out = ctx.out /\ busy = ctx.busy /\ free = ctx.free
  BY DEF BufInv, TypeInv, Ctx
<1>2. Range(q) = Range(busy) \cup Range(out)
  BY <1>1 DEF Delivered
<1>3. Range(busy2) \cup Range(free2) = Range(q) \cup Range(free)
  BY <1>1 DEF Delivered
<1>4. ctx'.out = <<>> /\ ctx'.busy = busy2 /\ ctx'.free = free2 /\ ctx'.out_buf = NULL
      /\ ctx'.bufs = ctx.bufs /\ ctx'.done = ctx.done
  BY DEF Returned
<1>5. PlaceInv'
  <2>1. Range(ctx'.out) = {} /\ Distinct(ctx'.out)
    BY <1>4, NoBuffers
  <2>2. Placed' = Placed
    BY <1>1, <1>2, <1>3, <1>4, <2>1 DEF Placed
  <2>3. \A b \in Placed' : b <= ctx'.bufs
    BY <1>4, <2>2 DEF BufInv, PlaceInv
  <2>4. Distinct(ctx'.busy) /\ Distinct(ctx'.free)
          /\ Range(ctx'.busy) \cap Range(ctx'.free) = {}
    BY <1>4, Zenon DEF Delivered
  <2>5. NULL \notin Placed'
    <3>1. \A b \in Range(out) \cup Range(busy) \cup Range(free) : b \in Bufs
      BY InRange
    <3> QED  BY <1>1, <2>2, <3>1, BufsFacts DEF Placed
  <2>6. ctx'.bufs <= conf'.num
    BY <1>4 DEF BufInv, PlaceInv
  <2>7. /\ Range(ctx'.out) \cap Range(ctx'.busy) = {}
           /\ Range(ctx'.out) \cap Range(ctx'.free) = {}
    BY <2>1
  <2>8. ctx'.out_buf \notin Placed'
    BY <1>4, <2>5
  <2> QED  BY <1>4, <2>1, <2>3, <2>4, <2>6, <2>7, <2>8, Zenon DEF PlaceInv
<1>6. DataInv'
  <2>1. Range(ctx'.out) = {}
    BY <1>4, NoBuffers
  <2>2. \A b \in Range(ctx'.free) : mem'[b].data = <<>>
    BY <1>4 DEF Delivered
  <2>3. \A b \in Bufs : mem'[b].size = mem[b].size
    BY DEF Delivered, Leaves
  <2>4. \A b \in Bufs : b <= ctx'.bufs => mem'[b].size > 0
    BY <1>4, <2>3 DEF BufInv, DataInv
  <2> QED  BY <1>4, <2>1, <2>2, <2>4 DEF DataInv
<1>7. HeldInv'
  <2>0. Leaves(q, k) /\ Distinct(q) /\ Drained(q, mem', j)
    BY DEF Delivered
  <2>1. Distinct(held') /\ Range(held') \subseteq Range(q)
    BY <2>0, LeavesTyped DEF BufInv
  <2>2. \A b \in Range(held') : mem'[b].data # <<>>
          => b \in Range(ctx'.busy) \cup Range(ctx'.out)
    BY <1>4, <2>1 DEF Delivered
  <2>3. ASSUME ~ctx'.done
        PROVE  held' = ctx'.busy /\ \A b \in Range(held') : mem'[b].data # <<>>
    <3>1. \A b \in Range(busy) : mem[b].data # <<>>
      BY <1>1, <1>4, <2>3 DEF BufInv, HeldInv
    <3>2. \A b \in Range(out) : mem[b].data # <<>>
      BY <1>1, <1>4, <2>3 DEF BufInv, DataInv
    <3>3. \A b \in Range(q) : mem[b].data # <<>>
      BY <1>2, <3>1, <3>2
    <3>4. held' = SubSeq(q, j + 1, Len(q)) /\ \A b \in Range(held') : mem'[b].data # <<>>
      BY <2>0, <3>3, DrainedAsLeft
    <3>5. busy2 = SubSeq(q, j + 1, Len(q))
      BY DEF Delivered
    <3> QED  BY <1>4, <3>4, <3>5
  <2> QED  BY <2>1, <2>2, <2>3 DEF HeldInv
<1> QED  BY <1>5, <1>6, <1>7 DEF BufInv

\* A step that passes the queued buffers on, and updates the chains.
LEMMA PassGives ==
  ASSUME BufInv, ~ctx.done \/ pc = "deliver", Pass(ctx.out),
         ctx' = [UpdateChains(ctx, mem', ctx.out)
                   EXCEPT !.out = <<>>, !.out_buf = NULL, !.nomem = FALSE]
  PROVE  \E q \in Seq(Bufs) : \E k \in 0 .. Len(q), j \in 0 .. Len(q) :
           \E busy2 \in Seq(Bufs), free2 \in Seq(Bufs) :
             Delivered(q, k, j, busy2, free2) /\ Returned(busy2, free2)
<1>1. PICK q \in Seq(Bufs) : \E k \in 0 .. Len(q), j \in 0 .. Len(q) :
        \E busy2 \in Seq(Bufs), free2 \in Seq(Bufs) : Delivered(q, k, j, busy2, free2)
  BY DeliveryFacts
<1>2. PICK k \in 0 .. Len(q), j \in 0 .. Len(q) :
        \E busy2 \in Seq(Bufs), free2 \in Seq(Bufs) : Delivered(q, k, j, busy2, free2)
  BY <1>1
<1>3. PICK busy2 \in Seq(Bufs), free2 \in Seq(Bufs) : Delivered(q, k, j, busy2, free2)
  BY <1>2
<1>4. Returned(busy2, free2)
  <2>1. PICK e \in Seq(Bufs) : e = <<>>
    BY EmptySeq
  <2>2. ctx' = [[ctx EXCEPT !.busy = busy2, !.free = free2]
                  EXCEPT !.out = e, !.out_buf = NULL, !.nomem = FALSE]
    BY <1>3, <2>1 DEF Delivered
  <2>3. ctx \in Ctx
    BY DEF BufInv, TypeInv
  <2>4. PICK c \in Ctx : c = [ctx EXCEPT !.busy = busy2, !.free = free2] /\ c.bufs = ctx.bufs
          /\ c.done = ctx.done /\ c.aborted = ctx.aborted /\ c.busy = busy2 /\ c.free = free2
          /\ c.in = ctx.in /\ c.buffer_in = ctx.buffer_in /\ c.last = ctx.last
          /\ c.action = ctx.action /\ c.cctx_ready = ctx.cctx_ready
          /\ c.dcz_header_sent = ctx.dcz_header_sent /\ c.bytes_out = ctx.bytes_out
    <3>1. [ctx EXCEPT !.busy = busy2, !.free = free2] \in Ctx
      BY <2>3 DEF Ctx
    <3> QED  BY <2>3, <3>1 DEF Ctx
  <2>5. ctx' = [c EXCEPT !.out = e, !.out_buf = NULL, !.nomem = FALSE]
    BY <2>2, <2>4
  <2>6. [c EXCEPT !.out = e, !.out_buf = NULL, !.nomem = FALSE] \in Ctx
    BY DEF Ctx
  <2>7. /\ ctx'.out = e /\ ctx'.out_buf = NULL /\ ~ctx'.nomem /\ ctx'.bufs = c.bufs
           /\ ctx'.busy = c.busy
        /\ ctx'.free = c.free
    BY <2>5 DEF Ctx
  <2>8. /\ ctx'.done = c.done /\ ctx'.aborted = c.aborted
        /\ ctx'.in = c.in /\ ctx'.buffer_in = c.buffer_in /\ ctx'.last = c.last
        /\ ctx'.action = c.action /\ ctx'.cctx_ready = c.cctx_ready
        /\ ctx'.dcz_header_sent = c.dcz_header_sent /\ ctx'.bytes_out = c.bytes_out
    BY <2>5 DEF Ctx
  <2>9. ctx' \in Ctx
    BY <2>5, <2>6, Zenon
  <2> QED  BY <2>1, <2>4, <2>7, <2>8, <2>9, Zenon DEF Returned
<1> QED  BY <1>3, <1>4

\* A delivery keeps the buffer invariant.
LEMMA PassReturns ==
  ASSUME BufInv, ~ctx.done \/ pc = "deliver", Pass(ctx.out),
         ctx' = [UpdateChains(ctx, mem', ctx.out)
                   EXCEPT !.out = <<>>, !.out_buf = NULL, !.nomem = FALSE],
         UNCHANGED <<conf, in, enc, up>>, flush' \in BOOLEAN, buffered' \in BOOLEAN,
         pc \in {"entry", "deliver"}, pc' = IF ctx.done THEN "parked" ELSE "add"
  PROVE  BufInv'
<1>1. PICK q \in Seq(Bufs) : \E k \in 0 .. Len(q), j \in 0 .. Len(q) :
        \E busy2 \in Seq(Bufs), free2 \in Seq(Bufs) :
          Delivered(q, k, j, busy2, free2) /\ Returned(busy2, free2)
  BY PassGives
<1>2. PICK k \in 0 .. Len(q), j \in 0 .. Len(q) :
        \E busy2 \in Seq(Bufs), free2 \in Seq(Bufs) :
          Delivered(q, k, j, busy2, free2) /\ Returned(busy2, free2)
  BY <1>1
<1>3. PICK busy2 \in Seq(Bufs), free2 \in Seq(Bufs) :
        Delivered(q, k, j, busy2, free2) /\ Returned(busy2, free2)
  BY <1>2
<1>4. Returned(busy2, free2)
  BY <1>3
<1>5. TypeInv'
  <2>1. Leaves(q, k) /\ Distinct(q)
    BY <1>3 DEF Delivered
  <2>2. /\ wire' \in Seq(Units) /\ closed' \in BOOLEAN
        /\ held' \in Seq(Bufs) /\ mem' \in [Bufs -> Buf]
    BY <2>1, LeavesTyped DEF BufInv
  <2>3. ctx' \in Ctx
    BY <1>4 DEF Returned
  <2>4. broken' \in BOOLEAN /\ room' \in BOOLEAN
    BY DEF Pass, BufInv, TypeInv
  <2>5. pc' \in {"parked", "add"}
    OBVIOUS
  <2> QED  BY <2>2, <2>3, <2>4, <2>5 DEF BufInv, TypeInv
<1>6. ControlInv'
  BY <1>4 DEF BufInv, ControlInv, Returned
<1>7. pc' # "deliver"
  OBVIOUS
<1> QED  BY <1>3, <1>4, <1>5, <1>6, <1>7, DeliverySteps

\* The delivery at the end of an iteration keeps it.
LEMMA DeliverKeeps ==
  ASSUME BufInv, Deliver \/ DeliverFails
  PROVE  BufInv'
<1>1. CASE Deliver
  <2>1. buffered' \in BOOLEAN /\ flush' \in BOOLEAN
    BY <1>1 DEF Deliver, BufInv, TypeInv
  <2>2. /\ pc = "deliver" /\ Pass(ctx.out)
        /\ ctx' = [UpdateChains(ctx, mem', ctx.out)
                     EXCEPT !.out = <<>>, !.out_buf = NULL, !.nomem = FALSE]
        /\ UNCHANGED <<conf, in, enc, up>> /\ pc' = IF ctx.done THEN "parked" ELSE "add"
    BY <1>1, Zenon DEF Deliver
  <2> QED  BY <2>1, <2>2, PassReturns
<1>2. CASE DeliverFails
  <2>1. buffered' \in BOOLEAN
    BY <1>2 DEF DeliverFails, BufInv, TypeInv
  <2> QED  BY <1>2, <2>1, DownFailsKeep DEF DeliverFails
<1> QED  BY <1>1, <1>2

\* A call that starts short of buffers has nothing queued, and passes that on.
LEMMA NomemPasses ==
  ASSUME BufInv, ctx.out = <<>>, Pass(<<>>),
         ctx' = [UpdateChains(ctx, mem', <<>>) EXCEPT !.out_buf = NULL, !.nomem = FALSE]
  PROVE  /\ Pass(ctx.out)
         /\ ctx' = [UpdateChains(ctx, mem', ctx.out)
                      EXCEPT !.out = <<>>, !.out_buf = NULL, !.nomem = FALSE]
<1>1. ctx \in Ctx
  BY DEF BufInv, TypeInv
<1>2. PICK q \in Seq(Bufs) : q = ctx.busy \o ctx.out
  BY ConcatProperties, Zenon DEF BufInv, TypeInv, Ctx
<1>3. PICK j \in 0 .. Len(q) : Updates(ctx, mem', q, ctx.out, j)
  BY <1>2, UpdateDrains, Zenon
<1>4. PICK b, f : UpdateChains(ctx, mem', ctx.out) = [ctx EXCEPT !.busy = b, !.free = f]
  BY <1>3 DEF Updates
<1>5. [[ctx EXCEPT !.busy = b, !.free = f] EXCEPT !.out_buf = NULL, !.nomem = FALSE] =
      [[ctx EXCEPT !.busy = b, !.free = f] EXCEPT !.out = <<>>, !.out_buf = NULL,
        !.nomem = FALSE]
  BY <1>1 DEF Ctx
<1> QED  BY <1>4, <1>5

\* So does the push at the start of a call that is short of buffers.
LEMMA BeginNomemKeeps ==
  ASSUME BufInv, BeginNomem
  PROVE  BufInv'
<1>1. /\ pc = "entry" /\ ~ctx.done /\ UNCHANGED <<conf, in, enc, up>>
      /\ buffered' = (buffered \/ in # <<>>)
  BY DEF BeginNomem
<1>2. buffered' \in BOOLEAN
  BY <1>1
<1>3. ctx.out = <<>>
  BY <1>1 DEF BufInv, ControlInv
<1>4. CASE /\ Pass(<<>>)
           /\ ctx' = [UpdateChains(ctx, mem', <<>>) EXCEPT !.out_buf = NULL, !.nomem = FALSE]
           /\ flush' = FALSE /\ pc' = "add"
  <2>1. /\ Pass(ctx.out)
        /\ ctx' = [UpdateChains(ctx, mem', ctx.out)
                     EXCEPT !.out = <<>>, !.out_buf = NULL, !.nomem = FALSE]
    BY <1>3, <1>4, NomemPasses
  <2>3. flush' \in BOOLEAN /\ pc' = IF ctx.done THEN "parked" ELSE "add"
    BY <1>1, <1>4
  <2> QED  BY <1>1, <1>2, <2>1, <2>3, PassReturns
<1>5. CASE PassFails /\ pc' = "failed" /\ UNCHANGED <<ctx, flush>>
  BY <1>1, <1>2, <1>5, DownFailsKeep
<1> QED  BY <1>4, <1>5 DEF BeginNomem

\* So does a call after the end of the response, where the filter's chains
\* are not updated any more.
LEMMA PassThroughKeeps ==
  ASSUME BufInv, PassThrough
  PROVE  BufInv'
<1>1. /\ pc = "entry" /\ ctx.done /\ pc' = "parked"
         /\ UNCHANGED <<conf, ctx, in, flush, enc, buffered, up>>
  BY DEF PassThrough
<1>2. CASE Pass(<<>>)
  <2>1. PICK q \in Seq(Bufs) : q = held
    BY DEF BufInv, TypeInv
  <2>2. q = held \o <<>>
    BY <2>1, ConcatEmptySeq, Zenon
  <2>3. PICK k \in 0 .. Len(q) : Leaves(q, k)
    <3>1. <<>> \in Seq(Bufs)
      BY EmptySeq
    <3> QED  BY <1>2, <2>2, <3>1, PassLeaves, Zenon DEF BufInv
  <2>4. Distinct(q)
    BY <2>1 DEF BufInv, HeldInv
  <2>5. /\ wire' \in Seq(Units) /\ closed' \in BOOLEAN
        /\ held' \in Seq(Bufs) /\ mem' \in [Bufs -> Buf]
        /\ Distinct(held') /\ Range(held') \subseteq Range(q)
    BY <2>3, <2>4, LeavesTyped DEF BufInv
  <2>6. broken' \in BOOLEAN /\ room' \in BOOLEAN
    BY <1>2 DEF Pass, BufInv, TypeInv
  <2>7. TypeInv'
    BY <1>1, <2>5, <2>6 DEF BufInv, TypeInv
  <2>8. ControlInv'
    BY <1>1 DEF BufInv, ControlInv
  <2>9. PlaceInv'
    BY <1>1 DEF BufInv, PlaceInv, Placed
  <2>10. \A b \in Bufs : /\ mem'[b].data # <<>> => mem[b].data # <<>>
                         /\ mem'[b].data # <<>> => mem'[b].data = mem[b].data
                         /\ mem'[b].size = mem[b].size
    BY <2>3 DEF Leaves
  <2>11. DataInv'
    <3>1. ctx'.out = <<>> /\ Range(ctx'.out) = {}
      BY <1>1, NoBuffers DEF BufInv, ControlInv
    <3>2. \A b \in Range(ctx'.free) : mem'[b].data = <<>>
      <4>1. \A b \in Range(ctx.free) : b \in Bufs
        BY InRange DEF BufInv, TypeInv, Ctx
      <4> QED  BY <1>1, <2>10, <4>1 DEF BufInv, DataInv
    <3>3. ASSUME ctx'.out_buf # NULL, ~Dead'
          PROVE  \/ mem'[ctx'.out_buf].data = <<>>
                 \/ mem'[ctx'.out_buf].data = <<PREFIX>>
                    /\ (pc' = "compress" \/ (pc' # "deliver" /\ ctx'.redo))
      <4>1. ctx.out_buf \in Bufs /\ ~Dead
        BY <1>1, <3>3 DEF BufInv, TypeInv, Ctx, Dead
      <4>2. mem[ctx.out_buf].data = <<>> \/ (mem[ctx.out_buf].data = <<PREFIX>> /\ ctx.redo)
        BY <1>1, <3>3, <4>1 DEF BufInv, DataInv
      <4> QED  BY <1>1, <2>10, <4>1, <4>2
    <3>4. \A b \in Bufs : b <= ctx'.bufs => mem'[b].size > 0
      BY <1>1, <2>10 DEF BufInv, DataInv
    <3> QED  BY <3>1, <3>2, <3>3, <3>4 DEF DataInv
  <2>12. HeldInv'
    <3>1. \A b \in Range(held') : b \in Range(held) /\ b \in Bufs
      BY <2>1, <2>5, InRange
    <3> QED  BY <1>1, <2>5, <2>10, <3>1 DEF BufInv, HeldInv
  <2> QED  BY <2>7, <2>8, <2>9, <2>11, <2>12 DEF BufInv
<1>3. CASE PassFails
  <2>1. buffered' \in BOOLEAN
    BY <1>1 DEF BufInv, TypeInv
  <2> QED  BY <1>1, <1>3, <2>1, DownFailsKeep
<1> QED  BY <1>2, <1>3 DEF PassThrough

-----------------------------------------------------------------------------
(* The buffer invariant, and what it is for *)

\* filter_compress() keeps it, however the call ends.
LEMMA CompressKeeps ==
  ASSUME BufInv, Compress
  PROVE  BufInv'
<1>1. PICK o \in Outcomes(Directive, ctx.buffer_in, Space(mem[ctx.out_buf])) :
        (Suppress(o) \/ Emit(o) \/ EmitFails(o)) /\ enc' = EncAfter(o, Directive)
  BY Zenon DEF Compress
<1>2. pc = "compress" /\ UNCHANGED <<conf, in, flush, downVars, up>>
  BY DEF Compress
<1>3. CASE Suppress(o)
  BY <1>1, <1>2, <1>3, SuppressKeeps
<1>4. CASE Emit(o)
  BY <1>1, <1>2, <1>4, EmitKeeps
<1>5. CASE EmitFails(o)
  BY <1>1, <1>2, <1>5, EmitFailsKeeps
<1> QED  BY <1>1, <1>3, <1>4, <1>5

\* It holds when the context is created.
LEMMA BufInit == Init => BufInv
<1> SUFFICES ASSUME Init PROVE BufInv
  OBVIOUS
<1>1. PICK sb \in Seq(Bufs), sl \in Seq(Link), st \in Seq(Toks), su \in Seq(Units) :
        sb = <<>> /\ sl = <<>> /\ st = <<>> /\ su = <<>>
  BY EmptySeq
<1>2. PICK c \in Ctx :
        /\ c = ctx /\ c.free = sb /\ c.busy = sb /\ c.out = sb /\ c.out_buf = NULL
           /\ c.bufs = 0
        /\ ~c.done /\ ~c.aborted /\ ~c.nomem
  <2>1. ctx =
         [in |-> sl, buffer_in |-> st,
          free |-> sb, busy |-> sb, out |-> sb, out_buf |-> NULL, bufs |-> 0,
          last |-> FALSE, redo |-> FALSE, flush |-> FALSE, done |-> FALSE,
          aborted |-> FALSE, nomem |-> FALSE, dcz_header_sent |-> FALSE,
          cctx_ready |-> FALSE, action |-> "COMPRESS", bytes_in |-> 0, bytes_out |-> 0]
    BY <1>1 DEF Init, NewCtx
  <2>2. ctx \in Ctx
    BY <2>1 DEF Ctx
  <2> QED  BY <2>1, <2>2
<1>3. mem \in [Bufs -> Buf]
  <2>1. mem = [b \in Bufs |-> [size |-> 0, data |-> su, flush |-> FALSE, last_buf |-> FALSE,
                               memory |-> TRUE, recycled |-> TRUE]]
    BY <1>1 DEF Init, NewBuf
  <2>2. [size |-> 0, data |-> su, flush |-> FALSE, last_buf |-> FALSE,
         memory |-> TRUE, recycled |-> TRUE] \in Buf
    BY BoundsAssumption DEF Buf
  <2> QED  BY <2>1, <2>2
<1>4. enc \in Enc
  <2>1. enc = [acc |-> st, stg |-> su, ended |-> FALSE]
    BY <1>1 DEF Init
  <2> QED  BY <2>1 DEF Enc
<1>5. TypeInv
  <2>1. in \in Seq(Link) /\ held \in Seq(Bufs) /\ wire \in Seq(Units)
    BY <1>1 DEF Init
  <2>2. up.tokens = 0 /\ up.eof \in BOOLEAN /\ 0 \in 0 .. MaxTokens
    BY BoundsAssumption DEF Init
  <2> QED  BY <1>2, <1>3, <1>4, <2>1, <2>2 DEF TypeInv, Init
<1>6. ControlInv
  BY <1>1, <1>2 DEF ControlInv, Init
<1>7. Range(sb) = {} /\ Distinct(sb)
  BY <1>1, NoBuffers
<1>8. PlaceInv
  <2>1. ctx.bufs <= conf.num
    <3>1. conf.num \in Bufs
      BY DEF Init
    <3>2. conf.num \in Nat
      BY <3>1, BufsFacts
    <3>3. ctx.bufs = 0
      BY <1>2
    <3> QED  BY <3>2, <3>3
  <2>2. Placed = {}
    BY <1>2, <1>7 DEF Placed
  <2> QED  BY <1>2, <1>7, <2>1, <2>2 DEF PlaceInv
<1>9. DataInv
  BY <1>2, <1>7, BufsFacts DEF DataInv
<1>10. HeldInv
  BY <1>1, <1>2, <1>7 DEF HeldInv, Init
<1> QED  BY <1>5, <1>6, <1>8, <1>9, <1>10 DEF BufInv

\* Every step of the filter, the upstream and the downstream keeps it.
LEMMA BufStep == BufInv /\ [Next]_vars => BufInv'
<1> SUFFICES ASSUME BufInv, [Next]_vars PROVE BufInv'
  OBVIOUS
<1>1. CASE \E chain \in Chains : Feed(chain)
  BY <1>1, FeedKeeps
<1>2. CASE WriteEvent \/ IdleCall \/ NothingToDo \/ Begin
  BY <1>2, CallsKeep
<1>3. CASE PassThrough
  BY <1>3, PassThroughKeeps
<1>4. CASE InitCctx
  BY <1>4, InitCctxKeeps
<1>5. CASE BeginNomem
  BY <1>5, BeginNomemKeeps
<1>6. CASE AddPending \/ AddNone \/ GetBufKeep \/ GetBufFails \/ CodecFails \/ ParkFails
  BY <1>6, TurnsKeep
<1>7. CASE AddLink
  BY <1>7, AddLinkKeeps
<1>8. CASE GetBufFree \/ GetBufAlloc \/ GetBufNomem
  BY <1>8, GetBufFreeKeeps, GetBufAllocKeeps, GetBufNomemKeeps
<1>9. CASE Compress
  BY <1>9, CompressKeeps
<1>10. CASE Park \/ Fail
  BY <1>10, ParkKeeps, FailKeeps
<1>11. CASE Deliver \/ DeliverFails
  BY <1>11, DeliverKeeps
<1>12. CASE UNCHANGED vars
  BY <1>12 DEF vars, BufInv, TypeInv, ControlInv, PlaceInv, Placed, DataInv, HeldInv, Dead
<1> QED
  BY <1>1, <1>2, <1>3, <1>4, <1>5, <1>6, <1>7, <1>8, <1>9, <1>10, <1>11, <1>12 DEF Next, Step

\* The buffer invariant holds in every state of the body filter: every chain
\* is well formed, every buffer has one place, the current one has all of its
\* room, and the downstream holds what the filter thinks is busy.
THEOREM BuffersInvariant == Spec => []BufInv
<1> QED  BY BufInit, BufStep, PTL DEF Spec

\* The buffer invariant is enough for the writer: an empty buffer is queued
\* only at the end of the frame, as a special one.
LEMMA AcceptedByWriter == BufInv => NoZeroSizeBuf
<1> SUFFICES ASSUME BufInv, NEW i \in 1 .. Len(ctx.out)
             PROVE  ~(/\ mem[ctx.out[i]].data = <<>>
                      /\ \/ mem[ctx.out[i]].memory
                         \/ ~(mem[ctx.out[i]].flush \/ mem[ctx.out[i]].last_buf))
  BY DEF NoZeroSizeBuf, ZeroSizeBuf
<1>1. PICK out \in Seq(Bufs) : out = ctx.out
  BY DEF BufInv, TypeInv, Ctx
<1>2. out[i] \in Range(out)
  BY <1>1, InRange DEF Ranged
<1> QED  BY <1>1, <1>2 DEF BufInv, DataInv

\* For every number and size of buffers, zstd_max_length and body:
\* filter_compress() never queues a buffer that the write filter would refuse
\* with "zero size buf in writer".
THEOREM WriterAcceptsBuffers == Spec => []NoZeroSizeBuf
<1> QED  BY BuffersInvariant, AcceptedByWriter, PTL

\* The buffer invariant separates the places.
LEMMA InOnePlace == BufInv => BuffersUnshared
<1> SUFFICES ASSUME BufInv PROVE BuffersUnshared
  OBVIOUS
<1>1. PICK out \in Seq(Bufs), busy \in Seq(Bufs), free \in Seq(Bufs) :
        out = ctx.out /\ busy = ctx.busy /\ free = ctx.free
  BY DEF BufInv, TypeInv, Ctx
<1>2. PICK current \in Seq(Bufs) :
        /\ current = IF ctx.out_buf = NULL THEN <<>> ELSE <<ctx.out_buf>>
        /\ Distinct(current) /\ Range(current) = {ctx.out_buf} \cap Bufs
  <2>1. PICK none \in Seq(Bufs) : none = <<>> /\ Range(none) = {} /\ Distinct(none)
    BY EmptySeq, NoBuffers
  <2>2. CASE ctx.out_buf = NULL
    BY <2>1, <2>2, BufsFacts
  <2>3. CASE ctx.out_buf # NULL
    <3>1. ctx.out_buf \in Bufs
      BY <2>3 DEF BufInv, TypeInv, Ctx
    <3>2. PICK one \in Seq(Bufs) : one = <<ctx.out_buf>> /\ Len(one) = 1
            /\ one[1] = ctx.out_buf
      <4>1. PICK x \in Bufs : x = ctx.out_buf
        BY <3>1
      <4>2. <<x>> \in Seq(Bufs) /\ Len(<<x>>) = 1 /\ <<x>>[1] = x
        OBVIOUS
      <4> QED  BY <4>1, <4>2
    <3>3. Ranged(one)
      BY InRange
    <3>4. Distinct(one) /\ Range(one) = {ctx.out_buf}
      BY <3>2, <3>3 DEF Ranged, Distinct
    <3> QED  BY <2>3, <3>1, <3>2, <3>4
  <2> QED  BY <2>2, <2>3
<1>3. /\ Distinct(out) /\ Distinct(busy) /\ Distinct(free)
      /\ Range(out) \cap Range(busy) = {} /\ Range(out) \cap Range(free) = {}
      /\ Range(busy) \cap Range(free) = {}
      /\ ctx.out_buf \notin Range(out) \cup Range(busy) \cup Range(free)
  BY <1>1 DEF BufInv, PlaceInv, Placed
<1>4. PICK s1 \in Seq(Bufs) : s1 = current \o out
        /\ Range(s1) = Range(current) \cup Range(out) /\ Distinct(s1)
  <2>1. Range(current) \cap Range(out) = {}
    BY <1>2, <1>3
  <2> QED  BY <1>2, <1>3, <2>1, DistinctConcat
<1>5. PICK s2 \in Seq(Bufs) : s2 = s1 \o busy /\ Range(s2) = Range(s1) \cup Range(busy)
        /\ Distinct(s2)
  <2>1. Range(s1) \cap Range(busy) = {}
    BY <1>2, <1>3, <1>4
  <2> QED  BY <1>3, <1>4, <2>1, DistinctConcat
<1>6. PICK s3 \in Seq(Bufs) : s3 = s2 \o free /\ Distinct(s3)
  <2>1. Range(s2) \cap Range(free) = {}
    BY <1>2, <1>3, <1>4, <1>5
  <2> QED  BY <1>3, <1>5, <2>1, DistinctConcat
<1>7. IsInjective(s3)
  <2>1. DOMAIN s3 = 1 .. Len(s3)
    OBVIOUS
  <2> QED  BY <1>6, <2>1, Zenon DEF Distinct, IsInjective
<1>8. s3 = current \o ctx.out \o ctx.busy \o ctx.free
  BY <1>1, <1>4, <1>5, <1>6, Zenon
<1>9. ASSUME NEW i \in 1 .. Len(held), mem[held[i]].data # <<>>
      PROVE  Contains(ctx.busy \o ctx.out, held[i])
  <2>1. PICK h \in Seq(Bufs) : h = held
    BY DEF BufInv, TypeInv
  <2>2. h[i] \in Range(h)
    BY <2>1, InRange DEF Ranged
  <2>3. h[i] \in Range(busy) \cup Range(out)
    BY <1>1, <1>9, <2>1, <2>2 DEF BufInv, HeldInv
  <2>4. PICK q \in Seq(Bufs) : q = busy \o out /\ Range(q) = Range(busy) \cup Range(out)
    BY DistinctConcat
  <2>5. \E n \in 1 .. Len(q) : q[n] = h[i]
    BY <2>3, <2>4, InRange DEF Ranged
  <2>6. Contains(q, h[i])
    BY <2>5 DEF Contains
  <2> QED  BY <1>1, <2>1, <2>4, <2>6
<1>10. pc = "entry" /\ ctx.nomem => ctx.out_buf = NULL
  BY DEF BufInv, ControlInv
<1> QED  BY <1>2, <1>7, <1>8, <1>9, <1>10 DEF BuffersUnshared

\* For every number and size of buffers: no buffer is filled, queued, in
\* flight and free at the same time, none with unsent bytes is recycled, and
\* a call that starts short of buffers has no current one (the argument of
\* the comment in body_filter() for resetting ctx->out_buf).
THEOREM BuffersAreUnshared == Spec => []BuffersUnshared
<1> QED  BY BuffersInvariant, InOnePlace, PTL

-----------------------------------------------------------------------------
(* Where the body and the frame end *)

\* Where the end of the body and of the frame is.
EndInv ==
  /\ \A x \in Range(ctx.in) \cup Range(in) : x.last_buf => up.eof
  /\ ctx.last => up.eof
  /\ ctx.action = "END" => ctx.last /\ NoMoreInput
  /\ enc.ended => ctx.action = "END"
  /\ ctx.done /\ ~Dead => ctx.last /\ NoMoreInput
  /\ pc = "parked" /\ ~ctx.aborted => in = <<>>
  /\ pc \in {"add", "buf", "compress", "deliver"} => ctx.cctx_ready
  /\ ~ctx.cctx_ready => enc.acc = <<>> /\ enc.stg = <<>> /\ ~enc.ended
  /\ ctx.bufs = 0 => wire = <<>> /\ held = <<>> /\ ~ctx.dcz_header_sent

\* A step that takes no input and gives the encoder nothing.
InputStays ==
  /\ UNCHANGED <<in, enc, up>>
  /\ ctx'.in = ctx.in /\ ctx'.buffer_in = ctx.buffer_in /\ ctx'.last = ctx.last
  /\ ctx'.action = ctx.action /\ ctx'.cctx_ready = ctx.cctx_ready

\* Steps that take no input and give the encoder nothing keep it.
LEMMA EndStays ==
  ASSUME EndInv, InputStays, ctx.bufs \in Nat, Dead => Dead', ctx'.done = ctx.done \/ Dead',
         \/ ctx'.bufs = ctx.bufs /\ ctx'.dcz_header_sent = ctx.dcz_header_sent
         \/ ctx'.bufs = ctx.bufs + 1,
         ctx.bufs = 0 => wire' = wire /\ held' = held,
         pc' = "parked" /\ ~ctx'.aborted => in = <<>>,
         pc' \in {"add", "buf", "compress", "deliver"} => ctx.cctx_ready
  PROVE  EndInv'
<1>1. ctx'.bufs = 0 => wire' = <<>> /\ held' = <<>> /\ ~ctx'.dcz_header_sent
  BY DEF EndInv
<1>2. NoMoreInput' = NoMoreInput
  BY DEF InputStays, NoMoreInput
<1>3. ctx'.done /\ ~Dead' => ctx'.last /\ NoMoreInput'
  BY <1>2 DEF EndInv, InputStays
<1> QED  BY <1>1, <1>2, <1>3 DEF EndInv, InputStays

\* A call that starts, or that has nothing to do, keeps it.
LEMMA CallsEnd ==
  ASSUME BufInv, EndInv, WriteEvent \/ IdleCall \/ NothingToDo \/ Begin
  PROVE  EndInv'
<1>1. InputStays /\ UNCHANGED <<ctx, wire, held>>
  BY DEF WriteEvent, IdleCall, NothingToDo, Begin, downVars, InputStays
<1>2. ctx.bufs \in Nat
  BY DEF BufInv, TypeInv, Ctx
<1>3. pc' = "parked" => in = <<>>
  BY DEF WriteEvent, IdleCall, NothingToDo, Begin
<1>4. pc' \in {"add", "buf", "compress", "deliver"} => ctx.cctx_ready
  BY DEF WriteEvent, IdleCall, NothingToDo, Begin
<1>5. Dead => Dead'
  BY DEF WriteEvent, IdleCall, NothingToDo, Begin, Dead
<1> QED  BY <1>1, <1>2, <1>3, <1>4, <1>5, EndStays

\* The turns of the loop that only decide where to go keep it.
LEMMA TurnsEnd ==
  ASSUME BufInv, EndInv,
         AddPending \/ AddNone \/ GetBufKeep \/ GetBufFails \/ CodecFails \/ ParkFails
  PROVE  EndInv'
<1>1. InputStays /\ UNCHANGED <<ctx, wire, held>>
  BY DEF AddPending, AddNone, GetBufKeep, GetBufFails, CodecFails, ParkFails, downVars,
     InputStays
<1>2. ctx.bufs \in Nat
  BY DEF BufInv, TypeInv, Ctx
<1>3. pc' # "parked" /\ ctx.cctx_ready
  BY DEF AddPending, AddNone, GetBufKeep, GetBufFails, CodecFails, ParkFails, EndInv
<1>4. Dead => Dead'
  BY DEF AddPending, AddNone, GetBufKeep, GetBufFails, CodecFails, ParkFails, Dead
<1> QED  BY <1>1, <1>2, <1>3, <1>4, EndStays

\* filter_get_buf() and the `failed' label keep it.
LEMMA BuffersEnd ==
  ASSUME BufInv, EndInv, GetBufFree \/ GetBufAlloc \/ GetBufNomem \/ Fail
  PROVE  EndInv'
<1>0. ctx \in Ctx
  BY DEF BufInv, TypeInv
<1>1. UNCHANGED <<in, enc, up, wire, held>>
  BY DEF GetBufFree, GetBufAlloc, GetBufNomem, Fail, downVars
<1>2. /\ ctx'.in = ctx.in /\ ctx'.buffer_in = ctx.buffer_in /\ ctx'.last = ctx.last
      /\ ctx'.action = ctx.action /\ ctx'.cctx_ready = ctx.cctx_ready
      /\ \/ ctx'.bufs = ctx.bufs /\ ctx'.dcz_header_sent = ctx.dcz_header_sent
         \/ ctx'.bufs = ctx.bufs + 1
  BY <1>0 DEF GetBufFree, GetBufAlloc, GetBufNomem, Fail, Ctx
<1>3. /\ ctx'.done = ctx.done \/ ctx'.aborted
      /\ ctx.aborted => ctx'.aborted
      /\ pc = "failed" => ctx'.aborted
  BY <1>0 DEF GetBufFree, GetBufAlloc, GetBufNomem, Fail, Ctx
<1>4. /\ pc' = "parked" => ctx'.aborted
      /\ pc' # "parked" => ctx.cctx_ready
  BY <1>0 DEF GetBufFree, GetBufAlloc, GetBufNomem, Fail, EndInv, Ctx
<1>5. ctx.bufs \in Nat
  BY <1>0 DEF Ctx
<1> QED  BY <1>1, <1>2, <1>3, <1>4, <1>5, EndStays DEF InputStays, Dead

\* An error of the next body filter keeps it.
LEMMA DownFailsEnd ==
  ASSUME BufInv, EndInv, PassFails, UNCHANGED <<ctx, in, enc, up>>,
         \/ pc = "entry" /\ ctx.done /\ pc' = "parked"
         \/ pc \in {"entry", "deliver"} /\ pc' = "failed"
  PROVE  EndInv'
<1>1. InputStays /\ UNCHANGED <<wire, held>> /\ ctx.bufs \in Nat
  BY DEF PassFails, InputStays, BufInv, TypeInv, Ctx
<1>2. Dead => Dead'
  BY DEF Dead
<1>3. pc' = "parked" => in = <<>>
  BY DEF EndInv, Dead, NoMoreInput, BufInv, ControlInv
<1> QED  BY <1>1, <1>2, <1>3, EndStays

\* The session is opened before the encoder has seen anything.
LEMMA InitCctxEnd ==
  ASSUME BufInv, EndInv, InitCctx
  PROVE  EndInv'
<1>0. ctx \in Ctx
  BY DEF BufInv, TypeInv
<1>1. UNCHANGED <<in, up, wire, held>> /\ pc' \in {"entry", "failed"} /\ ~ctx.cctx_ready
        /\ pc = "entry"
  BY DEF InitCctx, downVars, NeedsInit
<1>2. /\ ctx'.in = ctx.in /\ ctx'.last = ctx.last /\ ctx'.action = ctx.action
      /\ ctx'.done = ctx.done /\ ctx'.aborted = ctx.aborted /\ ctx'.bufs = ctx.bufs
      /\ ctx'.dcz_header_sent = ctx.dcz_header_sent
  BY <1>0 DEF InitCctx, Ctx
<1>3. enc'.acc = <<>> /\ enc'.stg = <<>> /\ ~enc'.ended
  BY <1>1 DEF InitCctx, EndInv
<1>4. NoMoreInput' = NoMoreInput
  BY <1>1, <1>2 DEF NoMoreInput
<1>5. Dead => Dead'
  BY <1>1, <1>2 DEF Dead
<1>6. ctx'.done /\ ~Dead' => ctx'.last /\ NoMoreInput'
  BY <1>2, <1>4, <1>5 DEF EndInv
<1> QED  BY <1>1, <1>2, <1>3, <1>4, <1>6 DEF EndInv

\* The upstream marks the end of the body on a link, and hands it over once.
LEMMA FeedEnd ==
  ASSUME BufInv, EndInv, NEW chain \in Chains, Feed(chain)
  PROVE  EndInv'
<1>1. /\ pc = "parked" /\ pc' = "entry" /\ ~ctx.aborted /\ ~up.eof
      /\ in' = chain /\ UNCHANGED <<ctx, enc, wire, held>>
  BY DEF Feed, downVars
<1>2. up'.eof = (\E i \in 1 .. Len(chain) : chain[i].last_buf)
  BY DEF Feed
<1>3. chain \in Seq(Link)
  BY ChainContinues DEF BufInv, TypeInv
<1>4. \A x \in Range(chain) : x.last_buf => up'.eof
  BY <1>2, <1>3, InRange DEF Ranged
<1>5. \A x \in Range(ctx.in) : ~x.last_buf
  BY <1>1 DEF EndInv
<1>6. ~ctx.last /\ ctx.action # "END" /\ ~enc.ended /\ ~ctx.done
  BY <1>1 DEF EndInv, Dead
<1> QED  BY <1>1, <1>4, <1>5, <1>6 DEF EndInv

\* The next link: the head of the chain that is read, and the rest of both.
Linked(link, rest, rest2) ==
  /\ link = IF TakeRetained THEN Head(ctx.in) ELSE Head(in)
  /\ rest = IF TakeRetained THEN Tail(ctx.in) ELSE ctx.in
  /\ rest2 = IF TakeRetained THEN in ELSE Tail(in)

\* ctx->last is set from a link that ends the body.
LEMMA AddLinkEnd ==
  ASSUME BufInv, EndInv, AddLink
  PROVE  EndInv'
<1>0. ctx \in Ctx /\ in \in Seq(Link) /\ ctx.in \in Seq(Link)
  BY DEF BufInv, TypeInv, Ctx
<1>1. PICK link, rest, rest2 : Linked(link, rest, rest2)
  BY DEF Linked
<1>2. /\ ctx'.in = rest /\ in' = rest2 /\ ctx'.last = (Signal(link) = "last")
      /\ ctx'.action = ctx.action /\ ctx'.done = ctx.done /\ ctx'.aborted = ctx.aborted
      /\ ctx'.cctx_ready = ctx.cctx_ready /\ ctx'.bufs = ctx.bufs
      /\ ctx'.dcz_header_sent = ctx.dcz_header_sent
  BY <1>0, <1>1 DEF AddLink, Linked, Ctx
<1>3. pc = "add" /\ UNCHANGED <<enc, wire, held, up>> /\ pc' # "parked" /\ ~ctx.last
  BY DEF AddLink, downVars
<1>4. link \in Range(ctx.in) \cup Range(in)
      /\ Range(rest) \cup Range(rest2) \subseteq Range(ctx.in) \cup Range(in)
  <2>1. CASE TakeRetained
    <3>1. Range(ctx.in) = {Head(ctx.in)} \cup Range(Tail(ctx.in))
      BY <1>0, <2>1, Popped DEF TakeRetained
    <3> QED  BY <1>1, <2>1, <3>1 DEF Linked
  <2>2. CASE ~TakeRetained
    <3>1. in # <<>>
      BY <2>2 DEF AddLink, TakeRetained
    <3>2. Range(in) = {Head(in)} \cup Range(Tail(in))
      BY <1>0, <3>1, Popped
    <3> QED  BY <1>1, <2>2, <3>2 DEF Linked
  <2> QED  BY <2>1, <2>2
<1>5. ctx'.last => link.last_buf
  BY <1>2 DEF Signal
<1>6. ctx'.last => up'.eof
  BY <1>3, <1>4, <1>5 DEF EndInv
<1>7. ctx.action # "END" /\ ~enc.ended /\ ~ctx.done
  BY <1>3 DEF EndInv, BufInv, ControlInv
<1> QED  BY <1>2, <1>3, <1>4, <1>6, <1>7 DEF EndInv

\* Copied links are the ones that were not read.
LEMMA ParkEnd ==
  ASSUME BufInv, EndInv, Park
  PROVE  EndInv'
<1>0. ctx \in Ctx /\ in \in Seq(Link) /\ ctx.in \in Seq(Link)
  BY DEF BufInv, TypeInv, Ctx
<1>1. PICK all \in Seq(Link) : all = ctx.in \o in /\ Range(all) = Range(ctx.in) \cup Range(in)
  BY <1>0, DistinctConcat
<1>2. /\ ctx'.in = all /\ in' = <<>> /\ ctx'.last = ctx.last
      /\ ctx'.action = ctx.action /\ ctx'.done = ctx.done /\ ctx'.aborted = ctx.aborted
      /\ ctx'.cctx_ready = ctx.cctx_ready /\ ctx'.bufs = ctx.bufs
      /\ ctx'.dcz_header_sent = ctx.dcz_header_sent
  BY <1>0, <1>1 DEF Park, Ctx
<1>3. pc = "deliver" /\ pc' = "parked" /\ UNCHANGED <<enc, wire, held, up>>
  BY DEF Park
<1>4. Range(in') = {}
  BY <1>2, NoBuffers
<1>5. NoMoreInput => NoMoreInput'
  <2>1. <<>> \in Seq(Link)
    BY EmptySeq
  <2>2. NoMoreInput => all = <<>>
    BY <1>1, <2>1, ConcatEmptySeq DEF NoMoreInput
  <2> QED  BY <1>2, <2>2 DEF NoMoreInput
<1>6. ~Dead /\ ctx.cctx_ready
  BY <1>3 DEF Dead, BufInv, ControlInv, EndInv
<1>7. ctx'.done /\ ~Dead' => ctx'.last /\ NoMoreInput'
  BY <1>2, <1>5, <1>6 DEF EndInv
<1> QED  BY <1>1, <1>2, <1>3, <1>4, <1>5, <1>6, <1>7 DEF EndInv

\* What leaves when no buffer was ever allocated is nothing.
LEMMA PassEnd ==
  ASSUME BufInv, EndInv, ~ctx.done \/ pc = "deliver", Pass(ctx.out),
         ctx' = [UpdateChains(ctx, mem', ctx.out)
                   EXCEPT !.out = <<>>, !.out_buf = NULL, !.nomem = FALSE],
         UNCHANGED <<in, enc, up>>, ctx.cctx_ready,
         pc \in {"entry", "deliver"}, pc' = IF ctx.done THEN "parked" ELSE "add"
  PROVE  EndInv'
<1>1. PICK q \in Seq(Bufs) : \E k \in 0 .. Len(q), j \in 0 .. Len(q) :
        \E busy2 \in Seq(Bufs), free2 \in Seq(Bufs) :
          Delivered(q, k, j, busy2, free2) /\ Returned(busy2, free2)
  BY PassGives
<1>2. PICK k \in 0 .. Len(q), j \in 0 .. Len(q) :
        \E busy2 \in Seq(Bufs), free2 \in Seq(Bufs) :
          Delivered(q, k, j, busy2, free2) /\ Returned(busy2, free2)
  BY <1>1
<1>3. PICK busy2 \in Seq(Bufs), free2 \in Seq(Bufs) :
        Delivered(q, k, j, busy2, free2) /\ Returned(busy2, free2)
  BY <1>2
<1>4. InputStays /\ ctx'.bufs = ctx.bufs /\ ctx'.dcz_header_sent = ctx.dcz_header_sent
      /\ ctx'.done = ctx.done /\ ctx'.aborted = ctx.aborted
  BY <1>3 DEF InputStays, Returned
<1>5. ASSUME ctx.bufs = 0 PROVE wire' = wire /\ held' = held
  <2>1. \A b \in Range(ctx.out) \cup Range(ctx.busy) : b \in Bufs /\ b <= 0
    <3>1. ctx.out \in Seq(Bufs) /\ ctx.busy \in Seq(Bufs)
      BY DEF BufInv, TypeInv, Ctx
    <3>2. \A b \in Range(ctx.out) \cup Range(ctx.busy) : b \in Bufs
      BY <3>1, InRange
    <3> QED  BY <1>5, <3>2 DEF BufInv, PlaceInv, Placed
  <2>2. Range(q) = {}
    BY <1>3, <2>1, BufsFacts DEF Delivered
  <2>3. q = <<>>
    BY <2>2, InRange, EmptySeq DEF Ranged
  <2>4. k = 0 /\ Len(q) = 0
    BY <2>3
  <2>5. SubSeq(q, 1, k) = <<>> /\ SubSeq(q, k + 1, Len(q)) = <<>>
    BY <2>4, SubSeqEmpty
  <2>6. BufData(mem, <<>>) = <<>>
    BY BufDataFacts DEF BufInv, TypeInv
  <2>7. wire' = wire \o <<>> /\ held' = <<>>
    BY <1>3, <2>5, <2>6 DEF Delivered, Leaves
  <2>8. wire \o <<>> = wire
    BY ConcatEmptySeq DEF BufInv, TypeInv
  <2>9. held = <<>>
    BY <1>5 DEF EndInv
  <2> QED  BY <2>7, <2>8, <2>9
<1>6. ctx.bufs \in Nat
  BY DEF BufInv, TypeInv, Ctx
<1>7. Dead => Dead'
  BY <1>4 DEF Dead
<1>8. pc' = "parked" => in = <<>>
  BY DEF EndInv, Dead, NoMoreInput, BufInv, ControlInv
<1> QED  BY <1>4, <1>5, <1>6, <1>7, <1>8, EndStays

\* A call after the end of the response keeps it.
LEMMA PassThroughEnd ==
  ASSUME BufInv, EndInv, PassThrough
  PROVE  EndInv'
<1>1. pc = "entry" /\ ctx.done /\ pc' = "parked" /\ UNCHANGED <<ctx, in, enc, up>>
  BY DEF PassThrough
<1>2. CASE PassFails
  BY <1>1, <1>2, DownFailsEnd
<1>3. CASE Pass(<<>>)
  <2>1. PICK q \in Seq(Bufs) : q = held
    BY DEF BufInv, TypeInv
  <2>2. q = held \o <<>>
    BY <2>1, ConcatEmptySeq, Zenon
  <2>3. PICK k \in 0 .. Len(q) : Leaves(q, k)
    <3>1. <<>> \in Seq(Bufs)
      BY EmptySeq
    <3> QED  BY <1>3, <2>2, <3>1, PassLeaves, Zenon DEF BufInv
  <2>4. ASSUME ctx.bufs = 0 PROVE wire' = wire /\ held' = held
    <3>1. q = <<>> /\ k = 0 /\ Len(q) = 0
      BY <2>1, <2>4 DEF EndInv
    <3>2. SubSeq(q, 1, k) = <<>> /\ SubSeq(q, k + 1, Len(q)) = <<>>
      BY <3>1, SubSeqEmpty
    <3>3. BufData(mem, <<>>) = <<>>
      BY BufDataFacts DEF BufInv, TypeInv
    <3>4. wire' = wire \o <<>> /\ held' = <<>>
      BY <2>3, <3>2, <3>3 DEF Leaves
    <3>5. wire \o <<>> = wire
      BY ConcatEmptySeq DEF BufInv, TypeInv
    <3> QED  BY <2>1, <3>1, <3>4, <3>5
  <2>5. InputStays /\ ctx.bufs \in Nat
    BY <1>1 DEF InputStays, BufInv, TypeInv, Ctx
  <2>6. (Dead => Dead') /\ (pc' = "parked" => in = <<>>)
    BY <1>1 DEF Dead, EndInv, NoMoreInput, BufInv, ControlInv
  <2> QED  BY <1>1, <2>4, <2>5, <2>6, EndStays
<1> QED  BY <1>2, <1>3 DEF PassThrough

\* Where the end is after a call of the encoder.
LEMMA CodedEnd ==
  ASSUME BufInv, EndInv, pc = "compress",
         NEW o \in Outcomes(Directive, ctx.buffer_in, Space(mem[ctx.out_buf])),
         enc' = EncAfter(o, Directive), UNCHANGED <<in, up, wire, held>>,
         ctx'.in = ctx.in, ctx'.last = ctx.last, ctx'.action = NextAction(o),
         ctx'.cctx_ready = ctx.cctx_ready, ctx'.bufs = ctx.bufs,
         ctx'.dcz_header_sent = ctx.dcz_header_sent, ctx'.done => Terminal(o),
         pc' \in {"add", "deliver", "failed"}
  PROVE  /\ EndInv'
         /\ Directive = "end" => ctx.last /\ NoMoreInput
         /\ enc.ended \/ o.fin => Directive = "end"
<1>1. /\ ~Dead /\ ~ctx.done /\ Zrc(o) \in Nat
      /\ Coded(Directive, ctx.buffer_in, Space(mem[ctx.out_buf]), o)
  BY CallFacts
<1>2. Directive = "end" => ctx.last /\ NoMoreInput
  BY DEF Directive, EndInv
<1>3. ctx.action = "END" => Directive = "end"
  BY DEF Directive
<1>4. NextAction(o) = "END" => ctx.last /\ NoMoreInput
  <2>1. SwitchToEnd(o) => ctx.last /\ NoMoreInput
    BY DEF SwitchToEnd
  <2>2. ctx.action = "END" => ctx.last /\ NoMoreInput
    BY DEF EndInv
  <2>3. NextAction(o) = "END" => Directive = "end" \/ SwitchToEnd(o) \/ ctx.action = "END"
    BY DEF NextAction
  <2> QED  BY <1>2, <2>1, <2>2, <2>3
<1>5. enc.ended \/ o.fin => Directive = "end"
  BY <1>1, <1>3 DEF EndInv, Coded
<1>6. enc'.ended => NextAction(o) = "END"
  <2>1. enc'.ended => (enc.ended \/ o.fin) /\ ~(Directive = "end" /\ Zrc(o) = 0)
    BY DEF EncAfter
  <2>2. Zrc(o) # 0 => Zrc(o) > 0
    BY <1>1
  <2> QED  BY <1>5, <2>1, <2>2 DEF NextAction
<1>7. Terminal(o) => ctx.last /\ NoMoreInput
  BY <1>2 DEF Terminal
<1>8. NoMoreInput' = NoMoreInput
  BY DEF NoMoreInput
<1>9. EndInv'
  BY <1>2, <1>4, <1>6, <1>7, <1>8 DEF EndInv
<1> QED  BY <1>2, <1>5, <1>9

\* What the three ways to end a call of the encoder have in common.
LEMMA CompressGives ==
  ASSUME BufInv, NEW o, Advance(o) \in Ctx, Suppress(o) \/ Emit(o) \/ EmitFails(o)
  PROVE  /\ ctx'.in = ctx.in /\ ctx'.last = ctx.last /\ ctx'.action = NextAction(o)
         /\ ctx'.cctx_ready = ctx.cctx_ready /\ ctx'.bufs = ctx.bufs
         /\ ctx'.dcz_header_sent = ctx.dcz_header_sent /\ ctx'.buffer_in = o.rest
         /\ ctx'.aborted = ctx.aborted
         /\ ctx'.done = (ctx.done \/ (Emit(o) /\ Terminal(o)))
         /\ pc' \in {"add", "deliver", "failed"}
<1>1. ctx \in Ctx
  BY DEF BufInv, TypeInv
<1>2. PICK a \in Ctx : a = Advance(o)
  OBVIOUS
<1>3. /\ a.in = ctx.in /\ a.last = ctx.last /\ a.action = NextAction(o)
      /\ a.cctx_ready = ctx.cctx_ready /\ a.bufs = ctx.bufs
      /\ a.dcz_header_sent = ctx.dcz_header_sent /\ a.buffer_in = o.rest
      /\ a.aborted = ctx.aborted /\ a.done = ctx.done
  BY <1>1, <1>2, AdvanceKeeps
<1>4. CASE Suppress(o)
  <2>1. ctx' = [a EXCEPT !.flush = FlushLeft(o)] /\ pc' = "add" /\ ~Emit(o)
    BY <1>2, <1>4 DEF Suppress, Emit
  <2> QED  BY <1>3, <2>1 DEF Ctx
<1>5. CASE Emit(o)
  <2>1. PICK d, f, n, s, b :
          ctx' = [a EXCEPT !.done = d, !.flush = f, !.bytes_out = n, !.out = s, !.out_buf = b]
                             /\ d = (a.done \/ Terminal(o))
    BY <1>2, <1>5 DEF Emit
  <2>2. pc' \in {"add", "deliver"}
    BY <1>5 DEF Emit
  <2> QED  BY <1>3, <1>5, <2>1, <2>2 DEF Ctx
<1>6. CASE EmitFails(o)
  <2>1. ctx' = a /\ pc' = "failed"
    BY <1>2, <1>6 DEF EmitFails
  <2>2. ctx'.done = ctx.done /\ ctx.done \in BOOLEAN
    BY <1>1, <1>3, <2>1 DEF Ctx
  <2>3. CASE ~ Emit(o)
    BY <1>3, <2>1, <2>2, <2>3
  <2>4. CASE Emit(o)
    BY <2>1, <2>4 DEF Emit
  <2> QED  BY <2>3, <2>4
<1> QED  BY <1>4, <1>5, <1>6

\* The action becomes END, and the response done, only behind the last link.
LEMMA CompressEnd ==
  ASSUME BufInv, EndInv, Compress
  PROVE  EndInv'
<1>1. PICK o \in Outcomes(Directive, ctx.buffer_in, Space(mem[ctx.out_buf])) :
        (Suppress(o) \/ Emit(o) \/ EmitFails(o)) /\ enc' = EncAfter(o, Directive)
  BY Zenon DEF Compress
<1>2. pc = "compress" /\ UNCHANGED <<in, up, wire, held>>
  BY DEF Compress, downVars
<1>3. Advance(o) \in Ctx /\ ~ctx.done
  BY <1>2, CallFacts
<1>4. /\ ctx'.in = ctx.in /\ ctx'.last = ctx.last /\ ctx'.action = NextAction(o)
      /\ ctx'.cctx_ready = ctx.cctx_ready /\ ctx'.bufs = ctx.bufs
      /\ ctx'.dcz_header_sent = ctx.dcz_header_sent
      /\ ctx'.done = (ctx.done \/ (Emit(o) /\ Terminal(o)))
      /\ pc' \in {"add", "deliver", "failed"}
  BY <1>1, <1>3, CompressGives
<1> QED  BY <1>1, <1>2, <1>3, <1>4, CodedEnd

-----------------------------------------------------------------------------
(* The stream: every piece keeps its place *)

\* What is in the buffer that is being filled.
Current == IF ctx.out_buf = NULL THEN <<>> ELSE mem[ctx.out_buf].data

\* The pipeline on the client's side of the encoder, and behind it.
Ahead == wire ++ (BufData(mem, held) ++ (BufData(mem, ctx.out) ++ Current))
Behind == enc.stg ++ (enc.acc ++ (ctx.buffer_in ++ (LinkData(ctx.in) ++ LinkData(in))))

\* The dcz header, once it is in a buffer, and the body.
Prefix == IF ctx.dcz_header_sent THEN <<PREFIX>> ELSE <<>>
Body == Tokens(0, up.tokens)

\* The pipeline is the frame, with or without its end.
Piped(end) == Ahead ++ Behind = Prefix ++ (Body ++ end)

\* The end of the frame was begun, or the last buffer is queued.
Ended == enc.ended \/ ctx.done

\* The pieces in flight make up the frame.  Until the filter gives up, the
\* end of the frame is among them if and only if the encoder has begun to
\* write it or the last buffer is queued.
FlowInv ==
  /\ Piped(<<>>) \/ Piped(<<EPILOGUE>>)
  /\ ~Dead => IF Ended THEN Piped(<<EPILOGUE>>) ELSE Piped(<<>>)

\* ctx->bytes_out counts what was queued.
CountInv ==
  ctx.bytes_out = Len(wire) + Len(BufData(mem, held)) + Len(BufData(mem, ctx.out))

\* The marks that are not body tokens are strings of one unit.
LEMMA Marks ==
  <<PREFIX>> \in Str /\ <<EPILOGUE>> \in Str /\ <<>> \in Str
<1>1. PREFIX \in Units /\ EPILOGUE \in Units
  BY DEF Units
<1>2. PICK p \in Units, e \in Units : p = PREFIX /\ e = EPILOGUE
  BY <1>1
<1>3. PICK S : S = Units
  OBVIOUS
<1>4. p \in S /\ e \in S
  BY <1>3
<1>5. <<p>> \in Seq(S) /\ <<e>> \in Seq(S)
  BY <1>4, Single
<1> QED  BY <1>2, <1>3, <1>5, CatEmpty DEF Str

\* The length of a joined string.
LEMMA CatLen ==
  \A a, b \in Str : Len(a) \in Nat /\ Len(a ++ b) = Len(a) + Len(b)
<1> TAKE a \in Str, b \in Str
<1>1. PICK S : S = Units
  OBVIOUS
<1> QED  BY <1>1, ConcatProperties, LenProperties DEF Str, ++

\* Everything in the pipeline is a sequence of units.
Flowing ==
  /\ wire \in Str /\ BufData(mem, held) \in Str /\ BufData(mem, ctx.out) \in Str
  /\ Current \in Str /\ enc.stg \in Str /\ enc.acc \in Str /\ ctx.buffer_in \in Str
  /\ LinkData(ctx.in) \in Str /\ LinkData(in) \in Str
  /\ Ahead \in Str /\ Behind \in Str /\ Prefix \in Str /\ Body \in Str

\* Every piece of the pipeline is a string of units.
LEMMA FlowTyped == BufInv => Flowing
<1> SUFFICES ASSUME BufInv PROVE Flowing
  OBVIOUS
<1>1. wire \in Str
  BY DEF BufInv, TypeInv, Str
<1>2. BufData(mem, held) \in Str /\ BufData(mem, ctx.out) \in Str
  <2>1. held \in Seq(Bufs) /\ ctx.out \in Seq(Bufs) /\ mem \in [Bufs -> Buf]
    BY DEF BufInv, TypeInv, Ctx
  <2> QED  BY <2>1, BufDataFacts, Zenon DEF Str
<1>3. Current \in Str
  <2>1. CASE ctx.out_buf = NULL
    BY <2>1, Marks DEF Current
  <2>2. CASE ctx.out_buf # NULL
    <3>1. PICK b \in Bufs : b = ctx.out_buf
      BY <2>2 DEF BufInv, TypeInv, Ctx
    <3>2. mem[b] \in Buf
      BY DEF BufInv, TypeInv
    <3>3. mem[b].data \in Str
      BY <3>2 DEF Buf, Str
    <3> QED  BY <2>2, <3>1, <3>3 DEF Current
  <2> QED  BY <2>1, <2>2
<1>4. enc.stg \in Str /\ enc.acc \in Seq(Toks) /\ ctx.buffer_in \in Seq(Toks)
  BY DEF BufInv, TypeInv, Enc, Ctx, Str
<1>5. LinkData(ctx.in) \in Seq(Toks) /\ LinkData(in) \in Seq(Toks)
  <2>1. ctx.in \in Seq(Link) /\ in \in Seq(Link)
    BY DEF BufInv, TypeInv, Ctx
  <2> QED  BY <2>1, LinkDataFacts, Zenon
<1>6. enc.acc \in Str /\ ctx.buffer_in \in Str /\ LinkData(ctx.in) \in Str
        /\ LinkData(in) \in Str
  BY <1>4, <1>5, TokensAreUnits DEF Str
<1>7. Ahead \in Str /\ Behind \in Str
  BY <1>1, <1>2, <1>3, <1>4, <1>6, CatTyped DEF Ahead, Behind
<1>8. Prefix \in Str
  BY Marks DEF Prefix
<1>9. Body \in Str
  <2>1. PICK n \in Nat : n = up.tokens /\ 0 + n <= MaxTokens
    BY BoundsAssumption DEF BufInv, TypeInv
  <2>2. Tokens(0, n) \in Seq(Toks)
    BY <2>1, TokensTyped
  <2>3. Tokens(0, n) \in Str
    BY <2>2, TokensAreUnits DEF Str
  <2> QED  BY <2>1, <2>3 DEF Body
<1> QED  BY <1>1, <1>2, <1>3, <1>4, <1>6, <1>7, <1>8, <1>9 DEF Flowing

\* Steps that only move the pieces.
LEMMA FlowStays ==
  ASSUME FlowInv, Ahead' = Ahead, Behind' = Behind, Prefix' = Prefix, Body' = Body,
         Dead => Dead', Ended' = Ended \/ Dead'
  PROVE  FlowInv'
<1>1. (Piped(<<>>)' <=> Piped(<<>>)) /\ (Piped(<<EPILOGUE>>)' <=> Piped(<<EPILOGUE>>))
  BY DEF Piped
<1> QED  BY <1>1 DEF FlowInv

\* The downstream moves what it sends from the queue to the wire.
LEMMA PassMoves ==
  ASSUME TypeInv, NEW chain \in Seq(Bufs), NEW q \in Seq(Bufs), q = held \o chain,
         Distinct(q),
         NEW k \in 0 .. Len(q), Leaves(q, k)
  PROVE  /\ BufData(mem', held') \in Str /\ wire' \in Str
         /\ wire' ++ BufData(mem', held')
            = wire ++ (BufData(mem, held) ++ BufData(mem, chain))
<1>0. mem \in [Bufs -> Buf] /\ held \in Seq(Bufs) /\ wire \in Str
  BY DEF TypeInv, Str
<1>1. PICK sent \in Seq(Bufs), left \in Seq(Bufs) :
        /\ sent = SubSeq(q, 1, k) /\ left = SubSeq(q, k + 1, Len(q))
        /\ Range(sent) \cap Range(left) = {}
  <2>1. CutAt(q, k, SubSeq(q, 1, k), SubSeq(q, k + 1, Len(q)))
        /\ SubSeq(q, 1, k) \in Seq(Bufs) /\ SubSeq(q, k + 1, Len(q)) \in Seq(Bufs)
    BY DistinctCut, Zenon
  <2> QED  BY <2>1, Zenon DEF CutAt
<1>2. q = sent \o left
  <2>1. 1 \in 1 .. Len(q) + 1 /\ k \in 1 - 1 .. Len(q) /\ Len(q) \in k .. Len(q)
    OBVIOUS
  <2>2. SubSeq(q, 1, k) \o SubSeq(q, k + 1, Len(q)) = SubSeq(q, 1, Len(q))
    BY <2>1, ConcatAdjacentSubSeq
  <2> QED  BY <1>1, <2>2, SubSeqFull
<1>3. wire' = wire \o BufData(mem, sent) /\ held' = left
  BY <1>1, Zenon DEF Leaves
<1>4. \A b \in Bufs : mem'[b].data = IF b \in Range(sent) THEN <<>> ELSE mem[b].data
  BY <1>1, Zenon DEF Leaves
<1>5. \A i \in 1 .. Len(left) : mem'[left[i]].data = mem[left[i]].data
  <2> TAKE i \in 1 .. Len(left)
  <2>1. left[i] \in Range(left) /\ left[i] \in Bufs
    BY InRange DEF Ranged
  <2> QED  BY <1>1, <1>4, <2>1
<1>6. BufData(mem', left) = BufData(mem, left)
  BY <1>5, BufDataSame, Zenon
<1>7. PICK s \in Str, l \in Str, h \in Str, c \in Str :
        s = BufData(mem, sent) /\ l = BufData(mem, left) /\ h = BufData(mem, held)
          /\ c = BufData(mem, chain)
  BY <1>0, BufDataFacts, Zenon DEF Str
<1>8. s \o l = h \o c
  <2>1. \A x, y \in Seq(Bufs) : BufData(mem, x \o y) = BufData(mem, x) \o BufData(mem, y)
    BY <1>0, BufDataFacts, Zenon
  <2>2. BufData(mem, sent \o left) = s \o l /\ BufData(mem, held \o chain) = h \o c
    BY <1>0, <1>7, <2>1, Zenon
  <2>3. sent \o left = held \o chain
    BY <1>2
  <2> QED  BY <2>2, <2>3, Zenon
<1>9. wire' = wire ++ s /\ s ++ l = h ++ c
  BY <1>3, <1>7, <1>8 DEF ++
<1>10. (wire ++ s) ++ l = wire ++ (s ++ l) /\ wire ++ s \in Str
  BY <1>0, CatAssoc, CatTyped
<1> QED  BY <1>3, <1>6, <1>7, <1>9, <1>10

\* Steps that leave every piece where it is.
LEMMA FlowSame ==
  ASSUME FlowInv, CountInv, UNCHANGED <<wire, held, mem, up>>,
         enc'.stg = enc.stg, enc'.acc = enc.acc,
         ctx'.out = ctx.out, ctx'.out_buf = ctx.out_buf, ctx'.buffer_in = ctx.buffer_in,
         ctx'.dcz_header_sent = ctx.dcz_header_sent, ctx'.bytes_out = ctx.bytes_out,
         in' = in, ctx'.in = ctx.in,
         Dead => Dead', Ended' = Ended \/ Dead'
  PROVE  FlowInv' /\ CountInv'
<1>1. Ahead' = Ahead
  BY DEF Ahead, Current
<1>2. Behind' = Behind
  BY DEF Behind
<1>3. Prefix' = Prefix /\ Body' = Body
  BY DEF Prefix, Body
<1>4. CountInv'
  BY DEF CountInv
<1> QED  BY <1>1, <1>2, <1>3, <1>4, FlowStays

\* A call that starts, or that has nothing to do, moves nothing.
LEMMA CallsFlow ==
  ASSUME FlowInv, CountInv, WriteEvent \/ IdleCall \/ NothingToDo \/ Begin
  PROVE  FlowInv' /\ CountInv'
<1>1. UNCHANGED <<wire, held, mem, up, enc, ctx, in>>
  BY DEF WriteEvent, IdleCall, NothingToDo, Begin, downVars
<1>2. (Dead => Dead') /\ Ended' = Ended
  BY <1>1 DEF WriteEvent, IdleCall, NothingToDo, Begin, Dead, Ended
<1> QED  BY <1>1, <1>2, FlowSame

\* The turns of the loop that only decide where to go move nothing.
LEMMA TurnsFlow ==
  ASSUME FlowInv, CountInv,
         AddPending \/ AddNone \/ GetBufKeep \/ GetBufFails \/ CodecFails \/ ParkFails
  PROVE  FlowInv' /\ CountInv'
<1>1. UNCHANGED <<wire, held, mem, up, enc, ctx, in>>
  BY DEF AddPending, AddNone, GetBufKeep, GetBufFails, CodecFails, ParkFails, downVars
<1>2. (Dead => Dead') /\ Ended' = Ended
  BY <1>1 DEF AddPending, AddNone, GetBufKeep, GetBufFails, CodecFails, ParkFails, Dead, Ended
<1> QED  BY <1>1, <1>2, FlowSame

\* An error of the next body filter takes nothing.
LEMMA DownFailsFlow ==
  ASSUME BufInv, FlowInv, CountInv, PassFails, UNCHANGED <<ctx, in, enc, up>>,
         pc \in {"entry", "deliver"}
  PROVE  FlowInv' /\ CountInv'
<1>1. UNCHANGED <<wire, held, mem, up, enc, ctx, in>>
  BY DEF PassFails
<1>2. (Dead => Dead') /\ Ended' = Ended
  BY <1>1 DEF Dead, Ended, BufInv, ControlInv
<1> QED  BY <1>1, <1>2, FlowSame

\* Giving up, and running out of buffers, leave every piece where it is.
LEMMA FailFlow ==
  ASSUME BufInv, FlowInv, CountInv, GetBufNomem \/ Fail
  PROVE  FlowInv' /\ CountInv'
<1>0. ctx \in Ctx
  BY DEF BufInv, TypeInv
<1>1. UNCHANGED <<wire, held, mem, up, enc, in>>
  BY DEF GetBufNomem, Fail, downVars
<1>2. /\ ctx'.out = ctx.out /\ ctx'.out_buf = ctx.out_buf /\ ctx'.buffer_in = ctx.buffer_in
      /\ ctx'.dcz_header_sent = ctx.dcz_header_sent /\ ctx'.bytes_out = ctx.bytes_out
      /\ ctx'.in = ctx.in
  BY <1>0 DEF GetBufNomem, Fail, Ctx
<1>3. (Dead => Dead') /\ (Ended' = Ended \/ Dead')
  BY <1>0, <1>1 DEF GetBufNomem, Fail, Ctx, Dead, Ended
<1> QED  BY <1>1, <1>2, <1>3, FlowSame

\* Opening the session resets an encoder that has seen nothing.
LEMMA InitCctxFlow ==
  ASSUME BufInv, EndInv, FlowInv, CountInv, InitCctx
  PROVE  FlowInv' /\ CountInv'
<1>0. ctx \in Ctx
  BY DEF BufInv, TypeInv
<1>1. UNCHANGED <<wire, held, mem, up, in>> /\ ~ctx.cctx_ready /\ pc = "entry"
  BY DEF InitCctx, NeedsInit, downVars
<1>2. /\ ctx'.out = ctx.out /\ ctx'.out_buf = ctx.out_buf /\ ctx'.buffer_in = ctx.buffer_in
      /\ ctx'.dcz_header_sent = ctx.dcz_header_sent /\ ctx'.bytes_out = ctx.bytes_out
      /\ ctx'.in = ctx.in /\ ctx'.done = ctx.done /\ ctx'.aborted = ctx.aborted
  BY <1>0 DEF InitCctx, Ctx
<1>3. enc.stg = <<>> /\ enc.acc = <<>> /\ ~enc.ended
  BY <1>1 DEF EndInv
<1>4. enc'.stg = enc.stg /\ enc'.acc = enc.acc /\ ~enc'.ended
  BY <1>3 DEF InitCctx
<1>5. (Dead => Dead') /\ Ended' = Ended
  BY <1>1, <1>2, <1>3, <1>4 DEF Dead, Ended
<1> QED  BY <1>1, <1>2, <1>4, <1>5, FlowSame

\* The upstream continues the body, which nothing has closed yet.
LEMMA FeedFlow ==
  ASSUME BufInv, EndInv, FlowInv, CountInv, NEW chain \in Chains, Feed(chain)
  PROVE  FlowInv' /\ CountInv'
<1>1. /\ pc = "parked" /\ pc' = "entry" /\ ~ctx.aborted /\ ~up.eof
      /\ in' = chain /\ UNCHANGED <<ctx, mem, enc, wire, held>>
      /\ up'.tokens = up.tokens + Len(LinkData(chain))
  BY DEF Feed, downVars
<1>2. ~Ended /\ ~Ended' /\ ~Dead /\ ~Dead'
  BY <1>1 DEF Ended, Dead, EndInv
<1>3. in = <<>>
  BY <1>1 DEF EndInv
<1>4. PICK n \in Nat, m \in Nat :
        /\ LinkData(chain) = Tokens(m, n) /\ Len(LinkData(chain)) = n /\ m = up.tokens
           /\ m + n <= MaxTokens
  <2>1. up.tokens \in 0 .. MaxTokens
    BY DEF BufInv, TypeInv
  <2>2. PICK n \in 0 .. MaxTokens - up.tokens :
          LinkData(chain) = Tokens(up.tokens, n) /\ Len(LinkData(chain)) = n
    BY <2>1, ChainContinues
  <2>3. up.tokens \in Nat /\ n \in Nat /\ up.tokens + n <= MaxTokens
    BY <2>1, BoundsAssumption
  <2> QED  BY <2>2, <2>3
<1>5. Body' = Body ++ LinkData(chain)
  <2>1. Tokens(0, m) \o Tokens(0 + m, n) = Tokens(0, m + n)
    <3>1. 0 \in Nat /\ 0 + (m + n) <= MaxTokens
      BY <1>4
    <3> QED  BY <3>1, TokensJoin
  <2>2. 0 + m = m
    OBVIOUS
  <2>3. up'.tokens = m + n
    BY <1>1, <1>4
  <2>4. Body' = Tokens(0, m + n) /\ Body = Tokens(0, m)
    BY <1>4, <2>3 DEF Body
  <2> QED  BY <1>4, <2>1, <2>2, <2>4 DEF ++
<1>6. Ahead' = Ahead /\ Prefix' = Prefix
  BY <1>1 DEF Ahead, Current, Prefix
<1>7. PICK s, a, b, l, c :
        /\ s = enc.stg /\ a = enc.acc /\ b = ctx.buffer_in /\ l = LinkData(ctx.in)
           /\ c = LinkData(chain)
        /\ s \in Str /\ a \in Str /\ b \in Str /\ l \in Str /\ c \in Str
        /\ Ahead \in Str /\ Behind \in Str /\ Prefix \in Str /\ Body \in Str
  <2>1. chain \in Seq(Link)
    BY ChainContinues DEF BufInv, TypeInv
  <2>2. LinkData(chain) \in Seq(Toks)
    BY <2>1, LinkDataFacts, Zenon
  <2>3. LinkData(chain) \in Str
    BY <2>2, TokensAreUnits DEF Str
  <2> QED  BY <2>3, FlowTyped DEF Flowing
<1>8. Behind = s ++ (a ++ (b ++ (l ++ <<>>))) /\ Behind' = s ++ (a ++ (b ++ (l ++ c)))
  BY <1>1, <1>3, <1>7, LinkDataFacts DEF Behind
<1>9. Behind' = Behind ++ c
  <2>1. l ++ <<>> = l
    BY <1>7, CatEmpty
  <2>2. PICK x \in Str, y \in Str : x = b ++ l /\ y = a ++ x
    BY <1>7, CatTyped
  <2>3. x ++ c = b ++ (l ++ c) /\ y ++ c = a ++ (x ++ c) /\ (s ++ y) ++ c = s ++ (y ++ c)
    BY <1>7, <2>2, CatAssoc
  <2> QED  BY <1>8, <2>1, <2>2, <2>3
<1>10. Ahead ++ Behind = Prefix ++ Body
  BY <1>2, <1>7, CatEmpty DEF FlowInv, Piped
<1>11. Ahead ++ (Behind ++ c) = Prefix ++ (Body ++ c)
  BY <1>7, <1>10, CatAssoc, CatTyped
<1>12. Piped(<<>>)'
  <2>1. Body ++ c \in Str
    BY <1>7, CatTyped
  <2>2. (Body ++ c) ++ <<>> = Body ++ c
    BY <2>1, CatEmpty
  <2> QED  BY <1>5, <1>6, <1>7, <1>9, <1>11, <2>2 DEF Piped
<1>13. FlowInv'
  BY <1>2, <1>12 DEF FlowInv
<1>14. CountInv'
  BY <1>1 DEF CountInv
<1> QED  BY <1>13, <1>14

\* A link is split off a chain.
LEMMA LinkSplit ==
  ASSUME NEW s \in Seq(Link), s # <<>>
  PROVE  /\ Head(s).data \in Str /\ LinkData(Tail(s)) \in Str
         /\ LinkData(s) = Head(s).data ++ LinkData(Tail(s))
<1>1. PICK L : L = Link
  OBVIOUS
<1>2. PICK x \in Link, t \in Seq(Link) : x = Head(s) /\ t = Tail(s)
  BY <1>1, Popped
<1>3. s = <<x>> \o t /\ <<x>> \in Seq(Link)
  <2>1. s \in Seq(L) /\ x \in L /\ t \in Seq(L)
    BY <1>1
  <2>2. s = <<x>> \o t
    BY <1>2, <2>1
  <2> QED  BY <1>1, <2>1, <2>2, Single
<1>4. LinkData(<<x>> \o t) = LinkData(<<x>>) \o LinkData(t) /\ LinkData(<<x>>) = x.data
  BY <1>3, LinkDataFacts, Zenon
<1>5. x.data \in Seq(Toks) /\ LinkData(t) \in Seq(Toks)
  <2>1. x.data \in Seq(Toks)
    BY DEF Link, Toks
  <2>2. LinkData(t) \in Seq(Toks)
    BY LinkDataFacts, Zenon
  <2> QED  BY <2>1, <2>2
<1>6. x.data \in Str /\ LinkData(t) \in Str
  BY <1>5, TokensAreUnits DEF Str
<1>7. LinkData(s) = x.data \o LinkData(t)
  BY <1>3, <1>4, Zenon
<1> QED  BY <1>2, <1>6, <1>7 DEF ++

\* A link's tokens become the pending input.
LEMMA AddLinkFlow ==
  ASSUME BufInv, EndInv, FlowInv, CountInv, AddLink
  PROVE  FlowInv' /\ CountInv'
<1>0. ctx \in Ctx /\ ctx.in \in Seq(Link) /\ in \in Seq(Link)
  BY DEF BufInv, TypeInv, Ctx
<1>1. PICK link, rest, rest2 : Linked(link, rest, rest2)
  BY DEF Linked
<1>2. /\ pc = "add" /\ ctx.buffer_in = <<>>
      /\ ctx.in # <<>> \/ in # <<>>
      /\ UNCHANGED <<wire, held, mem, up, enc>>
      /\ ctx' = [ctx EXCEPT !.in = rest,
                            !.last = Signal(link) = "last",
                            !.flush = Signal(link) = "flush",
                            !.buffer_in = link.data,
                            !.bytes_in = ctx.bytes_in + Len(link.data)]
      /\ in' = rest2
      /\ pc' \in {"add", "failed", "buf"}
  BY <1>1 DEF AddLink, Linked, downVars
<1>3. /\ ctx'.out = ctx.out /\ ctx'.out_buf = ctx.out_buf /\ ctx'.buffer_in = link.data
      /\ ctx'.dcz_header_sent = ctx.dcz_header_sent /\ ctx'.bytes_out = ctx.bytes_out
      /\ ctx'.in = rest /\ ctx'.done = ctx.done /\ ctx'.aborted = ctx.aborted
  BY <1>0, <1>2 DEF Ctx
<1>4. Flowing
  BY FlowTyped
<1>5. link.data ++ (LinkData(rest) ++ LinkData(rest2))
        = <<>> ++ (LinkData(ctx.in) ++ LinkData(in))
  <2>0. LinkData(ctx.in) \in Str /\ LinkData(in) \in Str
    BY <1>4 DEF Flowing
  <2>1. <<>> ++ (LinkData(ctx.in) ++ LinkData(in)) = LinkData(ctx.in) ++ LinkData(in)
    BY <2>0, CatTyped, CatEmpty
  <2>2. CASE TakeRetained
    <3>1. ctx.in # <<>> /\ link = Head(ctx.in) /\ rest = Tail(ctx.in) /\ rest2 = in
      BY <1>1, <2>2 DEF Linked, TakeRetained
    <3>2. /\ link.data \in Str /\ LinkData(rest) \in Str
          /\ LinkData(ctx.in) = link.data ++ LinkData(rest)
      BY <1>0, <3>1, LinkSplit
    <3>3. (link.data ++ LinkData(rest)) ++ LinkData(in)
            = link.data ++ (LinkData(rest) ++ LinkData(in))
      BY <2>0, <3>2, CatAssoc
    <3> QED  BY <2>1, <3>1, <3>2, <3>3
  <2>3. CASE ~TakeRetained
    <3>1. ctx.in = <<>> /\ in # <<>> /\ link = Head(in) /\ rest = <<>> /\ rest2 = Tail(in)
      BY <1>1, <1>2, <2>3 DEF Linked, TakeRetained
    <3>2. /\ link.data \in Str /\ LinkData(rest2) \in Str
          /\ LinkData(in) = link.data ++ LinkData(rest2)
      BY <1>0, <3>1, LinkSplit
    <3>3. LinkData(<<>>) = <<>>
      BY LinkDataFacts
    <3>4. <<>> ++ LinkData(rest2) = LinkData(rest2) /\ <<>> ++ LinkData(in) = LinkData(in)
      BY <2>0, <3>2, CatEmpty
    <3> QED  BY <2>1, <3>1, <3>2, <3>3, <3>4
  <2> QED  BY <2>2, <2>3
<1>6. Behind' = Behind
  BY <1>2, <1>3, <1>5 DEF Behind
<1>7. Ahead' = Ahead /\ Prefix' = Prefix /\ Body' = Body
  BY <1>2, <1>3 DEF Ahead, Current, Prefix, Body
<1>8. (Dead => Dead') /\ Ended' = Ended
  BY <1>2, <1>3 DEF Dead, Ended, BufInv, ControlInv
<1>9. CountInv'
  BY <1>2, <1>3 DEF CountInv
<1> QED  BY <1>6, <1>7, <1>8, <1>9, FlowStays

\* The unread links move to the filter's own chain.
LEMMA ParkFlow ==
  ASSUME BufInv, EndInv, FlowInv, CountInv, Park
  PROVE  FlowInv' /\ CountInv'
<1>0. ctx \in Ctx /\ ctx.in \in Seq(Link) /\ in \in Seq(Link)
  BY DEF BufInv, TypeInv, Ctx
<1>1. /\ pc = "deliver" /\ pc' = "parked"
      /\ UNCHANGED <<wire, held, mem, up, enc>>
      /\ ctx' = [ctx EXCEPT !.in = ctx.in \o in] /\ in' = <<>>
  BY DEF Park
<1>2. /\ ctx'.out = ctx.out /\ ctx'.out_buf = ctx.out_buf /\ ctx'.buffer_in = ctx.buffer_in
      /\ ctx'.dcz_header_sent = ctx.dcz_header_sent /\ ctx'.bytes_out = ctx.bytes_out
      /\ ctx'.in = ctx.in \o in /\ ctx'.done = ctx.done /\ ctx'.aborted = ctx.aborted
  BY <1>0, <1>1 DEF Ctx
<1>3. LinkData(ctx.in \o in) ++ LinkData(<<>>) = LinkData(ctx.in) ++ LinkData(in)
  <2>0. LinkData(ctx.in) \in Str /\ LinkData(in) \in Str
    BY FlowTyped DEF Flowing
  <2>1. LinkData(ctx.in \o in) = LinkData(ctx.in) \o LinkData(in) /\ LinkData(<<>>) = <<>>
    BY <1>0, LinkDataFacts, Zenon
  <2>2. (LinkData(ctx.in) ++ LinkData(in)) ++ <<>> = LinkData(ctx.in) ++ LinkData(in)
    BY <2>0, CatTyped, CatEmpty
  <2> QED  BY <2>1, <2>2 DEF ++
<1>4. Behind' = Behind
  BY <1>1, <1>2, <1>3 DEF Behind
<1>5. Ahead' = Ahead /\ Prefix' = Prefix /\ Body' = Body
  BY <1>1, <1>2 DEF Ahead, Current, Prefix, Body
<1>6. (Dead => Dead') /\ Ended' = Ended
  BY <1>1, <1>2 DEF Dead, Ended
<1>7. CountInv'
  BY <1>1, <1>2 DEF CountInv
<1> QED  BY <1>4, <1>5, <1>6, <1>7, FlowStays

\* Chains of buffers whose data a step leaves alone.
LEMMA DataStays ==
  ASSUME TypeInv, NEW chain \in Seq(Bufs),
         \A b \in Range(chain) : mem'[b].data = mem[b].data
  PROVE  BufData(mem', chain) = BufData(mem, chain)
<1>1. \A i \in 1 .. Len(chain) : mem'[chain[i]].data = mem[chain[i]].data
  <2> TAKE i \in 1 .. Len(chain)
  <2>1. chain[i] \in Range(chain)
    BY InRange DEF Ranged
  <2> QED  BY <2>1
<1> QED  BY <1>1, BufDataSame, Zenon

\* filter_get_buf() asks for another buffer only when none is current.
LEMMA NoneCurrent ==
  ASSUME BufInv, pc = "buf", NeedBuf
  PROVE  ctx.out_buf = NULL /\ Current = <<>> /\ ~Dead /\ ~ctx.done /\ held = ctx.busy
<1>1. ~Dead /\ ~ctx.done
  BY DEF BufInv, ControlInv, Dead
<1>2. ctx.out_buf = NULL
  <2>1. SUFFICES ASSUME ctx.out_buf # NULL PROVE FALSE
    OBVIOUS
  <2>2. Space(mem[ctx.out_buf]) = 0
    BY <2>1 DEF NeedBuf
  <2>3. Space(mem[ctx.out_buf]) > 0
    BY <1>1, <2>1, RoomLeft
  <2> QED  BY <2>2, <2>3
<1>3. held = ctx.busy
  BY <1>1 DEF BufInv, HeldInv
<1> QED  BY <1>1, <1>2, <1>3 DEF Current

\* A recycled buffer is empty.
LEMMA GetBufFreeFlow ==
  ASSUME BufInv, EndInv, FlowInv, CountInv, GetBufFree
  PROVE  FlowInv' /\ CountInv'
<1>0. ctx \in Ctx /\ mem \in [Bufs -> Buf] /\ ctx.out \in Seq(Bufs) /\ held \in Seq(Bufs)
        /\ ctx.free \in Seq(Bufs)
  BY DEF BufInv, TypeInv, Ctx
<1>1. /\ pc = "buf" /\ NeedBuf /\ ctx.free # <<>> /\ pc' = "compress"
      /\ ctx' = [ctx EXCEPT !.free = Tail(ctx.free), !.out_buf = Head(ctx.free)]
      /\ mem' = [mem EXCEPT ![Head(ctx.free)] = ClearFlags(mem[Head(ctx.free)])]
      /\ UNCHANGED <<in, enc, up, wire, held>>
  BY DEF GetBufFree, downVars
<1>2. ctx.out_buf = NULL /\ Current = <<>> /\ ~Dead
  BY <1>1, NoneCurrent
<1>3. /\ ctx'.out = ctx.out /\ ctx'.out_buf = Head(ctx.free) /\ ctx'.buffer_in = ctx.buffer_in
      /\ ctx'.dcz_header_sent = ctx.dcz_header_sent /\ ctx'.bytes_out = ctx.bytes_out
      /\ ctx'.in = ctx.in /\ ctx'.done = ctx.done /\ ctx'.aborted = ctx.aborted
  BY <1>0, <1>1 DEF Ctx
<1>4. PICK h \in Bufs : h = Head(ctx.free) /\ h \in Range(ctx.free)
  <2>1. Head(ctx.free) \in Bufs /\ Head(ctx.free) \in Range(ctx.free)
    BY <1>0, <1>1, Popped
  <2> QED  BY <2>1
<1>5. mem[h].data = <<>> /\ ClearFlags(mem[h]).data = mem[h].data
  <2>1. mem[h] \in Buf
    BY <1>0
  <2>2. ClearFlags(mem[h]).data = mem[h].data
    BY <2>1 DEF ClearFlags, Buf
  <2> QED  BY <1>4, <2>2 DEF BufInv, DataInv
<1>6. \A b \in Bufs : mem'[b].data = mem[b].data
  BY <1>0, <1>1, <1>4, <1>5
<1>7. BufData(mem', held) = BufData(mem, held)
        /\ BufData(mem', ctx.out) = BufData(mem, ctx.out)
  <2>1. (\A b \in Range(held) : b \in Bufs) /\ (\A b \in Range(ctx.out) : b \in Bufs)
    BY <1>0, InRange
  <2>2. TypeInv
    BY DEF BufInv
  <2> QED  BY <1>0, <1>6, <2>1, <2>2, DataStays
<1>8. Current' = <<>>
  BY <1>3, <1>4, <1>5, <1>6, BufsFacts DEF Current
<1>9. Ahead' = Ahead
  BY <1>1, <1>2, <1>3, <1>7, <1>8 DEF Ahead
<1>10. Behind' = Behind /\ Prefix' = Prefix /\ Body' = Body
  BY <1>1, <1>3 DEF Behind, Prefix, Body
<1>11. (Dead => Dead') /\ Ended' = Ended
  BY <1>1, <1>2, <1>3 DEF Dead, Ended
<1>12. CountInv'
  BY <1>1, <1>3, <1>7 DEF CountInv
<1> QED  BY <1>9, <1>10, <1>11, <1>12, FlowStays

\* A new buffer is empty but for the dcz header, which precedes everything.
LEMMA GetBufAllocFlow ==
  ASSUME BufInv, EndInv, FlowInv, CountInv, GetBufAlloc
  PROVE  FlowInv' /\ CountInv'
<1>0. /\ ctx \in Ctx /\ mem \in [Bufs -> Buf] /\ ctx.out \in Seq(Bufs) /\ held \in Seq(Bufs)
      /\ ctx.busy \in Seq(Bufs) /\ TypeInv
  BY DEF BufInv, TypeInv, Ctx
<1>1. PICK b, prefix, size :
      /\ b = ctx.bufs + 1 /\ prefix = (ctx.bufs = 0 /\ conf.dcz /\ ~ctx.dcz_header_sent)
      /\ ctx' = [ctx EXCEPT !.out_buf = b, !.bufs = b,
         !.dcz_header_sent = ctx.dcz_header_sent \/ prefix]
      /\ mem' = [mem EXCEPT ![b] = NewBuf(size, IF prefix THEN <<PREFIX>> ELSE <<>>)]
  BY DEF GetBufAlloc
<1>2. pc = "buf" /\ NeedBuf /\ MayAlloc /\ pc' = "compress"
        /\ UNCHANGED <<in, enc, up, wire, held>>
  BY DEF GetBufAlloc, downVars
<1>3. ctx.out_buf = NULL /\ Current = <<>> /\ ~Dead /\ held = ctx.busy
  BY <1>2, NoneCurrent
<1>4. /\ ctx'.out = ctx.out /\ ctx'.out_buf = b /\ ctx'.buffer_in = ctx.buffer_in
      /\ ctx'.dcz_header_sent = (ctx.dcz_header_sent \/ prefix)
         /\ ctx'.bytes_out = ctx.bytes_out
      /\ ctx'.in = ctx.in /\ ctx'.done = ctx.done /\ ctx'.aborted = ctx.aborted
  BY <1>0, <1>1 DEF Ctx
<1>5. b \in Bufs /\ b \notin Range(ctx.out) /\ b \notin Range(ctx.busy)
  <2>1. ctx.bufs \in Nat /\ ctx.bufs < conf.num /\ conf.num \in Bufs
    BY <1>2 DEF BufInv, TypeInv, Ctx, MayAlloc
  <2>2. b \in Bufs
    <3>1. conf.num \in Nat /\ conf.num <= MaxBufs /\ MaxBufs \in Nat
      BY <2>1, BoundsAssumption DEF Bufs
    <3> QED  BY <1>1, <2>1, <3>1 DEF Bufs
  <2>3. ~(b <= ctx.bufs)
    BY <1>1, <2>1
  <2> QED  BY <2>2, <2>3 DEF BufInv, PlaceInv, Placed
<1>6. \A x \in Bufs : x # b => mem'[x] = mem[x]
  BY <1>0, <1>1
<1>7. BufData(mem', held) = BufData(mem, held)
        /\ BufData(mem', ctx.out) = BufData(mem, ctx.out)
  <2>1. (\A x \in Range(held) : x \in Bufs) /\ (\A x \in Range(ctx.out) : x \in Bufs)
    BY <1>0, InRange
  <2>2. /\ \A x \in Range(held) : mem'[x].data = mem[x].data
        /\ \A x \in Range(ctx.out) : mem'[x].data = mem[x].data
    BY <1>3, <1>5, <1>6, <2>1
  <2> QED  BY <1>0, <2>2, DataStays
<1>8. Current' = IF prefix THEN <<PREFIX>> ELSE <<>>
  <2>1. mem'[b] = NewBuf(size, IF prefix THEN <<PREFIX>> ELSE <<>>)
    BY <1>0, <1>1, <1>5
  <2>2. b # NULL
    BY <1>5, BufsFacts
  <2> QED  BY <1>4, <2>1, <2>2 DEF Current, NewBuf
<1>9. Behind' = Behind /\ Body' = Body
  BY <1>2, <1>4 DEF Behind, Body
<1>10. (Dead => Dead') /\ Ended' = Ended
  BY <1>2, <1>3, <1>4 DEF Dead, Ended
<1>11. CountInv'
  BY <1>2, <1>4, <1>7 DEF CountInv
<1>12. CASE ~prefix
  <2>1. Ahead' = Ahead
    BY <1>2, <1>3, <1>4, <1>7, <1>8, <1>12 DEF Ahead
  <2>2. Prefix' = Prefix
    <3>1. ctx.dcz_header_sent \in BOOLEAN
      BY <1>0 DEF Ctx
    <3> QED  BY <1>4, <1>12, <3>1 DEF Prefix
  <2> QED  BY <1>9, <1>10, <1>11, <2>1, <2>2, FlowStays
<1>13. CASE prefix
  <2>1. ctx.bufs = 0 /\ ~ctx.dcz_header_sent /\ wire = <<>> /\ held = <<>>
    BY <1>1, <1>13 DEF EndInv
  <2>2. ctx.out = <<>>
    <3>1. \A x \in Range(ctx.out) : x \in Bufs /\ x <= 0
      BY <1>0, <2>1, InRange DEF BufInv, PlaceInv, Placed
    <3>2. \A x \in Range(ctx.out) : FALSE
      BY <3>1, BoundsAssumption DEF Bufs
    <3>3. \A i \in 1 .. Len(ctx.out) : ctx.out[i] \in Range(ctx.out)
      BY <1>0, InRange DEF Ranged
    <3>4. Len(ctx.out) = 0
      <4>1. Len(ctx.out) \in Nat
        BY <1>0, LenProperties
      <4>2. Len(ctx.out) # 0 => 1 \in 1 .. Len(ctx.out)
        BY <4>1
      <4> QED  BY <3>2, <3>3, <4>2
    <3> QED  BY <1>0, <3>4, EmptySeq
  <2>3. BufData(mem, <<>>) = <<>>
    BY <1>0, BufDataFacts, Zenon
  <2>4. PICK p \in Str, e \in Str : p = <<PREFIX>> /\ e = <<>>
    BY Marks
  <2>5. e ++ (e ++ (e ++ p)) = p /\ e ++ (e ++ (e ++ e)) = e
    BY <2>4, CatEmpty
  <2>6. Ahead = e
    BY <1>3, <2>1, <2>2, <2>3, <2>4, <2>5 DEF Ahead
  <2>7. Ahead' = p
    BY <1>2, <1>4, <1>7, <1>8, <1>13, <2>1, <2>2, <2>3, <2>4, <2>5 DEF Ahead
  <2>8. Prefix = e /\ Prefix' = p
    BY <1>4, <1>13, <2>1, <2>4 DEF Prefix
  <2>9. Flowing
    BY FlowTyped
  <2>10. \A x \in Str : Piped(x) => Piped(x)'
    <3> TAKE x \in Str
    <3>1. Body ++ x \in Str /\ Behind \in Str
      BY <2>9, CatTyped DEF Flowing
    <3>2. e ++ Behind = Behind /\ e ++ (Body ++ x) = Body ++ x
      BY <2>4, <3>1, CatEmpty
    <3> QED  BY <1>9, <2>6, <2>7, <2>8, <3>2 DEF Piped
  <2>11. (Piped(<<>>) => Piped(<<>>)') /\ (Piped(<<EPILOGUE>>) => Piped(<<EPILOGUE>>)')
    BY <2>10, Marks
  <2> QED  BY <1>10, <1>11, <2>11 DEF FlowInv
<1>14. prefix \in BOOLEAN
  BY <1>1
<1> QED  BY <1>12, <1>13, <1>14

\* What leaves through the socket keeps its place in the stream.
LEMMA PassFlow ==
  ASSUME BufInv, FlowInv, CountInv, ~ctx.done \/ pc = "deliver", Pass(ctx.out),
         ctx' = [UpdateChains(ctx, mem', ctx.out)
                   EXCEPT !.out = <<>>, !.out_buf = NULL, !.nomem = FALSE],
         UNCHANGED <<in, enc, up>>, Current = <<>>, ~Dead, pc' # "failed"
  PROVE  FlowInv' /\ CountInv'
<1>0. TypeInv /\ ctx.out \in Seq(Bufs) /\ held \in Seq(Bufs) /\ Flowing
  BY FlowTyped DEF BufInv, TypeInv, Ctx
<1>1. PICK q \in Seq(Bufs) : \E k \in 0 .. Len(q), j \in 0 .. Len(q) :
        \E busy2 \in Seq(Bufs), free2 \in Seq(Bufs) :
          Delivered(q, k, j, busy2, free2) /\ Returned(busy2, free2)
  BY PassGives
<1>2. PICK k \in 0 .. Len(q), j \in 0 .. Len(q) :
        \E busy2 \in Seq(Bufs), free2 \in Seq(Bufs) :
          Delivered(q, k, j, busy2, free2) /\ Returned(busy2, free2)
  BY <1>1
<1>3. PICK busy2 \in Seq(Bufs), free2 \in Seq(Bufs) :
        Delivered(q, k, j, busy2, free2) /\ Returned(busy2, free2)
  BY <1>2
<1>4. q = held \o ctx.out /\ Distinct(q) /\ Leaves(q, k)
  BY <1>3 DEF Delivered
<1>5. /\ BufData(mem', held') \in Str /\ wire' \in Str
      /\ wire' ++ BufData(mem', held') = wire ++ (BufData(mem, held) ++ BufData(mem, ctx.out))
  BY <1>0, <1>4, PassMoves
<1>6. /\ ctx'.out = <<>> /\ ctx'.out_buf = NULL /\ ctx'.buffer_in = ctx.buffer_in
      /\ ctx'.dcz_header_sent = ctx.dcz_header_sent /\ ctx'.bytes_out = ctx.bytes_out
      /\ ctx'.in = ctx.in /\ ctx'.done = ctx.done /\ ctx'.aborted = ctx.aborted
  BY <1>3 DEF Returned
<1>7. BufData(mem', ctx'.out) = <<>>
  <2>1. mem' \in [Bufs -> Buf]
    BY <1>4 DEF Leaves
  <2>2. BufData(mem', <<>>) = <<>>
    BY <2>1, BufDataFacts, Zenon
  <2> QED  BY <1>6, <2>2
<1>8. PICK w, h, o, v, g, e :
        /\ w = wire /\ h = BufData(mem, held) /\ o = BufData(mem, ctx.out)
        /\ v = wire' /\ g = BufData(mem', held') /\ e = <<>>
        /\ w \in Str /\ h \in Str /\ o \in Str /\ v \in Str /\ g \in Str /\ e \in Str
  BY <1>0, <1>5, Marks DEF Flowing
<1>9. v ++ g = w ++ (h ++ o)
  BY <1>5, <1>8
<1>10. Ahead' = Ahead
  <2>1. Ahead = w ++ (h ++ (o ++ e)) /\ Ahead' = v ++ (g ++ (e ++ e))
    BY <1>6, <1>7, <1>8 DEF Ahead, Current
  <2>2. o ++ e = o /\ e ++ e = e /\ g ++ e = g
    BY <1>8, CatEmpty
  <2> QED  BY <1>9, <2>1, <2>2
<1>11. Behind' = Behind /\ Prefix' = Prefix /\ Body' = Body
  BY <1>6 DEF Behind, Prefix, Body
<1>12. (Dead => Dead') /\ Ended' = Ended
  BY <1>6 DEF Dead, Ended
<1>13. CountInv'
  <2>1. h ++ o \in Str
    BY <1>8, CatTyped
  <2>2. /\ Len(v ++ g) = Len(v) + Len(g) /\ Len(w ++ (h ++ o)) = Len(w) + Len(h ++ o)
        /\ Len(h ++ o) = Len(h) + Len(o)
        /\ Len(w) \in Nat /\ Len(h) \in Nat /\ Len(o) \in Nat /\ Len(v) \in Nat
           /\ Len(g) \in Nat
    BY <1>8, <2>1, CatLen
  <2>3. Len(v) + Len(g) = Len(w) + Len(h) + Len(o)
    BY <1>9, <2>2
  <2>4. Len(<<>>) = 0
    OBVIOUS
  <2>5. ctx'.bytes_out = Len(w) + Len(h) + Len(o)
    BY <1>6, <1>8 DEF CountInv
  <2>6. ctx'.bytes_out = Len(v) + Len(g) + 0
    BY <2>2, <2>3, <2>5
  <2> QED  BY <1>7, <1>8, <2>4, <2>6 DEF CountInv
<1> QED  BY <1>10, <1>11, <1>12, <1>13, FlowStays

\* Delivery finds an empty current buffer, so forgetting it loses nothing.
LEMMA DeliverFlow ==
  ASSUME BufInv, FlowInv, CountInv, Deliver \/ DeliverFails
  PROVE  FlowInv' /\ CountInv'
<1>1. CASE Deliver
  <2>1. pc = "deliver" /\ Pass(ctx.out) /\ UNCHANGED <<in, enc, up>>
    BY <1>1 DEF Deliver
  <2>2. ctx' = [UpdateChains(ctx, mem', ctx.out)
                  EXCEPT !.out = <<>>, !.out_buf = NULL, !.nomem = FALSE]
    BY <1>1 DEF Deliver
  <2>3. ~Dead /\ pc' # "failed"
    BY <1>1, <2>1 DEF Dead, BufInv, ControlInv, Deliver
  <2>4. Current = <<>>
    BY <2>1, <2>3 DEF Current, BufInv, DataInv
  <2> QED  BY <2>1, <2>2, <2>3, <2>4, PassFlow
<1>2. CASE DeliverFails
  BY <1>2, DownFailsFlow DEF DeliverFails
<1> QED  BY <1>1, <1>2

\* A call that starts short of buffers has no current one to lose.
LEMMA BeginNomemFlow ==
  ASSUME BufInv, FlowInv, CountInv, BeginNomem
  PROVE  FlowInv' /\ CountInv'
<1>1. /\ pc = "entry" /\ ~ctx.done /\ ctx.nomem /\ UNCHANGED <<in, enc, up>>
  BY DEF BeginNomem
<1>2. ~Dead /\ ctx.out = <<>> /\ Current = <<>>
  BY <1>1 DEF Dead, BufInv, ControlInv, Current
<1>3. CASE /\ Pass(<<>>)
           /\ ctx' = [UpdateChains(ctx, mem', <<>>) EXCEPT !.out_buf = NULL, !.nomem = FALSE]
           /\ pc' = "add"
  <2>1. /\ Pass(ctx.out)
        /\ ctx' = [UpdateChains(ctx, mem', ctx.out)
                     EXCEPT !.out = <<>>, !.out_buf = NULL, !.nomem = FALSE]
    BY <1>2, <1>3, NomemPasses
  <2> QED  BY <1>1, <1>2, <1>3, <2>1, PassFlow
<1>4. CASE PassFails /\ UNCHANGED ctx
  BY <1>1, <1>4, DownFailsFlow
<1> QED  BY <1>3, <1>4 DEF BeginNomem

\* A finished response sends what is left downstream.
LEMMA PassThroughFlow ==
  ASSUME BufInv, FlowInv, CountInv, PassThrough
  PROVE  FlowInv' /\ CountInv'
<1>0. TypeInv /\ ctx.out \in Seq(Bufs) /\ held \in Seq(Bufs) /\ <<>> \in Seq(Bufs) /\ Flowing
  BY FlowTyped DEF BufInv, TypeInv, Ctx
<1>1. pc = "entry" /\ pc' = "parked" /\ ctx.done /\ UNCHANGED <<ctx, in, enc, up>>
        /\ ~ctx.aborted
  BY DEF PassThrough, BufInv, ControlInv
<1>2. CASE PassFails
  BY <1>1, <1>2, DownFailsFlow
<1>3. CASE Pass(<<>>)
  <2>1. PICK q \in Seq(Bufs) : q = held \o <<>> /\ q = held
    BY <1>0
  <2>2. PICK k \in 0 .. Len(q) : Leaves(q, k)
    BY <1>0, <1>3, <2>1, PassLeaves
  <2>3. Distinct(q)
    BY <2>1 DEF BufInv, HeldInv
  <2>4. /\ BufData(mem', held') \in Str /\ wire' \in Str
        /\ wire' ++ BufData(mem', held') = wire ++ (BufData(mem, held) ++ BufData(mem, <<>>))
    BY <1>0, <2>1, <2>2, <2>3, PassMoves
  <2>5. ctx.out = <<>>
    BY <1>1 DEF BufInv, ControlInv
  <2>6. BufData(mem', <<>>) = <<>> /\ BufData(mem, <<>>) = <<>>
    <3>1. mem' \in [Bufs -> Buf] /\ mem \in [Bufs -> Buf]
      BY <1>0, <2>2 DEF Leaves, TypeInv
    <3> QED  BY <3>1, BufDataFacts, Zenon
  <2>7. Current' = Current
    <3>1. CASE ctx.out_buf = NULL
      BY <1>1, <3>1 DEF Current
    <3>2. CASE ctx.out_buf # NULL
      <4>1. PICK b \in Bufs : b = ctx.out_buf
        BY <1>0, <3>2 DEF TypeInv, Ctx
      <4>2. PICK s : s = Range(SubSeq(q, 1, k))
        OBVIOUS
      <4>3. mem'[b].data = IF b \in s THEN <<>> ELSE mem[b].data
        BY <2>2, <4>2 DEF Leaves
      <4>4. b \in s => b \in Range(held)
        BY <2>1, <2>3, <4>2, DistinctCut DEF CutAt
      <4>5. b \in Range(held) => mem[b].data = <<>>
        BY <4>1 DEF BufInv, HeldInv, PlaceInv, Placed
      <4> QED  BY <1>1, <3>2, <4>1, <4>3, <4>4, <4>5 DEF Current
    <3> QED  BY <3>1, <3>2
  <2>8. PICK w, h, v, g, e, c :
        /\ w = wire /\ h = BufData(mem, held) /\ c = Current
        /\ v = wire' /\ g = BufData(mem', held') /\ e = <<>>
        /\ w \in Str /\ h \in Str /\ c \in Str /\ v \in Str /\ g \in Str /\ e \in Str
    BY <1>0, <2>4, Marks DEF Flowing
  <2>9. v ++ g = w ++ h
    <3>1. h ++ e = h
      BY <2>8, CatEmpty
    <3> QED  BY <2>4, <2>6, <2>8, <3>1
  <2>10. Ahead' = Ahead
    <3>1. Ahead = w ++ (h ++ (e ++ c)) /\ Ahead' = v ++ (g ++ (e ++ c))
      BY <1>1, <2>5, <2>6, <2>7, <2>8 DEF Ahead
    <3>2. e ++ c = c
      BY <2>8, CatEmpty
    <3>3. (v ++ g) ++ c = v ++ (g ++ c) /\ (w ++ h) ++ c = w ++ (h ++ c)
      BY <2>8, CatAssoc
    <3> QED  BY <2>9, <3>1, <3>2, <3>3
  <2>11. Behind' = Behind /\ Prefix' = Prefix /\ Body' = Body
    BY <1>1 DEF Behind, Prefix, Body
  <2>12. (Dead => Dead') /\ Ended' = Ended
    BY <1>1 DEF Dead, Ended
  <2>13. CountInv'
    <3>1. /\ Len(v ++ g) = Len(v) + Len(g) /\ Len(w ++ h) = Len(w) + Len(h)
          /\ Len(w) \in Nat /\ Len(h) \in Nat /\ Len(v) \in Nat /\ Len(g) \in Nat
      BY <2>8, CatLen
    <3>2. Len(v) + Len(g) = Len(w) + Len(h)
      BY <2>9, <3>1
    <3>3. BufData(mem, ctx.out) = <<>> /\ BufData(mem', ctx.out) = <<>>
      BY <2>5, <2>6
    <3>4. ctx.bytes_out = Len(w) + Len(h) + Len(<<>>)
      BY <2>8, <3>3 DEF CountInv
    <3>5. Len(<<>>) = 0
      OBVIOUS
    <3>6. ctx.bytes_out = Len(v) + Len(g) + Len(<<>>)
      BY <3>1, <3>2, <3>4, <3>5
    <3> QED  BY <1>1, <2>8, <3>3, <3>6 DEF CountInv
  <2> QED  BY <2>10, <2>11, <2>12, <2>13, FlowStays
<1> QED  BY <1>2, <1>3 DEF PassThrough

\* A call that goes on knows whether the end of the frame was begun.
LEMMA EndedAfter ==
  ASSUME BufInv, EndInv, pc = "compress",
         NEW o \in Outcomes(Directive, ctx.buffer_in, Space(mem[ctx.out_buf])),
         Suppress(o) \/ Emit(o) \/ EmitFails(o), enc' = EncAfter(o, Directive),
         Directive = "end" => ctx.last, enc.ended \/ o.fin => Directive = "end",
         ctx'.done = (ctx.done \/ (Emit(o) /\ Terminal(o))), ~Dead'
  PROVE  Ended' <=> enc.ended \/ o.fin
<1>1. /\ ~Dead /\ ~ctx.done /\ Zrc(o) \in Nat
      /\ Coded(Directive, ctx.buffer_in, Space(mem[ctx.out_buf]), o)
  BY CallFacts
<1>2. enc'.ended <=> (enc.ended \/ o.fin) /\ ~(Directive = "end" /\ Zrc(o) = 0)
  BY DEF EncAfter
<1>3. ~EmitFails(o)
  BY DEF EmitFails, Dead
<1>4. ASSUME enc.ended \/ o.fin, ~enc'.ended PROVE ctx'.done
  <2>1. Directive = "end" /\ Zrc(o) = 0 /\ ctx.last
    BY <1>2, <1>4
  <2>2. Terminal(o)
    BY <2>1 DEF Terminal
  <2>3. ~ForceEnd(o)
    BY <2>1 DEF ForceEnd, SwitchToEnd
  <2>4. ~Suppress(o)
    BY <2>2, <2>3 DEF Suppress, Emits
  <2> QED  BY <1>3, <2>2, <2>4
<1>5. ASSUME ctx'.done PROVE enc.ended \/ o.fin
  <2>1. Zrc(o) = 0 /\ Directive = "end"
    BY <1>1, <1>5 DEF Terminal
  <2>2. Len(o.stg) = 0 /\ o.stg \in Seq(Units)
    <3>1. o.stg \in Seq(Units)
      BY <1>1 DEF Coded
    <3>2. Len(o.stg) \in Nat
      BY <3>1, LenProperties
    <3>3. PICK n \in Nat : n = Len(o.stg)
      BY <3>2
    <3>4. Zrc(o) = n + (IF o.coy THEN 1 ELSE 0)
      BY <3>3 DEF Zrc
    <3>5. n = 0
      BY <2>1, <3>4
    <3> QED  BY <3>1, <3>3, <3>5
  <2>3. o.stg = <<>>
    BY <2>2, EmptySeq
  <2> QED  BY <1>1, <2>1, <2>3 DEF Coded
<1> QED  BY <1>2, <1>4, <1>5 DEF Ended

\* The other buffers are not touched by a call.
LEMMA OthersStay ==
  ASSUME BufInv, pc = "compress", NEW x, mem' = [mem EXCEPT ![ctx.out_buf] = x]
  PROVE  /\ mem'[ctx.out_buf] = x
         /\ BufData(mem', held) = BufData(mem, held)
         /\ BufData(mem', ctx.out) = BufData(mem, ctx.out)
<1>0. /\ mem \in [Bufs -> Buf] /\ ctx.out \in Seq(Bufs) /\ held \in Seq(Bufs) /\ TypeInv
  BY DEF BufInv, TypeInv, Ctx
<1>1. PICK b \in Bufs : b = ctx.out_buf
  BY DEF BufInv, TypeInv, Ctx, ControlInv
<1>2. mem'[b] = x /\ \A y \in Bufs : y # b => mem'[y] = mem[y]
  BY <1>0, <1>1
<1>3. held = ctx.busy
  BY DEF BufInv, ControlInv, HeldInv
<1>4. b \notin Range(ctx.out) /\ b \notin Range(held)
  BY <1>1, <1>3 DEF BufInv, PlaceInv, Placed
<1>5. (\A y \in Range(held) : y \in Bufs) /\ (\A y \in Range(ctx.out) : y \in Bufs)
  BY <1>0, InRange
<1>6. /\ \A y \in Range(held) : mem'[y].data = mem[y].data
      /\ \A y \in Range(ctx.out) : mem'[y].data = mem[y].data
  BY <1>2, <1>4, <1>5
<1> QED  BY <1>0, <1>1, <1>2, <1>6, DataStays

\* Whether the buffer is queued or not, what the call put follows the rest.
LEMMA PutFollows ==
  ASSUME BufInv, CountInv, pc = "compress",
         NEW o \in Outcomes(Directive, ctx.buffer_in, Space(mem[ctx.out_buf])),
         Suppress(o) \/ Emit(o) \/ EmitFails(o), UNCHANGED <<wire, held>>
  PROVE  Ahead' = Ahead ++ o.put /\ CountInv' /\ o.put \in Str
<1>0. ctx \in Ctx /\ Flowing
  BY FlowTyped DEF BufInv, TypeInv
<1>1. /\ ctx.out_buf \in Bufs /\ Filled(o) \in Buf /\ Advance(o) \in Ctx
      /\ Filled(o).data = mem[ctx.out_buf].data \o o.put
      /\ Coded(Directive, ctx.buffer_in, Space(mem[ctx.out_buf]), o)
  BY CallFacts
<1>2. PICK a \in Ctx : a = Advance(o)
  BY <1>1
<1>3. a.out = ctx.out /\ a.out_buf = ctx.out_buf /\ a.bytes_out = ctx.bytes_out
  BY <1>0, <1>2, AdvanceKeeps
<1>4. ctx.out_buf # NULL /\ Current = mem[ctx.out_buf].data
  BY <1>1, BufsFacts DEF Current
<1>5. PICK w, h, q, c, p, e :
        /\ w = wire /\ h = BufData(mem, held) /\ q = BufData(mem, ctx.out) /\ c = Current
        /\ p = o.put /\ e = <<>>
        /\ w \in Str /\ h \in Str /\ q \in Str /\ c \in Str /\ p \in Str /\ e \in Str
  <2>1. o.put \in Str
    BY <1>1 DEF Coded, Str
  <2> QED  BY <1>0, <2>1, Marks DEF Flowing
<1>6. Filled(o).data = c ++ p
  BY <1>1, <1>4, <1>5 DEF ++
<1>7. Ahead ++ p = w ++ (h ++ (q ++ (c ++ p)))
  <2>1. PICK x \in Str, y \in Str : x = q ++ c /\ y = h ++ x
    BY <1>5, CatTyped
  <2>2. x ++ p = q ++ (c ++ p) /\ y ++ p = h ++ (x ++ p) /\ (w ++ y) ++ p = w ++ (y ++ p)
    BY <1>5, <2>1, CatAssoc
  <2> QED  BY <1>5, <2>1, <2>2 DEF Ahead
<1>8. CASE Suppress(o) \/ EmitFails(o)
  <2>1. ctx'.out = ctx.out /\ ctx'.out_buf = ctx.out_buf /\ ctx'.bytes_out = ctx.bytes_out
    <3>1. CASE Suppress(o)
      <4>1. ctx' = [a EXCEPT !.flush = FlushLeft(o)]
        BY <1>2, <3>1 DEF Suppress
      <4> QED  BY <1>3, <4>1 DEF Ctx
    <3>2. CASE EmitFails(o)
      BY <1>2, <1>3, <3>2 DEF EmitFails
    <3> QED  BY <1>8, <3>1, <3>2
  <2>2. mem' = [mem EXCEPT ![ctx.out_buf] = Filled(o)]
    BY <1>8 DEF Suppress, EmitFails
  <2>3. /\ mem'[ctx.out_buf] = Filled(o)
        /\ BufData(mem', held) = h /\ BufData(mem', ctx.out) = q
    BY <1>5, <2>2, OthersStay
  <2>4. Current' = c ++ p
    BY <1>4, <1>6, <2>1, <2>3 DEF Current
  <2>5. Ahead' = w ++ (h ++ (q ++ (c ++ p)))
    BY <1>5, <2>1, <2>3, <2>4 DEF Ahead
  <2>6. CountInv'
    BY <1>5, <2>1, <2>3 DEF CountInv
  <2> QED  BY <1>5, <1>7, <2>5, <2>6
<1>9. CASE Emit(o)
  <2>1. PICK d, f, n : ctx' = [a EXCEPT !.done = d, !.flush = f, !.bytes_out = n,
                                        !.out = Append(a.out, ctx.out_buf), !.out_buf = NULL]
                       /\ n = a.bytes_out + Counted(o)
    BY <1>2, <1>9 DEF Emit, AfterQueueing
  <2>2. /\ ctx'.out = Append(ctx.out, ctx.out_buf) /\ ctx'.out_buf = NULL
        /\ ctx'.bytes_out = ctx.bytes_out + Counted(o)
    BY <1>3, <2>1 DEF Ctx
  <2>3. mem' = [mem EXCEPT ![ctx.out_buf] = Queued(o)] /\ Emits(o)
    BY <1>9 DEF Emit
  <2>4. /\ mem'[ctx.out_buf] = Queued(o)
        /\ BufData(mem', held) = h /\ BufData(mem', ctx.out) = q
    BY <1>5, <2>3, OthersStay
  <2>5. Queued(o).data = c ++ p /\ Queued(o) \in Buf
    BY <1>1, <1>6, <2>3, QueuedFacts
  <2>6. BufData(mem', ctx'.out) = q ++ (c ++ p)
    <3>1. PICK b \in Bufs, s \in Seq(Bufs), t \in Seq(Bufs), m \in [Bufs -> Buf] :
            b = ctx.out_buf /\ s = ctx.out /\ t = <<b>> /\ m = mem'
      <4>1. ctx.out \in Seq(Bufs) /\ mem \in [Bufs -> Buf]
        BY DEF BufInv, TypeInv, Ctx
      <4>2. mem' \in [Bufs -> Buf]
        BY <1>1, <2>3, <2>5, <4>1
      <4>3. PICK B : B = Bufs
        OBVIOUS
      <4>4. <<ctx.out_buf>> \in Seq(B)
        BY <1>1, <4>3, Single
      <4> QED  BY <1>1, <4>1, <4>2, <4>3, <4>4
    <3>2. Append(s, b) = s \o t
      <4>1. PICK B : B = Bufs
        OBVIOUS
      <4>2. s \in Seq(B) /\ b \in B
        BY <4>1
      <4> QED  BY <3>1, <4>2
    <3>3. BufData(m, s \o t) = BufData(m, s) \o BufData(m, t) /\ BufData(m, <<b>>) = m[b].data
      BY BufDataFacts, Zenon
    <3>4. ctx'.out = s \o t
      BY <2>2, <3>1, <3>2
    <3>5. BufData(m, s) = q /\ m[b].data = c ++ p
      BY <2>4, <2>5, <3>1
    <3> QED  BY <3>1, <3>3, <3>4, <3>5 DEF ++
  <2>7. Current' = e
    BY <1>5, <2>2 DEF Current
  <2>8. Ahead' = w ++ (h ++ (q ++ (c ++ p)))
    <3>1. Ahead' = w ++ (h ++ ((q ++ (c ++ p)) ++ e))
      BY <1>5, <2>4, <2>6, <2>7 DEF Ahead
    <3>2. (q ++ (c ++ p)) ++ e = q ++ (c ++ p)
      BY <1>5, CatTyped, CatEmpty
    <3> QED  BY <3>1, <3>2
  <2>9. CountInv'
    <3>1. Counted(o) = Len(c ++ p)
      BY <1>6 DEF Counted
    <3>2. c ++ p \in Str
      BY <1>5, CatTyped
    <3>3. Len(q ++ (c ++ p)) = Len(q) + Len(c ++ p) /\ Len(q) \in Nat /\ Len(c ++ p) \in Nat
          /\ Len(w) \in Nat /\ Len(h) \in Nat
      BY <1>5, <3>2, CatLen
    <3>4. ctx.bytes_out = Len(w) + Len(h) + Len(q)
      BY <1>5 DEF CountInv
    <3>5. ctx'.bytes_out = Len(w) + Len(h) + Len(q ++ (c ++ p))
      BY <2>2, <3>1, <3>3, <3>4
    <3> QED  BY <1>5, <2>4, <2>6, <3>5 DEF CountInv
  <2> QED  BY <1>5, <1>7, <2>8, <2>9
<1> QED  BY <1>8, <1>9

\* What a call makes of staged output s, accumulated tokens a and input i
\* with L queued behind it: it puts p, and leaves t, c and r.
CallMoves(s, a, i, L, p, t, c, r, E) ==
  /\ s \in Str /\ a \in Str /\ i \in Str /\ L \in Str /\ E \in Str
  /\ p \in Str /\ t \in Str /\ c \in Str /\ r \in Str
  /\ p ++ (t ++ (c ++ r)) = s ++ (a ++ (i ++ E))
  /\ E = <<>> \/ L = <<>>

\* A call of the encoder moves tokens towards the client, in order, and may
\* add the end of the frame behind the last one.
LEMMA EncoderMoves ==
  ASSUME NEW s, NEW a, NEW i, NEW L, NEW p, NEW t, NEW c, NEW r, NEW E,
         CallMoves(s, a, i, L, p, t, c, r, E)
  PROVE  \A A \in Str : (A ++ p) ++ (t ++ (c ++ (r ++ L))) =
    (A ++ (s ++ (a ++ (i ++ L)))) ++ E
<1> TAKE A \in Str
<1> USE DEF CallMoves
<1>1. E ++ L = L ++ E
  BY CatEmpty
<1>2. PICK cr \in Str, tc \in Str, pt \in Str : cr = c ++ r /\ tc = t ++ cr /\ pt = p ++ tc
  BY CatTyped
<1>3. /\ cr ++ L = c ++ (r ++ L) /\ tc ++ L = t ++ (cr ++ L) /\ pt ++ L = p ++ (tc ++ L)
  BY <1>2, CatAssoc
<1>4. pt ++ L = p ++ (t ++ (c ++ (r ++ L)))
  BY <1>3
<1>5. PICK ie \in Str, ae \in Str, se \in Str : ie = i ++ E /\ ae = a ++ ie /\ se = s ++ ae
  BY CatTyped
<1>6. ie ++ L = i ++ (E ++ L) /\ ae ++ L = a ++ (ie ++ L) /\ se ++ L = s ++ (ae ++ L)
  BY <1>5, CatAssoc
<1>7. se ++ L = s ++ (a ++ (i ++ (L ++ E)))
  BY <1>1, <1>6
<1>8. PICK il \in Str, al \in Str, sl \in Str : il = i ++ L /\ al = a ++ il /\ sl = s ++ al
  BY CatTyped
<1>9. il ++ E = i ++ (L ++ E) /\ al ++ E = a ++ (il ++ E) /\ sl ++ E = s ++ (al ++ E)
  BY <1>8, CatAssoc
<1>10. pt = se
  BY <1>2, <1>5
<1>11. pt ++ L = sl ++ E
  BY <1>7, <1>9, <1>10
<1>12. PICK u \in Str : u = t ++ (c ++ (r ++ L))
  BY CatTyped
<1>13. (A ++ p) ++ u = A ++ (p ++ u) /\ (A ++ sl) ++ E = A ++ (sl ++ E)
  BY CatAssoc
<1> QED  BY <1>4, <1>8, <1>11, <1>12, <1>13

\* filter_compress(): what the encoder put follows what was put before, what
\* it left precedes the input that is queued, and the end of the frame is
\* added once, behind the last token.
LEMMA CompressFlow ==
  ASSUME BufInv, EndInv, FlowInv, CountInv, Compress
  PROVE  FlowInv' /\ CountInv'
<1>0. Flowing
  BY FlowTyped
<1>1. PICK o \in Outcomes(Directive, ctx.buffer_in, Space(mem[ctx.out_buf])) :
        (Suppress(o) \/ Emit(o) \/ EmitFails(o)) /\ enc' = EncAfter(o, Directive)
  BY Zenon DEF Compress
<1>2. pc = "compress" /\ UNCHANGED <<in, up, wire, held>>
  BY DEF Compress, downVars
<1>3. /\ Advance(o) \in Ctx /\ ~ctx.done /\ ~Dead
      /\ Coded(Directive, ctx.buffer_in, Space(mem[ctx.out_buf]), o)
  BY <1>2, CallFacts
<1>4. /\ ctx'.in = ctx.in /\ ctx'.last = ctx.last /\ ctx'.action = NextAction(o)
      /\ ctx'.cctx_ready = ctx.cctx_ready /\ ctx'.bufs = ctx.bufs
      /\ ctx'.dcz_header_sent = ctx.dcz_header_sent /\ ctx'.buffer_in = o.rest
      /\ ctx'.done = (ctx.done \/ (Emit(o) /\ Terminal(o)))
      /\ pc' \in {"add", "deliver", "failed"}
  BY <1>1, <1>3, CompressGives
<1>5. /\ Directive = "end" => ctx.last /\ NoMoreInput
      /\ enc.ended \/ o.fin => Directive = "end"
  BY <1>1, <1>2, <1>3, <1>4, CodedEnd
<1>6. ~Dead' => (Ended' <=> enc.ended \/ o.fin)
  BY <1>1, <1>2, <1>4, <1>5, EndedAfter
<1>7. Ahead' = Ahead ++ o.put /\ CountInv' /\ o.put \in Str
  BY <1>1, <1>2, PutFollows
<1>8. PICK E \in Str : E = IF o.fin THEN <<EPILOGUE>> ELSE <<>>
  BY Marks
<1>9. PICK s, a, i, L, t, c, r :
        /\ s = enc.stg /\ a = enc.acc /\ i = ctx.buffer_in
           /\ L = LinkData(ctx.in) ++ LinkData(in)
        /\ t = o.stg /\ c = o.acc /\ r = o.rest
        /\ s \in Str /\ a \in Str /\ i \in Str /\ L \in Str /\ t \in Str /\ c \in Str
           /\ r \in Str
  <2>1. o.stg \in Str /\ o.acc \in Seq(Toks) /\ o.rest \in Seq(Toks)
    BY <1>3 DEF Coded, Str
  <2>2. o.acc \in Str /\ o.rest \in Str
    BY <2>1, TokensAreUnits DEF Str
  <2>3. LinkData(ctx.in) ++ LinkData(in) \in Str
    BY <1>0, CatTyped DEF Flowing
  <2> QED  BY <1>0, <2>1, <2>2, <2>3 DEF Flowing
<1>10. o.put ++ (t ++ (c ++ r)) = s ++ (a ++ (i ++ E))
  BY <1>3, <1>8, <1>9 DEF Coded, ++
<1>11. E = <<>> \/ L = <<>>
  <2>1. CASE o.fin
    <3>1. ctx.in = <<>> /\ in = <<>>
      BY <1>5, <2>1 DEF NoMoreInput
    <3>2. L = <<>> ++ <<>>
      BY <1>9, <3>1, LinkDataFacts
    <3> QED  BY <3>2, CatEmpty
  <2>2. CASE ~o.fin
    BY <1>8, <2>2
  <2> QED  BY <2>1, <2>2
<1>12. Behind = s ++ (a ++ (i ++ L)) /\ Behind' = t ++ (c ++ (r ++ L))
  <2>1. enc'.stg = t /\ enc'.acc = c
    BY <1>1, <1>9 DEF EncAfter
  <2> QED  BY <1>2, <1>4, <1>9, <2>1 DEF Behind
<1>13. Ahead' ++ Behind' = (Ahead ++ Behind) ++ E
  <2>1. Ahead \in Str
    BY <1>0 DEF Flowing
  <2>2. (Ahead ++ o.put) ++ (t ++ (c ++ (r ++ L))) = (Ahead ++ (s ++ (a ++ (i ++ L)))) ++ E
    <3>1. CallMoves(s, a, i, L, o.put, t, c, r, E)
      BY <1>7, <1>9, <1>10, <1>11 DEF CallMoves
    <3> QED  BY <2>1, <3>1, EncoderMoves
  <2> QED  BY <1>7, <1>12, <2>2
<1>14. Prefix' = Prefix /\ Body' = Body
  BY <1>2, <1>4 DEF Prefix, Body
<1>15. \A x \in Str : Piped(x) => Piped(x ++ E)'
  <2> TAKE x \in Str
  <2>1. Prefix \in Str /\ Body \in Str
    BY <1>0 DEF Flowing
  <2>2. PICK y \in Str : y = Body ++ x
    BY <2>1, CatTyped
  <2>3. (Prefix ++ y) ++ E = Prefix ++ (y ++ E) /\ y ++ E = Body ++ (x ++ E)
    BY <2>1, <2>2, CatAssoc
  <2> QED  BY <1>13, <1>14, <2>2, <2>3 DEF Piped
<1>16. Ended <=> enc.ended
  BY <1>3 DEF Ended
<1>17. CASE o.fin
  <2>1. ~enc.ended
    BY <1>3, <1>17 DEF Coded
  <2>2. Piped(<<>>)
    BY <1>3, <1>16, <2>1 DEF FlowInv
  <2>3. <<>> ++ E = <<EPILOGUE>> /\ <<>> \in Str
    BY <1>8, <1>17, CatEmpty
  <2>4. Piped(<<EPILOGUE>>)'
    BY <1>15, <2>2, <2>3
  <2>5. FlowInv'
    BY <1>6, <1>17, <2>4 DEF FlowInv
  <2> QED  BY <1>7, <2>5
<1>18. CASE ~o.fin
  <2>1. <<>> ++ E = <<>> /\ <<EPILOGUE>> ++ E = <<EPILOGUE>> /\ <<>> \in Str
          /\ <<EPILOGUE>> \in Str
    BY <1>8, <1>18, CatEmpty, Marks
  <2>2. (Piped(<<>>) => Piped(<<>>)') /\ (Piped(<<EPILOGUE>>) => Piped(<<EPILOGUE>>)')
    BY <1>15, <2>1
  <2>3. FlowInv'
    BY <1>3, <1>6, <1>16, <1>18, <2>2 DEF FlowInv
  <2> QED  BY <1>7, <2>3
<1> QED  BY <1>17, <1>18

-----------------------------------------------------------------------------
(* The stream invariant, and what it is for *)

\* The stream starts empty.
LEMMA StreamInit == Init => EndInv /\ FlowInv /\ CountInv
<1> SUFFICES ASSUME Init PROVE EndInv /\ FlowInv /\ CountInv
  OBVIOUS
<1>1. /\ pc = "parked" /\ in = <<>> /\ held = <<>> /\ wire = <<>> /\ ctx = NewCtx
      /\ enc = [acc |-> <<>>, stg |-> <<>>, ended |-> FALSE]
      /\ up.tokens = 0 /\ up.eof = FALSE
  BY DEF Init
<1>2. /\ ctx.in = <<>> /\ ctx.buffer_in = <<>> /\ ctx.out = <<>> /\ ctx.out_buf = NULL
      /\ ~ctx.last /\ ctx.action = "COMPRESS" /\ ~ctx.done /\ ~ctx.aborted /\ ~ctx.cctx_ready
      /\ ~ctx.dcz_header_sent /\ ctx.bufs = 0 /\ ctx.bytes_out = 0
  BY <1>1 DEF NewCtx
<1>3. enc.acc = <<>> /\ enc.stg = <<>> /\ ~enc.ended
  BY <1>1
<1>4. EndInv
  <2>1. Range(ctx.in) = {} /\ Range(in) = {}
    BY <1>1, <1>2, NoBuffers
  <2>2. \A x \in Range(ctx.in) \cup Range(in) : x.last_buf => up.eof
    BY <2>1
  <2> QED  BY <1>1, <1>2, <1>3, <2>2 DEF EndInv
<1>5. BufData(mem, <<>>) = <<>> /\ LinkData(<<>>) = <<>>
  <2>1. mem \in [Bufs -> Buf]
    BY BufInit DEF BufInv, TypeInv
  <2> QED  BY <2>1, BufDataFacts, LinkDataFacts, Zenon
<1>6. PICK e \in Str : e = <<>>
  BY Marks
<1>7. e ++ e = e
  BY <1>6, CatEmpty
<1>8. Ahead = e /\ Behind = e /\ Prefix = e
  BY <1>1, <1>2, <1>3, <1>5, <1>6, <1>7 DEF Ahead, Behind, Current, Prefix
<1>9. Body = e
  <2>1. 0 + 0 <= MaxTokens
    BY BoundsAssumption
  <2>2. Tokens(0, 0) \in Seq(Toks) /\ Len(Tokens(0, 0)) = 0
    BY <2>1, TokensTyped
  <2>3. Tokens(0, 0) = <<>>
    BY <2>2, EmptySeq
  <2> QED  BY <1>1, <1>6, <2>3 DEF Body
<1>10. Piped(e)
  BY <1>7, <1>8, <1>9 DEF Piped
<1>11. FlowInv
  BY <1>2, <1>3, <1>6, <1>10 DEF FlowInv, Ended
<1>12. CountInv
  <2>1. Len(<<>>) = 0
    OBVIOUS
  <2> QED  BY <1>1, <1>2, <1>5, <2>1 DEF CountInv
<1> QED  BY <1>4, <1>11, <1>12

\* Every step keeps the end of the body and of the frame in place.
LEMMA EndStep == BufInv /\ EndInv /\ [Next]_vars => EndInv'
<1> SUFFICES ASSUME BufInv, EndInv, [Next]_vars PROVE EndInv'
  OBVIOUS
<1>1. CASE \E chain \in Chains : Feed(chain)
  BY <1>1, FeedEnd
<1>2. CASE WriteEvent \/ IdleCall \/ NothingToDo \/ Begin
  BY <1>2, CallsEnd
<1>3. CASE PassThrough
  BY <1>3, PassThroughEnd
<1>4. CASE InitCctx
  BY <1>4, InitCctxEnd
<1>5. CASE BeginNomem
  <2>1. /\ pc = "entry" /\ ~ctx.done /\ ctx.cctx_ready /\ UNCHANGED <<in, enc, up>>
    BY <1>5 DEF BeginNomem
  <2>2. ctx.out = <<>>
    BY <2>1 DEF BufInv, ControlInv
  <2>3. CASE /\ Pass(<<>>)
             /\ ctx' = [UpdateChains(ctx, mem', <<>>) EXCEPT !.out_buf = NULL, !.nomem = FALSE]
             /\ pc' = "add"
    <3>1. /\ Pass(ctx.out)
          /\ ctx' = [UpdateChains(ctx, mem', ctx.out)
                       EXCEPT !.out = <<>>, !.out_buf = NULL, !.nomem = FALSE]
      BY <2>2, <2>3, NomemPasses
    <3> QED  BY <2>1, <2>3, <3>1, PassEnd
  <2>4. CASE PassFails /\ UNCHANGED ctx /\ pc' = "failed"
    BY <2>1, <2>4, DownFailsEnd
  <2> QED  BY <1>5, <2>3, <2>4 DEF BeginNomem
<1>6. CASE AddPending \/ AddNone \/ GetBufKeep \/ GetBufFails \/ CodecFails \/ ParkFails
  BY <1>6, TurnsEnd
<1>7. CASE AddLink
  BY <1>7, AddLinkEnd
<1>8. CASE GetBufFree \/ GetBufAlloc \/ GetBufNomem \/ Fail
  BY <1>8, BuffersEnd
<1>9. CASE Compress
  BY <1>9, CompressEnd
<1>10. CASE Park
  BY <1>10, ParkEnd
<1>11. CASE Deliver
  <2>1. pc = "deliver" /\ Pass(ctx.out) /\ UNCHANGED <<in, enc, up>> /\ ctx.cctx_ready
    BY <1>11 DEF Deliver, EndInv
  <2>2. ctx' = [UpdateChains(ctx, mem', ctx.out)
                  EXCEPT !.out = <<>>, !.out_buf = NULL, !.nomem = FALSE]
    BY <1>11 DEF Deliver
  <2>3. pc' = IF ctx.done THEN "parked" ELSE "add"
    BY <1>11 DEF Deliver
  <2> QED  BY <2>1, <2>2, <2>3, PassEnd
<1>12. CASE DeliverFails
  BY <1>12, DownFailsEnd DEF DeliverFails
<1>13. CASE UNCHANGED vars
  BY <1>13 DEF vars, EndInv, Dead, NoMoreInput
<1> QED
  BY <1>1, <1>2, <1>3, <1>4, <1>5, <1>6, <1>7, <1>8, <1>9, <1>10, <1>11, <1>12, <1>13
     DEF Next, Step

\* Every step keeps the order of the pieces and the count of the queued ones.
LEMMA FlowStep ==
  BufInv /\ EndInv /\ FlowInv /\ CountInv /\ [Next]_vars => FlowInv' /\ CountInv'
<1> SUFFICES ASSUME BufInv, EndInv, FlowInv, CountInv, [Next]_vars PROVE FlowInv' /\ CountInv'
  OBVIOUS
<1>1. CASE \E chain \in Chains : Feed(chain)
  BY <1>1, FeedFlow
<1>2. CASE WriteEvent \/ IdleCall \/ NothingToDo \/ Begin
  BY <1>2, CallsFlow
<1>3. CASE PassThrough
  BY <1>3, PassThroughFlow
<1>4. CASE InitCctx
  BY <1>4, InitCctxFlow
<1>5. CASE BeginNomem
  BY <1>5, BeginNomemFlow
<1>6. CASE AddPending \/ AddNone \/ GetBufKeep \/ GetBufFails \/ CodecFails \/ ParkFails
  BY <1>6, TurnsFlow
<1>7. CASE AddLink
  BY <1>7, AddLinkFlow
<1>8. CASE GetBufFree \/ GetBufAlloc
  BY <1>8, GetBufFreeFlow, GetBufAllocFlow
<1>9. CASE Compress
  BY <1>9, CompressFlow
<1>10. CASE Park
  BY <1>10, ParkFlow
<1>11. CASE GetBufNomem \/ Fail
  BY <1>11, FailFlow
<1>12. CASE Deliver \/ DeliverFails
  BY <1>12, DeliverFlow
<1>13. CASE UNCHANGED vars
  <2>1. UNCHANGED <<wire, held, mem, up, enc, ctx, in, pc>>
    BY <1>13 DEF vars
  <2>2. (Dead => Dead') /\ Ended' = Ended
    BY <2>1 DEF Dead, Ended
  <2> QED  BY <2>1, <2>2, FlowSame
<1> QED
  BY <1>1, <1>2, <1>3, <1>4, <1>5, <1>6, <1>7, <1>8, <1>9, <1>10, <1>11, <1>12, <1>13
     DEF Next, Step

\* The inductive invariant of the stream.
StreamInv == EndInv /\ FlowInv /\ CountInv

\* In every state of the body filter the pieces in flight make up the frame
\* of the body handed over so far, with its end exactly when the encoder has
\* begun to write it.
THEOREM StreamInvariant == Spec => [](BufInv /\ StreamInv)
<1>1. Init => BufInv /\ StreamInv
  BY BufInit, StreamInit DEF StreamInv
<1>2. BufInv /\ StreamInv /\ [Next]_vars => (BufInv /\ StreamInv)'
  BY BufStep, EndStep, FlowStep DEF StreamInv
<1> QED  BY <1>1, <1>2, PTL DEF Spec

\* The stream invariant says where the end is; StreamIntact that it is there
\* at most once.
LEMMA InFlight == BufInv /\ StreamInv => StreamIntact
<1> SUFFICES ASSUME BufInv, StreamInv PROVE StreamIntact
  OBVIOUS
<1>1. Flowing
  BY FlowTyped
<1>2. PICK w, h, q, c, s, a, i, l, n :
        /\ w = wire /\ h = BufData(mem, held) /\ q = BufData(mem, ctx.out) /\ c = Current
        /\ s = enc.stg /\ a = enc.acc /\ i = ctx.buffer_in /\ l = LinkData(ctx.in)
           /\ n = LinkData(in)
        /\ w \in Str /\ h \in Str /\ q \in Str /\ c \in Str /\ s \in Str /\ a \in Str
           /\ i \in Str
        /\ l \in Str /\ n \in Str
  BY <1>1 DEF Flowing
<1>3. Pipeline = (((((((w ++ h) ++ q) ++ c) ++ s) ++ a) ++ i) ++ l) ++ n
  BY <1>2, Zenon DEF Pipeline, Current, ++
<1>4. Pipeline = Ahead ++ Behind
  <2>1. PICK ln \in Str, iln \in Str, ailn \in Str, sailn \in Str :
          ln = l ++ n /\ iln = i ++ ln /\ ailn = a ++ iln /\ sailn = s ++ ailn
    BY <1>2, CatTyped
  <2>2. PICK x1 \in Str, x2 \in Str, x3 \in Str, x4 \in Str, x5 \in Str, x6 \in Str :
          /\ x1 = w ++ h /\ x2 = x1 ++ q /\ x3 = x2 ++ c /\ x4 = x3 ++ s /\ x5 = x4 ++ a
             /\ x6 = x5 ++ i
    BY <1>2, CatTyped
  <2>3. /\ (x6 ++ l) ++ n = x6 ++ ln /\ x6 ++ ln = x5 ++ iln /\ x5 ++ iln = x4 ++ ailn
        /\ x4 ++ ailn = x3 ++ sailn
    BY <1>2, <2>1, <2>2, CatAssoc
  <2>4. x3 = w ++ (h ++ (q ++ c))
    <3>1. q ++ c \in Str
      BY <1>2, CatTyped
    <3>2. x3 = x1 ++ (q ++ c) /\ x1 ++ (q ++ c) = w ++ (h ++ (q ++ c))
      BY <1>2, <2>2, <3>1, CatAssoc
    <3> QED  BY <3>2
  <2>5. Ahead = x3 /\ Behind = sailn
    BY <1>2, <2>1, <2>4 DEF Ahead, Behind
  <2> QED  BY <1>3, <2>2, <2>3, <2>5
<1>5. PICK tail \in {<<>>, <<EPILOGUE>>} : Pipeline = (Prefix ++ Body) ++ tail
  <2>1. PICK tail \in {<<>>, <<EPILOGUE>>} : Piped(tail)
    BY DEF StreamInv, FlowInv
  <2>2. tail \in Str /\ Prefix \in Str /\ Body \in Str
    BY <1>1, <2>1, Marks DEF Flowing
  <2>3. (Prefix ++ Body) ++ tail = Prefix ++ (Body ++ tail)
    BY <2>2, CatAssoc
  <2> QED  BY <1>4, <2>1, <2>3 DEF Piped
<1>6. Pipeline = (IF ctx.dcz_header_sent THEN <<PREFIX>> ELSE <<>>) \o
        Tokens(0, up.tokens) \o tail
  BY <1>5, Zenon DEF Prefix, Body, ++
<1>7. Pipeline \in {(IF ctx.dcz_header_sent THEN <<PREFIX>> ELSE <<>>) \o
        Tokens(0, up.tokens) \o t :
                      t \in {<<>>, <<EPILOGUE>>}}
  BY <1>6, Zenon
<1> QED  BY <1>7 DEF StreamIntact, StreamInv, CountInv

\* For every number and size of buffers, body, input chain, limit and
\* downstream: no byte of the response is lost, repeated or reordered between
\* the upstream and the client, the frame is closed at most once and behind
\* all of the body, and $zstd_bytes_out counts exactly what was queued.
THEOREM StreamIsIntact == Spec => []StreamIntact
<1> QED  BY StreamInvariant, InFlight, PTL

-----------------------------------------------------------------------------
(* The end of the response *)

\* A buffer that ends the response is the last one of its queue.
EndsQueue(q) == \A i \in 1 .. Len(q) : mem[q[i]].last_buf => i = Len(q) /\ ctx.done

\* The encoder has nothing left, and no buffer is being filled.
Emptied == ctx.out_buf = NULL /\ ctx.buffer_in = <<>> /\ enc.stg = <<>> /\ enc.acc = <<>>

\* The end of the response.
CloseInv ==
  /\ closed => /\ ctx.done /\ ~ctx.aborted /\ pc \in {"parked", "entry"}
               /\ held = <<>> /\ ctx.out = <<>>
  /\ EndsQueue(held \o ctx.out)
  /\ ctx.out_buf # NULL => ~mem[ctx.out_buf].last_buf
  /\ ctx.done /\ ~Dead => Emptied
  /\ ctx.dcz_header_sent <=> conf.dcz /\ ctx.bufs > 0

\* The queue of the downstream and of the filter.
LEMMA QueueTyped ==
  ASSUME BufInv
  PROVE  /\ held \o ctx.out \in Seq(Bufs)
         /\ \A i \in 1 .. Len(held \o ctx.out) : (held \o ctx.out)[i] \in Bufs
<1>1. held \in Seq(Bufs) /\ ctx.out \in Seq(Bufs)
  BY DEF BufInv, TypeInv, Ctx
<1>2. PICK S : S = Bufs
  OBVIOUS
<1>3. held \in Seq(S) /\ ctx.out \in Seq(S)
  BY <1>1, <1>2
<1>4. held \o ctx.out \in Seq(S)
  BY <1>3, ConcatProperties
<1>5. \A i \in 1 .. Len(held \o ctx.out) : (held \o ctx.out)[i] \in S
  BY <1>4, ElementOfSeq
<1> QED  BY <1>2, <1>4, <1>5

\* Steps that leave the queue alone.
LEMMA CloseStays ==
  ASSUME BufInv, CloseInv, UNCHANGED <<closed, held>>, ctx'.out = ctx.out,
         \A b \in Bufs : mem'[b].last_buf => mem[b].last_buf,
         ctx.done => ctx'.done,
         closed => ~ctx'.aborted /\ pc' \in {"parked", "entry"},
         ctx'.out_buf # NULL => ~mem'[ctx'.out_buf].last_buf,
         ctx'.done /\ ~Dead' => Emptied',
         ctx'.dcz_header_sent <=> conf'.dcz /\ ctx'.bufs > 0
  PROVE  CloseInv'
<1>1. PICK q \in Seq(Bufs) : q = held \o ctx.out /\ \A i \in 1 .. Len(q) : q[i] \in Bufs
  BY QueueTyped
<1>2. \A i \in 1 .. Len(q) : mem'[q[i]].last_buf => i = Len(q) /\ ctx'.done
  BY <1>1 DEF CloseInv, EndsQueue
<1>3. EndsQueue(held \o ctx.out)'
  BY <1>1, <1>2 DEF EndsQueue
<1> QED  BY <1>3 DEF CloseInv

\* Steps that leave the buffers alone.
LEMMA CloseSame ==
  ASSUME BufInv, CloseInv, UNCHANGED <<conf, mem, closed, held>>,
         ctx'.out = ctx.out, ctx'.out_buf = ctx.out_buf, ctx'.bufs = ctx.bufs,
         ctx'.dcz_header_sent = ctx.dcz_header_sent,
         ctx.done => ctx'.done,
         closed => ~ctx'.aborted /\ pc' \in {"parked", "entry"},
         ctx'.done /\ ~Dead' => /\ ctx.done /\ ~Dead /\ ctx'.buffer_in = ctx.buffer_in
                                /\ enc'.stg = enc.stg /\ enc'.acc = enc.acc
  PROVE  CloseInv'
<1>1. ctx'.done /\ ~Dead' => Emptied'
  BY DEF CloseInv, Emptied
<1>2. ctx'.out_buf # NULL => ~mem'[ctx'.out_buf].last_buf
  BY DEF CloseInv
<1>3. ctx'.dcz_header_sent <=> conf'.dcz /\ ctx'.bufs > 0
  BY DEF CloseInv
<1> QED  BY <1>1, <1>2, <1>3, CloseStays

\* A call that starts leaves the queue alone; a closed response only passes
\* calls through.
LEMMA CallsClose ==
  ASSUME BufInv, CloseInv,
         WriteEvent \/ IdleCall \/ NothingToDo \/ Begin \/ (\E chain \in Chains : Feed(chain))
  PROVE  CloseInv'
<1>1. UNCHANGED <<conf, mem, closed, held, ctx, enc>>
  BY DEF WriteEvent, IdleCall, NothingToDo, Begin, Feed, downVars
<1>2. closed => pc' \in {"parked", "entry"}
  BY DEF CloseInv, WriteEvent, IdleCall, NothingToDo, Begin, Feed
<1>3. Dead => Dead'
  BY <1>1 DEF Dead, WriteEvent, IdleCall, NothingToDo, Begin, Feed
<1>4. closed => ~ctx.aborted
  BY DEF CloseInv
<1> QED  BY <1>1, <1>2, <1>3, <1>4, CloseSame

\* The turns of the loop that only decide where to go are never taken by a
\* closed response.
LEMMA TurnsClose ==
  ASSUME BufInv, CloseInv,
         AddPending \/ AddNone \/ GetBufKeep \/ GetBufFails \/ CodecFails \/ ParkFails
  PROVE  CloseInv'
<1>1. UNCHANGED <<conf, mem, closed, held, ctx, enc>>
  BY DEF AddPending, AddNone, GetBufKeep, GetBufFails, CodecFails, ParkFails, downVars
<1>2. ~closed /\ pc # "failed" /\ pc # "parked"
  BY DEF CloseInv, AddPending, AddNone, GetBufKeep, GetBufFails, CodecFails, ParkFails
<1>3. Dead => Dead'
  BY <1>1, <1>2 DEF Dead
<1> QED  BY <1>1, <1>2, <1>3, CloseSame

\* An error of the next body filter closes nothing.
LEMMA DownFailsClose ==
  ASSUME BufInv, CloseInv, PassFails, UNCHANGED <<conf, ctx, in, enc, up>>,
         \/ pc = "entry" /\ ctx.done /\ pc' = "parked"
         \/ pc \in {"entry", "deliver"} /\ (pc = "entry" => ~ctx.done) /\ pc' = "failed"
  PROVE  CloseInv'
<1>1. UNCHANGED <<mem, closed, held>>
  BY DEF PassFails
<1>2. (Dead => Dead') /\ (closed => ~ctx.aborted /\ pc' \in {"parked", "entry"})
  BY DEF Dead, CloseInv
<1> QED  BY <1>1, <1>2, CloseSame

\* Taking input, running out of buffers, copying the input and giving up
\* close nothing and leave the queue alone.
LEMMA WorkClose ==
  ASSUME BufInv, CloseInv, InitCctx \/ AddLink \/ GetBufNomem \/ Park \/ Fail
  PROVE  CloseInv'
<1>0. ctx \in Ctx
  BY DEF BufInv, TypeInv
<1>1. UNCHANGED <<conf, mem, closed, held>>
  BY DEF InitCctx, AddLink, GetBufNomem, Park, Fail, downVars
<1>2. /\ ctx'.out = ctx.out /\ ctx'.out_buf = ctx.out_buf /\ ctx'.bufs = ctx.bufs
      /\ ctx'.dcz_header_sent = ctx.dcz_header_sent /\ (ctx.done => ctx'.done)
  BY <1>0 DEF InitCctx, AddLink, GetBufNomem, Park, Fail, Ctx
<1>3. ~closed
  BY DEF CloseInv, InitCctx, AddLink, GetBufNomem, Park, Fail
<1>4. CASE InitCctx \/ AddLink \/ GetBufNomem
  <2>1. ~ctx.done
    BY <1>4 DEF InitCctx, AddLink, GetBufNomem, BufInv, ControlInv
  <2>2. ctx'.done = ctx.done
    BY <1>0, <1>4 DEF InitCctx, AddLink, GetBufNomem, Ctx
  <2> QED  BY <1>1, <1>2, <1>3, <2>1, <2>2, CloseSame
<1>5. CASE Park
  <2>1. /\ ctx'.done = ctx.done /\ ctx'.buffer_in = ctx.buffer_in
           /\ ctx'.aborted = ctx.aborted
        /\ enc' = enc /\ pc = "deliver"
    BY <1>0, <1>5 DEF Park, Ctx
  <2>2. Dead => Dead'
    BY <2>1 DEF Dead
  <2> QED  BY <1>1, <1>2, <1>3, <2>1, <2>2, CloseSame
<1>6. CASE Fail
  <2>1. ctx'.aborted
    BY <1>0, <1>6 DEF Fail, Ctx
  <2>2. Dead'
    BY <2>1 DEF Dead
  <2> QED  BY <1>1, <1>2, <1>3, <2>2, CloseSame
<1> QED  BY <1>4, <1>5, <1>6

\* The buffer that becomes current does not end the response.
LEMMA GetBufClose ==
  ASSUME BufInv, EndInv, CloseInv, GetBufFree \/ GetBufAlloc
  PROVE  CloseInv'
<1>0. ctx \in Ctx /\ mem \in [Bufs -> Buf] /\ ctx.free \in Seq(Bufs) /\ ctx.bufs \in Nat
  BY DEF BufInv, TypeInv, Ctx
<1>1. pc = "buf" /\ UNCHANGED <<conf, closed, held>> /\ ~closed /\ ~ctx.done
  BY DEF GetBufFree, GetBufAlloc, downVars, CloseInv, BufInv, ControlInv
<1>2. CASE GetBufFree
  <2>1. PICK h \in Bufs : h = Head(ctx.free)
    <3>1. ctx.free # <<>>
      BY <1>2 DEF GetBufFree
    <3>2. Head(ctx.free) \in Bufs
      BY <1>0, <3>1, Popped
    <3> QED  BY <3>2
  <2>2. /\ ctx' = [ctx EXCEPT !.free = Tail(ctx.free), !.out_buf = h]
        /\ mem' = [mem EXCEPT ![h] = ClearFlags(mem[h])]
    BY <1>2, <2>1 DEF GetBufFree
  <2>3. /\ ctx'.out = ctx.out /\ ctx'.out_buf = h /\ ctx'.bufs = ctx.bufs
        /\ ctx'.dcz_header_sent = ctx.dcz_header_sent /\ ctx'.done = ctx.done
    BY <1>0, <2>2 DEF Ctx
  <2>4. ~mem'[h].last_buf /\ \A b \in Bufs : b # h => mem'[b] = mem[b]
    BY <1>0, <2>1, <2>2 DEF ClearFlags, Buf
  <2>5. \A b \in Bufs : mem'[b].last_buf => mem[b].last_buf
    BY <2>4
  <2>6. ctx'.dcz_header_sent <=> conf'.dcz /\ ctx'.bufs > 0
    BY <1>1, <2>3 DEF CloseInv
  <2> QED  BY <1>1, <2>3, <2>4, <2>5, <2>6, CloseStays
<1>3. CASE GetBufAlloc
  <2>1. PICK b, prefix, size, data :
        /\ b = ctx.bufs + 1 /\ prefix = (ctx.bufs = 0 /\ conf.dcz /\ ~ctx.dcz_header_sent)
        /\ ctx' = [ctx EXCEPT !.out_buf = b, !.bufs = b,
           !.dcz_header_sent = ctx.dcz_header_sent \/ prefix]
        /\ mem' = [mem EXCEPT ![b] = NewBuf(size, data)]
    BY <1>3 DEF GetBufAlloc
  <2>2. b \in Bufs
    <3>1. conf.num \in Nat /\ conf.num <= MaxBufs /\ MaxBufs \in Nat /\ ctx.bufs < conf.num
      BY <1>3, BoundsAssumption DEF Bufs, BufInv, TypeInv, GetBufAlloc, MayAlloc
    <3> QED  BY <1>0, <2>1, <3>1 DEF Bufs
  <2>3. /\ ctx'.out = ctx.out /\ ctx'.out_buf = b /\ ctx'.bufs = b
        /\ ctx'.dcz_header_sent = (ctx.dcz_header_sent \/ prefix) /\ ctx'.done = ctx.done
    BY <1>0, <2>1 DEF Ctx
  <2>4. ~mem'[b].last_buf /\ \A x \in Bufs : x # b => mem'[x] = mem[x]
    BY <1>0, <2>1, <2>2 DEF NewBuf
  <2>5. \A x \in Bufs : mem'[x].last_buf => mem[x].last_buf
    BY <2>4
  <2>6. ctx'.dcz_header_sent <=> conf'.dcz /\ ctx'.bufs > 0
    <3>1. ctx.dcz_header_sent <=> conf.dcz /\ ctx.bufs > 0
      BY DEF CloseInv
    <3>2. b > 0 /\ (ctx.bufs > 0 <=> ctx.bufs # 0)
      BY <1>0, <2>1
    <3>3. prefix <=> ctx.bufs = 0 /\ conf.dcz /\ ~ctx.dcz_header_sent
      BY <2>1
    <3>4. ctx'.dcz_header_sent <=> ctx.dcz_header_sent \/ prefix
      BY <2>3
    <3> QED  BY <1>1, <2>3, <3>1, <3>2, <3>3, <3>4
  <2> QED  BY <1>1, <2>3, <2>4, <2>5, <2>6, CloseStays
<1> QED  BY <1>2, <1>3

\* The buffer that ends the response leaves when everything before it has.
LEMMA LeavesClose ==
  ASSUME BufInv, CloseInv, NEW q \in Seq(Bufs), q = held \o ctx.out, Distinct(q),
         NEW k \in 0 .. Len(q), Leaves(q, k), ctx'.out = <<>>, ctx'.done = ctx.done
  PROVE  /\ EndsQueue(held \o ctx.out)'
         /\ closed' => ctx.done /\ held' = <<>>
<1>0. Len(q) \in Nat /\ k \in Nat /\ k <= Len(q)
  <2>1. Len(q) \in Nat
    BY LenProperties
  <2> QED  BY <2>1
<1>1. PICK left \in Seq(Bufs) : /\ left = SubSeq(q, k + 1, Len(q))
                                /\ Len(left) = Len(q) - k
                                /\ \A i \in 1 .. Len(q) - k : left[i] = q[k + i]
  <2>1. CutAt(q, k, SubSeq(q, 1, k), SubSeq(q, k + 1, Len(q)))
        /\ SubSeq(q, 1, k) \in Seq(Bufs) /\ SubSeq(q, k + 1, Len(q)) \in Seq(Bufs)
    BY DistinctCut, Zenon
  <2> QED  BY <2>1, Zenon DEF CutAt
<1>2. /\ held' = left
      /\ \A b \in Bufs : mem'[b].last_buf = mem[b].last_buf
      /\ closed' = (closed \/ \E i \in 1 .. k : mem[q[i]].last_buf)
  BY <1>1 DEF Leaves
<1>3. \A i \in 1 .. Len(q) : q[i] \in Bufs /\ (mem[q[i]].last_buf => i = Len(q) /\ ctx.done)
  BY QueueTyped DEF CloseInv, EndsQueue
<1>4. \A i \in 1 .. Len(left) : mem'[left[i]].last_buf => i = Len(left) /\ ctx'.done
  <2> TAKE i \in 1 .. Len(left)
  <2>1. k + i \in 1 .. Len(q) /\ left[i] = q[k + i] /\ i \in Nat
    <3>1. PICK n \in Nat, m \in Nat : n = Len(q) /\ m = Len(left) /\ m = n - k /\ k <= n
      BY <1>0, <1>1
    <3>2. i \in 1 .. m
      BY <3>1
    <3>3. k + i \in 1 .. n /\ i \in 1 .. n - k /\ i \in Nat
      BY <1>0, <3>1, <3>2
    <3> QED  BY <1>1, <3>1, <3>3
  <2>2. mem'[left[i]].last_buf => k + i = Len(q) /\ ctx.done
    BY <1>2, <1>3, <2>1
  <2> QED  BY <1>0, <1>1, <2>1, <2>2
<1>5. held' \o ctx'.out = left
  BY <1>2
<1>6. EndsQueue(held \o ctx.out)'
  BY <1>4, <1>5 DEF EndsQueue
<1>7. ASSUME closed' PROVE ctx.done /\ held' = <<>>
  <2>1. CASE closed
    <3>1. ctx.done /\ q = <<>>
      BY <2>1 DEF CloseInv
    <3>2. Len(q) = 0
      BY <3>1
    <3>3. Len(left) = 0
      BY <1>0, <1>1, <3>2
    <3> QED  BY <1>2, <3>1, <3>3, EmptySeq
  <2>2. CASE ~closed
    <3>1. PICK i \in 1 .. k : mem[q[i]].last_buf
      BY <1>2, <1>7, <2>2
    <3>2. i \in 1 .. Len(q) /\ i <= k /\ i \in Nat
      BY <1>0
    <3>3. i = Len(q) /\ ctx.done
      BY <1>3, <3>1, <3>2
    <3>4. Len(left) = 0
      BY <1>0, <1>1, <3>2, <3>3
    <3> QED  BY <1>2, <3>3, <3>4, EmptySeq
  <2> QED  BY <2>1, <2>2
<1> QED  BY <1>6, <1>7

\* Delivery closes the response with the buffer that ends it, and then
\* nothing is left.
LEMMA PassClose ==
  ASSUME BufInv, CloseInv, ~ctx.done \/ pc = "deliver", Pass(ctx.out),
         ctx' = [UpdateChains(ctx, mem', ctx.out)
                   EXCEPT !.out = <<>>, !.out_buf = NULL, !.nomem = FALSE],
         UNCHANGED <<conf, in, enc, up>>, pc \in {"entry", "deliver"},
         pc' = IF ctx.done THEN "parked" ELSE "add"
  PROVE  CloseInv'
<1>1. PICK q \in Seq(Bufs) : \E k \in 0 .. Len(q), j \in 0 .. Len(q) :
        \E busy2 \in Seq(Bufs), free2 \in Seq(Bufs) :
          Delivered(q, k, j, busy2, free2) /\ Returned(busy2, free2)
  BY PassGives
<1>2. PICK k \in 0 .. Len(q), j \in 0 .. Len(q) :
        \E busy2 \in Seq(Bufs), free2 \in Seq(Bufs) :
          Delivered(q, k, j, busy2, free2) /\ Returned(busy2, free2)
  BY <1>1
<1>3. PICK busy2 \in Seq(Bufs), free2 \in Seq(Bufs) :
        Delivered(q, k, j, busy2, free2) /\ Returned(busy2, free2)
  BY <1>2
<1>4. q = held \o ctx.out /\ Distinct(q) /\ Leaves(q, k)
  BY <1>3 DEF Delivered
<1>5. /\ ctx'.out = <<>> /\ ctx'.out_buf = NULL /\ ctx'.buffer_in = ctx.buffer_in
      /\ ctx'.dcz_header_sent = ctx.dcz_header_sent /\ ctx'.bufs = ctx.bufs
      /\ ctx'.done = ctx.done /\ ctx'.aborted = ctx.aborted
  BY <1>3 DEF Returned
<1>6. EndsQueue(held \o ctx.out)' /\ (closed' => ctx.done /\ held' = <<>>)
  BY <1>4, <1>5, LeavesClose
<1>7. ~ctx.aborted /\ ~Dead
  BY DEF BufInv, ControlInv, Dead
<1>8. ctx'.done /\ ~Dead' => Emptied'
  BY <1>5, <1>7 DEF CloseInv, Emptied
<1>9. closed' => ctx'.done /\ ~ctx'.aborted /\ pc' \in {"parked", "entry"} /\ held' = <<>>
        /\ ctx'.out = <<>>
  BY <1>5, <1>6, <1>7
<1> QED  BY <1>5, <1>6, <1>8, <1>9 DEF CloseInv

\* So does a call after the end, with what the downstream still holds.
LEMMA PassThroughClose ==
  ASSUME BufInv, CloseInv, PassThrough
  PROVE  CloseInv'
<1>1. pc = "entry" /\ pc' = "parked" /\ ctx.done /\ UNCHANGED <<conf, ctx, in, enc, up>>
        /\ ~ctx.aborted /\ ctx.out = <<>>
  BY DEF PassThrough, BufInv, ControlInv
<1>2. CASE PassFails
  BY <1>1, <1>2, DownFailsClose
<1>3. CASE Pass(<<>>)
  <2>0. TypeInv /\ held \in Seq(Bufs) /\ <<>> \in Seq(Bufs)
    BY DEF BufInv, TypeInv
  <2>1. PICK q \in Seq(Bufs) : q = held \o <<>> /\ q = held
    BY <2>0
  <2>2. PICK k \in 0 .. Len(q) : Leaves(q, k)
    BY <1>3, <2>0, <2>1, PassLeaves
  <2>3. Distinct(q) /\ q = held \o ctx.out
    BY <1>1, <2>1 DEF BufInv, HeldInv
  <2>4. ctx'.out = <<>> /\ ctx'.done = ctx.done
    BY <1>1
  <2>5. EndsQueue(held \o ctx.out)' /\ (closed' => ctx.done /\ held' = <<>>)
    BY <2>2, <2>3, <2>4, LeavesClose
  <2>6. ~Dead
    BY <1>1 DEF Dead
  <2>7. Emptied' /\ Emptied
    BY <1>1, <2>6 DEF CloseInv, Emptied
  <2>8. ctx'.out_buf = NULL
    BY <2>7 DEF Emptied
  <2>9. ctx'.dcz_header_sent <=> conf'.dcz /\ ctx'.bufs > 0
    BY <1>1 DEF CloseInv
  <2> QED  BY <1>1, <2>5, <2>7, <2>8, <2>9 DEF CloseInv
<1> QED  BY <1>2, <1>3 DEF PassThrough

\* The call that ends the frame leaves nothing in the encoder.
LEMMA TerminalEmpties ==
  ASSUME BufInv, pc = "compress",
         NEW o \in Outcomes(Directive, ctx.buffer_in, Space(mem[ctx.out_buf])), Terminal(o)
  PROVE  o.stg = <<>> /\ o.acc = <<>> /\ o.rest = <<>>
<1>1. Coded(Directive, ctx.buffer_in, Space(mem[ctx.out_buf]), o)
  BY CallFacts
<1>2. Zrc(o) = 0 /\ Directive = "end"
  BY DEF Terminal
<1>3. o.stg = <<>>
  <2>1. o.stg \in Seq(Units)
    BY <1>1 DEF Coded
  <2>2. PICK n \in Nat : n = Len(o.stg)
    BY <2>1, LenProperties
  <2>3. Zrc(o) = n + (IF o.coy THEN 1 ELSE 0)
    BY <2>2 DEF Zrc
  <2>4. n = 0
    BY <1>2, <2>3
  <2> QED  BY <2>1, <2>2, <2>4, EmptySeq
<1> QED  BY <1>1, <1>2, <1>3 DEF Coded

\* Queueing: only the call that ends the frame queues the last buffer.
LEMMA EmitClose ==
  ASSUME BufInv, CloseInv, pc = "compress",
         NEW o \in Outcomes(Directive, ctx.buffer_in, Space(mem[ctx.out_buf])),
         Emit(o), enc' = EncAfter(o, Directive), UNCHANGED <<conf, held, closed>>
  PROVE  CloseInv'
<1>0. /\ ctx \in Ctx /\ mem \in [Bufs -> Buf] /\ held \in Seq(Bufs) /\ ctx.out \in Seq(Bufs)
      /\ ~closed /\ ~ctx.done /\ held = ctx.busy
  BY DEF BufInv, TypeInv, Ctx, CloseInv, ControlInv, HeldInv
<1>1. /\ ctx.out_buf \in Bufs /\ Filled(o) \in Buf /\ Advance(o) \in Ctx
      /\ Filled(o) = [mem[ctx.out_buf] EXCEPT !.data = mem[ctx.out_buf].data \o o.put]
  BY CallFacts
<1>2. PICK a \in Ctx, b \in Bufs : a = Advance(o) /\ b = ctx.out_buf
  BY <1>1
<1>3. /\ a.out = ctx.out /\ a.bufs = ctx.bufs /\ a.dcz_header_sent = ctx.dcz_header_sent
      /\ a.done = ctx.done /\ a.aborted = ctx.aborted /\ a.buffer_in = o.rest
  BY <1>0, <1>2, AdvanceKeeps
<1>4. PICK d, f, n : ctx' = [a EXCEPT !.done = d, !.flush = f, !.bytes_out = n,
                                      !.out = Append(a.out, b), !.out_buf = NULL]
                     /\ d = (a.done \/ Terminal(o))
  BY <1>2 DEF Emit, AfterQueueing
<1>5. /\ ctx'.out = Append(ctx.out, b) /\ ctx'.out_buf = NULL /\ ctx'.buffer_in = o.rest
      /\ ctx'.bufs = ctx.bufs /\ ctx'.dcz_header_sent = ctx.dcz_header_sent
      /\ ctx'.done = Terminal(o)
  BY <1>0, <1>3, <1>4 DEF Ctx, Terminal
<1>6. mem' = [mem EXCEPT ![b] = Queued(o)] /\ Emits(o)
  BY <1>2 DEF Emit
<1>7. mem'[b] = Queued(o) /\ \A x \in Bufs : x # b => mem'[x] = mem[x]
  BY <1>0, <1>6
<1>8. Queued(o).last_buf => Terminal(o)
  <2>1. ~mem[b].last_buf
    BY <1>2, BufsFacts DEF CloseInv
  <2>2. mem[b] \in Buf
    BY <1>0
  <2>3. ~Filled(o).last_buf
    BY <1>1, <1>2, <2>1, <2>2 DEF Buf
  <2>4. PICK g \in Buf : g = Filled(o)
    BY <1>1
  <2>5. Queued(o).last_buf = IF Complete(o) THEN Terminal(o) ELSE g.last_buf
    BY <2>4 DEF Queued, Buf
  <2> QED  BY <2>3, <2>4, <2>5
<1>9. EndsQueue(held \o ctx.out)'
  <2>1. PICK q \in Seq(Bufs) : /\ q = held \o ctx.out /\ \A i \in 1 .. Len(q) : q[i] \in Bufs
                               /\ Range(q) = Range(held) \cup Range(ctx.out)
    <3>1. Range(held \o ctx.out) = Range(held) \cup Range(ctx.out)
      BY <1>0, DistinctConcat
    <3> QED  BY <3>1, QueueTyped
  <2>2. held' \o ctx'.out = Append(q, b)
    <3>1. PICK S : S = Bufs
      OBVIOUS
    <3>2. held \in Seq(S) /\ ctx.out \in Seq(S) /\ b \in S
      BY <1>0, <3>1
    <3>3. held \o Append(ctx.out, b) = Append(held \o ctx.out, b)
      BY <3>2
    <3> QED  BY <1>5, <2>1, <3>3
  <2>3. Len(q) \in Nat /\ Len(Append(q, b)) = Len(q) + 1 /\ Append(q, b)[Len(q) + 1] = b
        /\ \A i \in 1 .. Len(q) : Append(q, b)[i] = q[i]
    <3>1. PICK S : S = Bufs
      OBVIOUS
    <3>2. q \in Seq(S) /\ b \in S
      BY <3>1
    <3> QED  BY <3>2, AppendProperties, LenProperties
  <2>4. \A i \in 1 .. Len(q) : q[i] # b /\ ~mem[q[i]].last_buf
    <3> TAKE i \in 1 .. Len(q)
    <3>1. q[i] \in Range(q)
      BY InRange DEF Ranged
    <3>2. b \notin Range(held) /\ b \notin Range(ctx.out)
      BY <1>0, <1>2 DEF BufInv, PlaceInv, Placed
    <3> QED  BY <1>0, <2>1, <3>1, <3>2 DEF CloseInv, EndsQueue
  <2>5. \A i \in 1 .. Len(q) + 1 : mem'[Append(q, b)[i]].last_buf => i = Len(q) + 1
          /\ ctx'.done
    <3> TAKE i \in 1 .. Len(q) + 1
    <3>1. CASE i = Len(q) + 1
      BY <1>5, <1>7, <1>8, <2>3, <3>1
    <3>2. CASE i # Len(q) + 1
      <4>1. i \in 1 .. Len(q)
        BY <2>3, <3>2
      <4>2. Append(q, b)[i] = q[i] /\ q[i] \in Bufs /\ q[i] # b /\ ~mem[q[i]].last_buf
        BY <2>1, <2>3, <2>4, <4>1
      <4> QED  BY <1>7, <4>2
    <3> QED  BY <3>1, <3>2
  <2> QED  BY <2>2, <2>3, <2>5 DEF EndsQueue
<1>10. ctx'.done => Emptied'
  <2>1. enc'.stg = o.stg /\ enc'.acc = o.acc
    BY DEF EncAfter
  <2> QED  BY <1>5, <2>1, TerminalEmpties DEF Emptied
<1>11. ctx'.dcz_header_sent <=> conf'.dcz /\ ctx'.bufs > 0
  BY <1>5 DEF CloseInv
<1> QED  BY <1>0, <1>5, <1>9, <1>10, <1>11 DEF CloseInv

\* filter_compress() keeps the end of the response behind everything else.
LEMMA CompressClose ==
  ASSUME BufInv, CloseInv, Compress
  PROVE  CloseInv'
<1>1. PICK o \in Outcomes(Directive, ctx.buffer_in, Space(mem[ctx.out_buf])) :
        (Suppress(o) \/ Emit(o) \/ EmitFails(o)) /\ enc' = EncAfter(o, Directive)
  BY Zenon DEF Compress
<1>2. pc = "compress" /\ UNCHANGED <<conf, held, closed>>
  BY DEF Compress, downVars
<1>3. CASE Emit(o)
  BY <1>1, <1>2, <1>3, EmitClose
<1>4. CASE Suppress(o) \/ EmitFails(o)
  <2>0. ctx \in Ctx /\ mem \in [Bufs -> Buf] /\ ~closed /\ ~ctx.done
    BY <1>2 DEF BufInv, TypeInv, CloseInv, ControlInv
  <2>1. /\ ctx.out_buf \in Bufs /\ Filled(o) \in Buf /\ Advance(o) \in Ctx
        /\ Filled(o) = [mem[ctx.out_buf] EXCEPT !.data = mem[ctx.out_buf].data \o o.put]
    BY <1>2, CallFacts
  <2>2. PICK a \in Ctx, b \in Bufs : a = Advance(o) /\ b = ctx.out_buf
    BY <2>1
  <2>3. /\ a.out = ctx.out /\ a.bufs = ctx.bufs /\ a.dcz_header_sent = ctx.dcz_header_sent
        /\ a.done = ctx.done /\ a.out_buf = ctx.out_buf
    BY <2>0, <2>2, AdvanceKeeps
  <2>4. /\ ctx'.out = ctx.out /\ ctx'.bufs = ctx.bufs
           /\ ctx'.dcz_header_sent = ctx.dcz_header_sent
        /\ ctx'.done = ctx.done /\ ctx'.out_buf = b
    <3>1. CASE Suppress(o)
      <4>1. ctx' = [a EXCEPT !.flush = FlushLeft(o)]
        BY <2>2, <3>1 DEF Suppress
      <4> QED  BY <2>2, <2>3, <4>1 DEF Ctx
    <3>2. CASE EmitFails(o)
      BY <2>2, <2>3, <3>2 DEF EmitFails
    <3> QED  BY <1>4, <3>1, <3>2
  <2>5. mem' = [mem EXCEPT ![b] = Filled(o)]
    BY <1>4, <2>2 DEF Suppress, EmitFails
  <2>6. mem'[b] = Filled(o) /\ \A x \in Bufs : x # b => mem'[x] = mem[x]
    BY <2>0, <2>5
  <2>7. Filled(o).last_buf = mem[b].last_buf
    <3>1. mem[b] \in Buf
      BY <2>0
    <3> QED  BY <2>1, <2>2, <3>1 DEF Buf
  <2>8. ~mem[b].last_buf
    BY <2>2, BufsFacts DEF CloseInv
  <2>9. \A x \in Bufs : mem'[x].last_buf => mem[x].last_buf
    BY <2>6, <2>7
  <2>10. ctx'.dcz_header_sent <=> conf'.dcz /\ ctx'.bufs > 0
    BY <1>2, <2>4 DEF CloseInv
  <2>11. ctx'.out_buf # NULL => ~mem'[ctx'.out_buf].last_buf
    BY <2>4, <2>6, <2>7, <2>8
  <2> QED  BY <1>2, <2>0, <2>4, <2>9, <2>10, <2>11, CloseStays
<1> QED  BY <1>1, <1>3, <1>4

\* Nothing is closed when the context is created.
LEMMA CloseInit == Init => CloseInv
<1> SUFFICES ASSUME Init PROVE CloseInv
  OBVIOUS
<1>1. /\ held = <<>> /\ ~closed /\ ctx = NewCtx
  BY DEF Init
<1>2. ctx.out = <<>> /\ ctx.out_buf = NULL /\ ~ctx.done /\ ~ctx.dcz_header_sent
        /\ ctx.bufs = 0
  BY <1>1 DEF NewCtx
<1>3. EndsQueue(held \o ctx.out)
  <2>1. held \o ctx.out = <<>> /\ Len(<<>>) = 0
    BY <1>1, <1>2
  <2> QED  BY <2>1 DEF EndsQueue
<1> QED  BY <1>1, <1>2, <1>3 DEF CloseInv

\* Every step keeps the end of the response behind everything else.
LEMMA CloseStep == BufInv /\ EndInv /\ CloseInv /\ [Next]_vars => CloseInv'
<1> SUFFICES ASSUME BufInv, EndInv, CloseInv, [Next]_vars PROVE CloseInv'
  OBVIOUS
<1>1. CASE (\E chain \in Chains :
        Feed(chain)) \/ WriteEvent \/ IdleCall \/ NothingToDo \/ Begin
  BY <1>1, CallsClose
<1>2. CASE PassThrough
  BY <1>2, PassThroughClose
<1>3. CASE BeginNomem
  <2>1. /\ pc = "entry" /\ ~ctx.done /\ UNCHANGED <<conf, in, enc, up>>
    BY <1>3 DEF BeginNomem
  <2>2. ctx.out = <<>>
    BY <2>1 DEF BufInv, ControlInv
  <2>3. CASE /\ Pass(<<>>)
             /\ ctx' = [UpdateChains(ctx, mem', <<>>) EXCEPT !.out_buf = NULL, !.nomem = FALSE]
             /\ pc' = "add"
    <3>1. /\ Pass(ctx.out)
          /\ ctx' = [UpdateChains(ctx, mem', ctx.out)
                       EXCEPT !.out = <<>>, !.out_buf = NULL, !.nomem = FALSE]
      BY <2>2, <2>3, NomemPasses
    <3> QED  BY <2>1, <2>3, <3>1, PassClose
  <2>4. CASE PassFails /\ UNCHANGED ctx /\ pc' = "failed"
    BY <2>1, <2>4, DownFailsClose
  <2> QED  BY <1>3, <2>3, <2>4 DEF BeginNomem
<1>4. CASE AddPending \/ AddNone \/ GetBufKeep \/ GetBufFails \/ CodecFails \/ ParkFails
  BY <1>4, TurnsClose
<1>5. CASE InitCctx \/ AddLink \/ GetBufNomem \/ Park \/ Fail
  BY <1>5, WorkClose
<1>6. CASE GetBufFree \/ GetBufAlloc
  BY <1>6, GetBufClose
<1>7. CASE Compress
  BY <1>7, CompressClose
<1>8. CASE Deliver
  <2>1. pc = "deliver" /\ Pass(ctx.out) /\ UNCHANGED <<conf, in, enc, up>>
    BY <1>8 DEF Deliver
  <2>2. ctx' = [UpdateChains(ctx, mem', ctx.out)
                  EXCEPT !.out = <<>>, !.out_buf = NULL, !.nomem = FALSE]
    BY <1>8 DEF Deliver
  <2>3. pc' = IF ctx.done THEN "parked" ELSE "add"
    BY <1>8 DEF Deliver
  <2> QED  BY <2>1, <2>2, <2>3, PassClose
<1>9. CASE DeliverFails
  BY <1>9, DownFailsClose DEF DeliverFails
<1>10. CASE UNCHANGED vars
  BY <1>10 DEF vars, CloseInv, EndsQueue, Emptied, Dead
<1> QED
  BY <1>1, <1>2, <1>3, <1>4, <1>5, <1>6, <1>7, <1>8, <1>9, <1>10 DEF Next, Step

-----------------------------------------------------------------------------
(* The refinement of FrameStream *)

\* A string is a prefix of what it is continued to.
LEMMA PrefixOfCat ==
  \A a, b \in Str : IsPrefix(a, a ++ b)
<1> TAKE a \in Str, b \in Str
<1>1. PICK S : S = Units
  OBVIOUS
<1>2. a \in Seq(S) /\ b \in Seq(S)
  BY <1>1 DEF Str
<1>3. /\ a \o b \in Seq(S) /\ Len(a \o b) = Len(a) + Len(b) /\ Len(a) \in Nat
         /\ Len(b) \in Nat
      /\ \A i \in 1 .. Len(a) : (a \o b)[i] = a[i]
  BY <1>2, ConcatProperties, LenProperties
<1>4. PICK c \in Seq(S) : c = a \o b
  BY <1>3
<1>5. SubSeq(c, 1, Len(a)) = SubSeq(a, 1, Len(a))
  BY <1>2, <1>3, <1>4
<1>6. Len(a) <= Len(c)
  BY <1>3, <1>4
<1> QED  BY <1>4, <1>5, <1>6 DEF IsPrefix, ++

\* The ideal stream, as the pieces of the pipeline.
LEMMA IdealPieces ==
  ASSUME BufInv
  PROVE  Stream!Ideal(conf.dcz, up.tokens, up.eof)
           = ((IF conf.dcz THEN <<PREFIX>> ELSE <<>>) ++ Body)
               ++ (IF up.eof THEN <<EPILOGUE>> ELSE <<>>)
<1>1. PICK n \in Nat : n = up.tokens
  BY BoundsAssumption DEF BufInv, TypeInv
<1>2. [i \in 1 .. n |-> i] = [i \in 1 .. n |-> 0 + i]
  OBVIOUS
<1>3. Body = [i \in 1 .. up.tokens |-> i]
  BY <1>1, <1>2 DEF Body, Tokens
<1> QED  BY <1>3, Zenon DEF Stream!Ideal, ++

\* What is on the wire is a prefix of the ideal stream, and all of it once
\* the response is closed.
OnTheWay ==
  /\ wire \in Str
  /\ \E rest \in Str : /\ wire ++ rest = Stream!Ideal(conf.dcz, up.tokens, up.eof)
                       /\ closed => up.eof /\ rest = <<>>

\* The pieces in flight are what the wire lacks of the ideal stream.
LEMMA WireIsPrefix == BufInv /\ StreamInv /\ CloseInv /\ ~Dead => OnTheWay
<1> SUFFICES ASSUME BufInv, StreamInv, CloseInv, ~Dead PROVE OnTheWay
  OBVIOUS
<1> USE DEF OnTheWay
<1>0. Flowing
  BY FlowTyped
<1>1. PICK w, p, r, f, t, e, g, k :
        /\ w = wire /\ p = Prefix /\ r =
           (BufData(mem, held) ++ (BufData(mem, ctx.out) ++ Current)) ++ Behind
        /\ f = Body /\ t = (IF up.eof THEN <<EPILOGUE>> ELSE <<>>) /\ e = <<>>
        /\ g = <<EPILOGUE>> /\ k = <<PREFIX>>
        /\ w \in Str /\ p \in Str /\ r \in Str /\ f \in Str /\ t \in Str /\ e \in Str
        /\ g \in Str /\ k \in Str
  <2>1. BufData(mem, held) ++ (BufData(mem, ctx.out) ++ Current) \in Str
    BY <1>0, CatTyped DEF Flowing
  <2>2. (BufData(mem, held) ++ (BufData(mem, ctx.out) ++ Current)) ++ Behind \in Str
    BY <1>0, <2>1, CatTyped DEF Flowing
  <2> QED  BY <1>0, <2>2, Marks DEF Flowing
<1>2. Ahead ++ Behind = w ++ r
  <2>1. BufData(mem, held) ++ (BufData(mem, ctx.out) ++ Current) \in Str
    BY <1>0, CatTyped DEF Flowing
  <2> QED  BY <1>0, <1>1, <2>1, CatAssoc DEF Ahead, Flowing
<1>3. Ended => up.eof
  BY DEF Ended, StreamInv, EndInv
<1>4. IF Ended THEN w ++ r = p ++ (f ++ g) ELSE w ++ r = p ++ (f ++ e)
  BY <1>1, <1>2 DEF StreamInv, FlowInv, Piped
<1>5. closed => Ended /\ r = e
  <2>1. SUFFICES ASSUME closed PROVE Ended /\ r = e
    OBVIOUS
  <2>2. /\ ctx.done /\ held = <<>> /\ ctx.out = <<>> /\ Emptied
    BY <2>1 DEF CloseInv
  <2>3. ctx.in = <<>> /\ in = <<>>
    BY <2>2 DEF StreamInv, EndInv, NoMoreInput
  <2>4. BufData(mem, <<>>) = <<>> /\ LinkData(<<>>) = <<>>
    <3>1. mem \in [Bufs -> Buf]
      BY DEF BufInv, TypeInv
    <3> QED  BY <3>1, BufDataFacts, LinkDataFacts, Zenon
  <2>5. Current = e /\ BufData(mem, held) = e /\ BufData(mem, ctx.out) = e
    BY <1>1, <2>2, <2>4 DEF Current, Emptied
  <2>6. enc.stg = e /\ enc.acc = e /\ ctx.buffer_in = e /\ LinkData(ctx.in) = e
          /\ LinkData(in) = e
    BY <1>1, <2>2, <2>3, <2>4 DEF Emptied
  <2>7. e ++ e = e
    BY <1>1, CatEmpty
  <2>8. Behind = e
    BY <2>6, <2>7 DEF Behind
  <2> QED  BY <1>1, <2>2, <2>5, <2>7, <2>8 DEF Ended
<1>6. PICK pre \in Str : pre = IF conf.dcz THEN <<PREFIX>> ELSE <<>>
  BY Marks
<1>7. Stream!Ideal(conf.dcz, up.tokens, up.eof) = (pre ++ f) ++ t
  BY <1>1, <1>6, IdealPieces
<1>8. ctx.bufs \in Nat
  BY DEF BufInv, TypeInv, Ctx
<1>9. CASE ctx.bufs = 0
  <2>1. w = e
    BY <1>1, <1>9 DEF StreamInv, EndInv
  <2>2. ~closed
    <3>1. SUFFICES ASSUME closed PROVE FALSE
      OBVIOUS
    <3>2. e ++ e = p ++ (f ++ g)
      BY <1>4, <1>5, <2>1, <3>1
    <3>3. e ++ e = e /\ f ++ g \in Str
      BY <1>1, CatEmpty, CatTyped
    <3>4. p \o (f \o g) = <<>>
      BY <1>1, <3>2, <3>3 DEF ++
    <3>5. f \o g = <<>>
      BY <1>1, <3>3, <3>4, NonEmptyCat DEF Str, ++
    <3>6. g = <<>>
      BY <1>1, <3>5, NonEmptyCat DEF Str
    <3> QED  BY <1>1, <3>6
  <2>3. PICK x \in Str : x = (pre ++ f) ++ t
    BY <1>1, CatTyped
  <2>4. w ++ x = x
    BY <2>1, <1>1, CatEmpty
  <2> QED  BY <1>1, <1>7, <2>2, <2>3, <2>4
<1>10. CASE ctx.bufs # 0
  <2>1. p = pre
    <3>1. ctx.bufs > 0
      BY <1>8, <1>10
    <3>2. ctx.dcz_header_sent <=> conf.dcz
      BY <3>1 DEF CloseInv
    <3> QED  BY <1>1, <1>6, <3>2 DEF Prefix
  <2>2. (p ++ f) ++ t = p ++ (f ++ t)
    BY <1>1, CatAssoc
  <2>3. CASE Ended
    <3>1. t = g
      BY <1>1, <1>3, <2>3
    <3>2. w ++ r = (pre ++ f) ++ t
      BY <1>4, <2>1, <2>2, <2>3, <3>1
    <3> QED  BY <1>1, <1>3, <1>5, <1>7, <2>3, <3>2
  <2>4. CASE ~Ended
    <3>1. w ++ r = p ++ f
      BY <1>1, <1>4, <2>4, CatEmpty
    <3>2. w ++ (r ++ t) = (w ++ r) ++ t /\ r ++ t \in Str
      <4>1. w \in Str /\ r \in Str /\ t \in Str
        BY <1>1
      <4> QED  BY <4>1, CatAssoc, CatTyped
    <3>3. w ++ (r ++ t) = (pre ++ f) ++ t
      BY <2>1, <3>1, <3>2
    <3>4. ~closed
      BY <1>5, <2>4
    <3> QED  BY <1>1, <1>7, <3>2, <3>3, <3>4
  <2> QED  BY <2>3, <2>4
<1> QED  BY <1>9, <1>10

\* A step that sends something, after which the invariants hold.
LEMMA Sends ==
  ASSUME BufInv', StreamInv', CloseInv', ~Dead', wire \in Str,
         NEW x \in Str, wire' = wire ++ x, UNCHANGED <<conf, up>>,
         ~ctx.aborted, ctx'.aborted = ctx.aborted, ~closed, closed' \in BOOLEAN
  PROVE  Stream!Transmit
<1>1. (BufInv /\ StreamInv /\ CloseInv /\ ~Dead => OnTheWay)'
  BY WireIsPrefix, PTL
<1>2. OnTheWay'
  BY <1>1
<1>3. PICK ideal : ideal = Stream!Ideal(conf.dcz, up.tokens, up.eof)
  OBVIOUS
<1>4. PICK rest \in Str : wire' ++ rest = ideal /\ (closed' => up.eof /\ rest = <<>>)
  BY <1>2, <1>3 DEF OnTheWay, Stream!Ideal
<1>5. wire' \in Str
  BY CatTyped
<1>6. IsPrefix(wire, wire') /\ IsPrefix(wire', ideal)
  BY <1>4, <1>5, PrefixOfCat
<1>7. closed' => up.eof /\ wire' = ideal
  BY <1>4, <1>5, CatEmpty
<1>8. Stream!IsPrefix(wire, wire') /\ Stream!IsPrefix(wire', ideal)
  BY <1>6, Zenon DEF IsPrefix, Stream!IsPrefix
<1>9. conf'.dcz = conf.dcz /\ up'.tokens = up.tokens /\ up'.eof = up.eof
  OBVIOUS
<1> QED  BY <1>3, <1>7, <1>8, <1>9 DEF Stream!Transmit

\* What leaves the queue goes to the wire; nothing leaves a closed response.
LEMMA LeavesSend ==
  ASSUME BufInv, CloseInv, BufInv', StreamInv', CloseInv', ~Dead', UNCHANGED <<conf, up>>,
         ~ctx.aborted, ctx'.aborted = ctx.aborted,
         NEW q \in Seq(Bufs), q = held \o ctx.out, Distinct(q), NEW k \in 0 .. Len(q),
           Leaves(q, k)
  PROVE  [Stream!Next]_(Stream!streamVars)
<1>1. PICK sent \in Seq(Bufs) : sent = SubSeq(q, 1, k) /\ Len(sent) = k
  <2>1. CutAt(q, k, SubSeq(q, 1, k), SubSeq(q, k + 1, Len(q)))
          /\ SubSeq(q, 1, k) \in Seq(Bufs)
    BY DistinctCut, Zenon
  <2> QED  BY <2>1, Zenon DEF CutAt
<1>2. mem \in [Bufs -> Buf] /\ wire \in Str
  BY DEF BufInv, TypeInv, Str
<1>3. PICK x \in Str : x = BufData(mem, sent)
  BY <1>2, BufDataFacts, Zenon DEF Str
<1>4. wire' = wire ++ x /\ closed' \in BOOLEAN
  BY <1>1, <1>3 DEF Leaves, ++, BufInv, TypeInv
<1>5. CASE ~closed
  <2>1. Stream!Transmit
    BY <1>2, <1>4, <1>5, Sends
  <2> QED  BY <2>1 DEF Stream!Next
<1>6. CASE closed
  <2>1. q = <<>>
    BY <1>6 DEF CloseInv
  <2>2. k = 0 /\ sent = <<>>
    <3>1. k = 0
      BY <2>1
    <3> QED  BY <1>1, <3>1, EmptySeq
  <2>3. x = <<>>
    BY <1>2, <1>3, <2>2, BufDataFacts, Zenon
  <2>4. wire' = wire
    BY <1>2, <1>4, <2>3, CatEmpty
  <2>5. closed' = closed
    BY <1>6, <2>2 DEF Leaves, BufInv, TypeInv
  <2> QED  BY <2>4, <2>5 DEF Stream!streamVars
<1> QED  BY <1>5, <1>6

\* Delivery is a step of the abstract stream, or none.
LEMMA PassSends ==
  ASSUME BufInv, CloseInv, BufInv', StreamInv', CloseInv', UNCHANGED <<conf, up>>,
         ~ctx.done \/ pc = "deliver", Pass(ctx.out),
         ctx' = [UpdateChains(ctx, mem', ctx.out)
                   EXCEPT !.out = <<>>, !.out_buf = NULL, !.nomem = FALSE],
         pc \in {"entry", "deliver"}, pc' # "failed"
  PROVE  [Stream!Next]_(Stream!streamVars)
<1>1. PICK q \in Seq(Bufs) : \E k \in 0 .. Len(q), j \in 0 .. Len(q) :
        \E busy2 \in Seq(Bufs), free2 \in Seq(Bufs) :
          Delivered(q, k, j, busy2, free2) /\ Returned(busy2, free2)
  BY PassGives
<1>2. PICK k \in 0 .. Len(q), j \in 0 .. Len(q) :
        \E busy2 \in Seq(Bufs), free2 \in Seq(Bufs) :
          Delivered(q, k, j, busy2, free2) /\ Returned(busy2, free2)
  BY <1>1
<1>3. PICK busy2 \in Seq(Bufs), free2 \in Seq(Bufs) :
        Delivered(q, k, j, busy2, free2) /\ Returned(busy2, free2)
  BY <1>2
<1>4. q = held \o ctx.out /\ Distinct(q) /\ Leaves(q, k)
  BY <1>3 DEF Delivered
<1>5. ~ctx.aborted /\ ctx'.aborted = ctx.aborted
  BY <1>3 DEF Returned, BufInv, ControlInv
<1>6. ~Dead'
  BY <1>5 DEF Dead
<1> QED  BY <1>4, <1>5, <1>6, LeavesSend

\* So is a call after the end of the response.
LEMMA PassThroughSends ==
  ASSUME BufInv, CloseInv, BufInv', StreamInv', CloseInv', PassThrough
  PROVE  [Stream!Next]_(Stream!streamVars)
<1>1. pc = "entry" /\ pc' = "parked" /\ ctx.done /\ UNCHANGED <<conf, ctx, in, enc, up>>
        /\ ~ctx.aborted /\ ctx.out = <<>>
  BY DEF PassThrough, BufInv, ControlInv
<1>2. CASE PassFails
  BY <1>1, <1>2 DEF PassFails, Stream!streamVars
<1>3. CASE Pass(<<>>)
  <2>0. TypeInv /\ held \in Seq(Bufs) /\ <<>> \in Seq(Bufs)
    BY DEF BufInv, TypeInv
  <2>1. PICK q \in Seq(Bufs) : q = held \o <<>> /\ q = held
    BY <2>0
  <2>2. PICK k \in 0 .. Len(q) : Leaves(q, k)
    BY <1>3, <2>0, <2>1, PassLeaves
  <2>3. Distinct(q) /\ q = held \o ctx.out
    BY <1>1, <2>1 DEF BufInv, HeldInv
  <2>4. ~Dead' /\ ctx'.aborted = ctx.aborted
    BY <1>1 DEF Dead
  <2> QED  BY <1>1, <2>2, <2>3, <2>4, LeavesSend
<1> QED  BY <1>2, <1>3 DEF PassThrough

\* The upstream's call hands over more of the body.
LEMMA FeedHands ==
  ASSUME BufInv, BufInv', NEW chain \in Chains, Feed(chain)
  PROVE  Stream!HandOver
<1>1. /\ ~ctx.aborted /\ ~up.eof /\ UNCHANGED <<conf, ctx, wire, closed>>
      /\ up'.tokens = up.tokens + Len(LinkData(chain))
  BY DEF Feed, downVars
<1>2. up.tokens \in Nat /\ up'.tokens \in Nat /\ up'.eof \in BOOLEAN
  BY BoundsAssumption DEF BufInv, TypeInv
<1>3. up'.tokens >= up.tokens
  <2>1. up.tokens \in 0 .. MaxTokens
    BY DEF BufInv, TypeInv
  <2>2. PICK n \in 0 .. MaxTokens - up.tokens : Len(LinkData(chain)) = n
    BY <2>1, ChainContinues
  <2>3. n >= 0 /\ n \in Int
    OBVIOUS
  <2> QED  BY <1>1, <1>2, <2>2, <2>3
<1> QED  BY <1>1, <1>2, <1>3 DEF Stream!HandOver

\* The steps that neither send nor fail nor feed.
LEMMA InsideSteps ==
  ASSUME BufInv,
         \/ WriteEvent \/ IdleCall \/ NothingToDo \/ Begin \/ InitCctx
         \/ AddPending \/ AddNone \/ AddLink
         \/ GetBufKeep \/ GetBufFree \/ GetBufAlloc \/ GetBufFails \/ GetBufNomem
         \/ CodecFails \/ Park \/ ParkFails \/ DeliverFails
  PROVE  UNCHANGED Stream!streamVars
<1>1. UNCHANGED <<conf, wire, closed, up>>
  BY DEF WriteEvent, IdleCall, NothingToDo, Begin, InitCctx, AddPending, AddNone, AddLink,
         GetBufKeep, GetBufFree, GetBufAlloc, GetBufFails, GetBufNomem, CodecFails,
         Park, ParkFails, DeliverFails, PassFails, downVars
<1>2. ctx'.aborted = ctx.aborted
  <2>1. ctx \in Ctx
    BY DEF BufInv, TypeInv
  <2> QED
    BY <2>1 DEF Ctx, WriteEvent, IdleCall, NothingToDo, Begin, InitCctx, AddPending, AddNone,
       AddLink, GetBufKeep, GetBufFree, GetBufAlloc, GetBufFails, GetBufNomem, CodecFails,
         Park, ParkFails, DeliverFails
<1> QED  BY <1>1, <1>2 DEF Stream!streamVars

\* Every step of the filter is a step of the abstract stream, or none.
LEMMA StreamStep ==
  BufInv /\ StreamInv /\ CloseInv /\ BufInv' /\ StreamInv' /\ CloseInv' /\ [Next]_vars
    => [Stream!Next]_(Stream!streamVars)
<1> SUFFICES ASSUME BufInv, StreamInv, CloseInv, BufInv', StreamInv', CloseInv', [Next]_vars
             PROVE  [Stream!Next]_(Stream!streamVars)
  OBVIOUS
<1>1. CASE \E chain \in Chains : Feed(chain)
  BY <1>1, FeedHands DEF Stream!Next
<1>2. CASE \/ WriteEvent \/ IdleCall \/ NothingToDo \/ Begin \/ InitCctx
           \/ AddPending \/ AddNone \/ AddLink
           \/ GetBufKeep \/ GetBufFree \/ GetBufAlloc \/ GetBufFails \/ GetBufNomem
           \/ CodecFails \/ Park \/ ParkFails \/ DeliverFails
  BY <1>2, InsideSteps
<1>3. CASE PassThrough
  BY <1>3, PassThroughSends
<1>4. CASE BeginNomem
  <2>1. /\ pc = "entry" /\ ~ctx.done /\ UNCHANGED <<conf, up>>
    BY <1>4 DEF BeginNomem
  <2>2. ctx.out = <<>>
    BY <2>1 DEF BufInv, ControlInv
  <2>3. CASE /\ Pass(<<>>)
             /\ ctx' = [UpdateChains(ctx, mem', <<>>) EXCEPT !.out_buf = NULL, !.nomem = FALSE]
             /\ pc' = "add"
    <3>1. /\ Pass(ctx.out)
          /\ ctx' = [UpdateChains(ctx, mem', ctx.out)
                       EXCEPT !.out = <<>>, !.out_buf = NULL, !.nomem = FALSE]
      BY <2>2, <2>3, NomemPasses
    <3> QED  BY <2>1, <2>3, <3>1, PassSends
  <2>4. CASE PassFails /\ UNCHANGED ctx
    BY <2>1, <2>4 DEF PassFails, Stream!streamVars
  <2> QED  BY <1>4, <2>3, <2>4 DEF BeginNomem
<1>5. CASE Compress
  <2>1. PICK o \in Outcomes(Directive, ctx.buffer_in, Space(mem[ctx.out_buf])) :
          Suppress(o) \/ Emit(o) \/ EmitFails(o)
    BY <1>5, Zenon DEF Compress
  <2>2. pc = "compress" /\ UNCHANGED <<conf, up, wire, closed>>
    BY <1>5 DEF Compress, downVars
  <2>3. Advance(o) \in Ctx
    BY <2>2, CallFacts
  <2>4. ctx'.aborted = ctx.aborted
    BY <2>1, <2>3, CompressGives
  <2> QED  BY <2>2, <2>4 DEF Stream!streamVars
<1>6. CASE Deliver
  <2>1. pc = "deliver" /\ Pass(ctx.out) /\ UNCHANGED <<conf, up>> /\ pc' # "failed"
    BY <1>6 DEF Deliver
  <2>2. ctx' = [UpdateChains(ctx, mem', ctx.out)
                  EXCEPT !.out = <<>>, !.out_buf = NULL, !.nomem = FALSE]
    BY <1>6 DEF Deliver
  <2> QED  BY <2>1, <2>2, PassSends
<1>7. CASE Fail
  <2>1. ctx \in Ctx /\ pc = "failed" /\ ~closed /\ ~ctx.aborted
          /\ UNCHANGED <<conf, up, wire, closed>>
    BY <1>7 DEF Fail, BufInv, TypeInv, ControlInv, CloseInv, downVars
  <2>2. ctx'.aborted = TRUE
    BY <1>7, <2>1 DEF Fail, Ctx
  <2> QED  BY <2>1, <2>2 DEF Stream!Abort, Stream!Next
<1>8. CASE UNCHANGED vars
  BY <1>8 DEF vars, Stream!streamVars
<1> QED
  BY <1>1, <1>2, <1>3, <1>4, <1>5, <1>6, <1>7, <1>8 DEF Next, Step

\* The filter starts where the abstract stream does.
LEMMA StreamStart == Init => Stream!Init
BY DEF Init, Stream!Init, NewCtx

\* In every state of the body filter the buffer that ends the response is the
\* last of its queue, and when it has left there is nothing behind it.
THEOREM EndInvariant == Spec => [](BufInv /\ StreamInv /\ CloseInv)
<1>1. BufInv /\ StreamInv /\ CloseInv /\ [Next]_vars => CloseInv'
  BY CloseStep DEF StreamInv
<1> QED  BY <1>1, CloseInit, StreamInvariant, PTL DEF Spec

\* The body filter implements FrameStream, for every value of the constants:
\* what the client receives is at any time a prefix of the one frame of the
\* body handed over so far, it is marked complete only when all of that frame
\* was sent, and nothing is sent after an abort.
THEOREM ImplementsFrameStream == Spec => StreamRefined
<1> QED  BY EndInvariant, StreamStart, StreamStep, PTL DEF Spec, StreamRefined, Stream!Spec
=============================================================================
