-------------------------- MODULE DczProfiles_proofs --------------------------
(***************************************************************************)
(* For all configurations, dictionaries, lengths and budgets: the window   *)
(* of a response, the budget it keeps, the key its context is filed under  *)
(* and the dictionaries prepared for it (DczProfiles).                     *)
(*                                                                         *)
(* The arithmetic comes first (powers of two, the rounded-up logarithm,    *)
(* the key's fields), then the inductive invariant DczInv: build_cdicts()  *)
(* has covered every location before the one in the making, and that one   *)
(* up to its cursor.                                                       *)
(***************************************************************************)
EXTENDS DczProfiles, FiniteSetTheorems, WellFoundedInduction, TLAPS

-----------------------------------------------------------------------------
(* The key *)

Bit(g) == IF g THEN 1 ELSE 0

(* A packed key is the sum of its three fields, each in its range. *)
LEMMA PackedFields ==
  ASSUME NEW l \in Int, NEW g \in BOOLEAN, NEW w \in Int,
         ProfilePack(l, g, w) # INVALID
  PROVE  /\ 0 <= l + LevelBias /\ l + LevelBias <= LevelMax
         /\ 0 <= w /\ w <= WlogMax
         /\ ProfilePack(l, g, w) =
              (l + LevelBias) + w * WlogShift + Bit(g) * LongShift
<1>1. ProfilePack(l, g, w) =
        (l + LevelBias) + w * WlogShift + (IF g THEN LongShift ELSE 0)
  BY SMT DEF ProfilePack
<1>2. /\ ~ (l < - LevelBias) /\ ~ (l + LevelBias > LevelMax)
      /\ ~ (w < 0) /\ ~ (w > WlogMax)
  BY SMT DEF ProfilePack
<1>3. (IF g THEN LongShift ELSE 0) = Bit(g) * LongShift
  BY SMT DEF Bit, LongShift
<1> QED  BY <1>1, <1>2, <1>3, SMT DEF LevelBias, LevelMax, WlogMax

(* A Boolean is its bit. *)
LEMMA BitIsInjective ==
  ASSUME NEW g1 \in BOOLEAN, NEW g2 \in BOOLEAN, Bit(g1) = Bit(g2)
  PROVE  g1 = g2
<1>1. CASE g1 /\ g2      BY <1>1
<1>2. CASE ~ g1 /\ ~ g2  BY <1>2
<1>3. CASE g1 /\ ~ g2    BY <1>3 DEF Bit
<1>4. CASE ~ g1 /\ g2    BY <1>4 DEF Bit
<1> QED  BY <1>1, <1>2, <1>3, <1>4

(* Three fields side by side: the sum determines each of them. *)
LEMMA FieldsApart ==
  ASSUME NEW a1 \in Int, NEW w1 \in Int, NEW b1 \in Int,
         NEW a2 \in Int, NEW w2 \in Int, NEW b2 \in Int,
         0 <= a1, a1 <= 262143, 0 <= a2, a2 <= 262143,
         0 <= w1, w1 <= 63, 0 <= w2, w2 <= 63,
         0 <= b1, b1 <= 1, 0 <= b2, b2 <= 1,
         a1 + w1 * 262144 + b1 * 16777216 = a2 + w2 * 262144 + b2 * 16777216
  PROVE  a1 = a2 /\ w1 = w2 /\ b1 = b2
  BY SMT

(* The fields read back by division. *)
LEMMA FieldsBack ==
  ASSUME NEW a \in Int, NEW w \in Int, NEW b \in Int,
         0 <= a, a <= 262143, 0 <= w, w <= 63, 0 <= b, b <= 1,
         NEW key \in Int, key = a + w * 262144 + b * 16777216
  PROVE  /\ key % 262144 = a
         /\ (key \div 262144) % 64 = w
         /\ (key \div 16777216) % 2 = b
<1>1. key % 262144 = a  BY SMT
<1>2. key \div 262144 = w + b * 64  BY SMT
<1>3. (w + b * 64) % 64 = w  BY SMT
<1>4. key \div 16777216 = b  BY SMT
<1>5. b % 2 = b  BY SMT
<1> QED  BY <1>1, <1>2, <1>3, <1>4, <1>5, SMT

(* Two parameter sets with one key are the same set: no two profiles share *)
(* a context (filter_module.c:1226-1230, ngx_http_zstd_profile_pack()).    *)
THEOREM ProfileKeyInjective ==
  ASSUME NEW l1 \in Int, NEW g1 \in BOOLEAN, NEW w1 \in Int,
         NEW l2 \in Int, NEW g2 \in BOOLEAN, NEW w2 \in Int,
         ProfilePack(l1, g1, w1) # INVALID,
         ProfilePack(l1, g1, w1) = ProfilePack(l2, g2, w2)
  PROVE  l1 = l2 /\ g1 = g2 /\ w1 = w2
<1>1. /\ 0 <= l1 + LevelBias /\ l1 + LevelBias <= LevelMax
      /\ 0 <= w1 /\ w1 <= WlogMax
      /\ ProfilePack(l1, g1, w1) =
           (l1 + LevelBias) + w1 * WlogShift + Bit(g1) * LongShift
  BY PackedFields
<1>2. /\ 0 <= l2 + LevelBias /\ l2 + LevelBias <= LevelMax
      /\ 0 <= w2 /\ w2 <= WlogMax
      /\ ProfilePack(l2, g2, w2) =
           (l2 + LevelBias) + w2 * WlogShift + Bit(g2) * LongShift
  BY PackedFields
<1>3. /\ Bit(g1) \in Int /\ 0 <= Bit(g1) /\ Bit(g1) <= 1
      /\ Bit(g2) \in Int /\ 0 <= Bit(g2) /\ Bit(g2) <= 1
  BY SMT DEF Bit
<1>4. l1 + LevelBias \in Int /\ l2 + LevelBias \in Int
  BY SMT DEF LevelBias
<1> DEFINE a1 == l1 + LevelBias
           a2 == l2 + LevelBias
           b1 == Bit(g1)
           b2 == Bit(g2)
<1>5. a1 = a2 /\ w1 = w2 /\ b1 = b2
  <2>1. /\ a1 \in Int /\ 0 <= a1 /\ a1 <= 262143
        /\ a2 \in Int /\ 0 <= a2 /\ a2 <= 262143
    BY <1>1, <1>2, <1>4, SMT DEF LevelMax
  <2>2. 0 <= w1 /\ w1 <= 63 /\ 0 <= w2 /\ w2 <= 63
    BY <1>1, <1>2, SMT DEF WlogMax
  <2>3. a1 + w1 * 262144 + b1 * 16777216 = a2 + w2 * 262144 + b2 * 16777216
    <3>1. (l1 + LevelBias) + w1 * WlogShift + Bit(g1) * LongShift
            = (l2 + LevelBias) + w2 * WlogShift + Bit(g2) * LongShift
      BY <1>1, <1>2, Zenon
    <3> QED  BY <3>1 DEF WlogShift, LongShift
  <2>4. b1 \in Int /\ 0 <= b1 /\ b1 <= 1 /\ b2 \in Int /\ 0 <= b2 /\ b2 <= 1
    BY <1>3
  <2> HIDE DEF a1, a2, b1, b2
  <2> QED  BY <2>1, <2>2, <2>3, <2>4, FieldsApart, SMT
<1>6. l1 = l2
  BY <1>5, SMT DEF LevelBias
<1> QED  BY <1>5, <1>6, BitIsInjective

(* The key gives the parameters back (filter_module.c:1321-1333,           *)
(* ngx_http_zstd_profile_unpack()).                                        *)
THEOREM ProfileKeyReversible ==
  ASSUME NEW l \in Int, NEW g \in BOOLEAN, NEW w \in Int,
         ProfilePack(l, g, w) # INVALID
  PROVE  ProfileUnpack(ProfilePack(l, g, w)) =
           [level |-> l, w |-> w, long |-> g]
<1> DEFINE key == ProfilePack(l, g, w)
<1>1. /\ 0 <= l + LevelBias /\ l + LevelBias <= LevelMax
      /\ 0 <= w /\ w <= WlogMax
      /\ key = (l + LevelBias) + w * WlogShift + Bit(g) * LongShift
  BY PackedFields
<1>2. Bit(g) \in Int /\ 0 <= Bit(g) /\ Bit(g) <= 1
  BY SMT DEF Bit
<1>3. l + LevelBias \in Int /\ key \in Int
  BY <1>1, <1>2, SMT DEF LevelBias, WlogShift, LongShift
<1> HIDE DEF key
<1>4. /\ key % WlogShift = l + LevelBias
      /\ (key \div WlogShift) % (WlogMax + 1) = w
      /\ (key \div LongShift) % 2 = Bit(g)
  BY <1>1, <1>2, <1>3, FieldsBack, SMT
  DEF LevelMax, WlogMax, WlogShift, LongShift
<1>5. (key % WlogShift) - LevelBias = l
  BY <1>4, SMT DEF LevelBias
<1>6. ((key \div LongShift) % 2 = 1) = g
  <2>1. (Bit(g) = 1) = g
    BY SMT DEF Bit
  <2> QED  BY <1>4, <2>1
<1> QED  BY <1>4, <1>5, <1>6 DEF ProfileUnpack, key

-----------------------------------------------------------------------------
(* Powers of two *)

LEMMA DisjointUnion ==
  ASSUME NEW S, NEW T, IsFiniteSet(S), IsFiniteSet(T), S \cap T = {}
  PROVE  Cardinality(S \cup T) = Cardinality(S) + Cardinality(T)
<1>1. Cardinality(S \cup T) = Cardinality(S) + Cardinality(T) - Cardinality(S \cap T)
  BY FS_Union
<1>2. Cardinality(S \cap T) = 0
  BY FS_EmptySet
<1>3. Cardinality(S) \in Nat /\ Cardinality(T) \in Nat
  BY FS_CardinalityType
<1> QED BY <1>1, <1>2, <1>3

LEMMA PowerStep ==
  ASSUME NEW n \in Nat
  PROVE  2 ^ (n + 1) = 2 * 2 ^ n /\ 2 ^ n \in Nat
<1> DEFINE A == 1 .. n
           m == n + 1
           with == [a \in SUBSET A |-> a \cup {m}]
           W == {a \cup {m} : a \in SUBSET A}
<1>1. /\ IsFiniteSet(A) /\ Cardinality(A) = n
      /\ IsFiniteSet(1 .. m) /\ Cardinality(1 .. m) = m
  BY FS_Interval
<1>2. 1 .. m = A \cup {m} /\ m \notin A
  OBVIOUS
<1> HIDE DEF A, m
<1>3. /\ IsFiniteSet(SUBSET A) /\ Cardinality(SUBSET A) = 2 ^ n
      /\ Cardinality(SUBSET (1 .. m)) = 2 ^ m
  BY <1>1, FS_SUBSET
<1>4. with \in Bijection(SUBSET A, W)
  <2>1. with \in [SUBSET A -> W]
    OBVIOUS
  <2>2. ASSUME NEW a \in SUBSET A, NEW b \in SUBSET A, with[a] = with[b]
        PROVE  a = b
    <3>1. a \cup {m} = b \cup {m}
      BY <2>2
    <3> QED BY <1>2, <3>1
  <2>3. \A t \in W : \E a \in SUBSET A : with[a] = t
    OBVIOUS
  <2> QED BY <2>1, <2>2, <2>3 DEF Bijection, Injection, Surjection, IsInjective
<1>5. IsFiniteSet(W) /\ Cardinality(W) = Cardinality(SUBSET A)
  BY <1>3, <1>4, FS_Bijection DEF ExistsBijection
<1>6. SUBSET (1 .. m) = (SUBSET A) \cup W
  <2>1. ASSUME NEW t \in SUBSET (1 .. m) PROVE t \in (SUBSET A) \cup W
    <3>1. CASE m \in t
      <4>1. t \ {m} \in SUBSET A /\ t = (t \ {m}) \cup {m}
        BY <1>2, <3>1
      <4> QED BY <4>1
    <3>2. CASE m \notin t
      BY <1>2, <3>2
    <3> QED BY <3>1, <3>2
  <2> QED BY <2>1, <1>2
<1>7. (SUBSET A) \cap W = {}
  BY <1>2
<1>8. Cardinality(SUBSET (1 .. m)) = Cardinality(SUBSET A) + Cardinality(W)
  <2> HIDE DEF W
  <2> QED BY <1>3, <1>5, <1>6, <1>7, DisjointUnion
<1>9. Cardinality(SUBSET A) \in Nat
  BY <1>3, FS_CardinalityType
<1> QED
  BY <1>3, <1>5, <1>8, <1>9 DEF m
\* Every set of naturals that is not empty has a least element.
LEMMA LeastNat ==
  ASSUME NEW S, S \subseteq Nat, S # {}
  PROVE  \E m \in S : \A n \in S : m <= n
<1> DEFINE R == {ss \in Nat \X Nat : ss[1] < ss[2]}
<1>1. IsWellFoundedOn(R, Nat)
  BY NatLessThanWellFounded DEF OpToRel
<1>2. PICK m \in S : \A y \in S : ~ (<<y, m>> \in R)
  <2> HIDE DEF R
  <2> QED  BY <1>1, WFMin
<1>3. \A y \in S : ~ (y < m)
  BY <1>2
<1> QED  BY <1>3

\* Powers of two do not shrink.
LEMMA PowerMonotone ==
  ASSUME NEW v \in Nat, NEW w \in Nat, v <= w
  PROVE  2 ^ v <= 2 ^ w
<1> DEFINE Shrinks == {k \in Nat : ~ (2 ^ v <= 2 ^ (v + k))}
<1>1. SUFFICES Shrinks = {}
  <2>1. w - v \in Nat /\ v + (w - v) = w
    OBVIOUS
  <2> QED  BY <1>1, <2>1, Zenon
<1>2. SUFFICES ASSUME Shrinks # {} PROVE FALSE
  OBVIOUS
<1>3. PICK k \in Shrinks : \A j \in Shrinks : k <= j
  <2>1. Shrinks \subseteq Nat
    OBVIOUS
  <2> HIDE DEF Shrinks
  <2> QED  BY <1>2, <2>1, LeastNat
<1>4. k \in Nat /\ ~ (2 ^ v <= 2 ^ (v + k))
  BY <1>3
<1>5. 2 ^ v \in Nat
  BY PowerStep
<1>6. k # 0
  <2>1. v + 0 = v
    OBVIOUS
  <2>2. 2 ^ v <= 2 ^ v
    BY <1>5
  <2> QED  BY <1>4, <2>1, <2>2, Zenon
<1>7. k - 1 \in Nat /\ ~ (k <= k - 1)
  BY <1>4, <1>6
<1>8. 2 ^ v <= 2 ^ (v + (k - 1))
  <2> DEFINE j == k - 1
  <2> HIDE DEF j
  <2>1. j \in Nat /\ j \notin Shrinks
    BY <1>3, <1>7 DEF j
  <2>2. 2 ^ v <= 2 ^ (v + j)
    BY <2>1
  <2> QED  BY <2>2 DEF j
<1>9. /\ v + (k - 1) \in Nat /\ (v + (k - 1)) + 1 = v + k
  BY <1>4, <1>7
<1>10. 2 ^ (v + k) = 2 * 2 ^ (v + (k - 1)) /\ 2 ^ (v + (k - 1)) \in Nat
  <2> DEFINE n == v + (k - 1)
  <2>1. n \in Nat /\ n + 1 = v + k
    BY <1>9
  <2>2. 2 ^ (n + 1) = 2 * 2 ^ n /\ 2 ^ n \in Nat
    <3> HIDE DEF n
    <3> QED  BY <2>1, PowerStep
  <2> QED  BY <2>1, <2>2, Zenon
<1>11. \A a, b \in Nat : a <= b => a <= 2 * b
  OBVIOUS
<1>12. 2 ^ v <= 2 * 2 ^ (v + (k - 1))
  BY <1>5, <1>8, <1>10, <1>11, Zenon
<1> QED  BY <1>4, <1>10, <1>12, Zenon

\* Where the bit length lies.
LEMMA BitLengthBounds ==
  ASSUME NEW x \in Nat, 1 <= x, x <= 2 ^ MaxLog
  PROVE  /\ BitLength(x) \in 1 .. 31
         /\ 2 ^ (BitLength(x) - 1) <= x
         /\ x < 2 ^ BitLength(x)
<1> DEFINE Above == {k \in Nat : x < 2 ^ k}
<1>1. MaxLog + 1 \in Above
  <2>1. MaxLog \in Nat /\ MaxLog + 1 \in Nat
    BY DEF MaxLog
  <2>2. 2 ^ (MaxLog + 1) = 2 * 2 ^ MaxLog /\ 2 ^ MaxLog \in Nat
    BY <2>1, PowerStep
  <2>3. \A a, c \in Nat : x <= a /\ c = 2 * a => x < c
    OBVIOUS
  <2>4. 2 ^ (MaxLog + 1) \in Nat
    BY <2>1, PowerStep
  <2> QED  BY <2>1, <2>2, <2>3, <2>4, Zenon
<1>2. PICK n \in Above : \A k \in Above : n <= k
  <2>1. Above \subseteq Nat /\ Above # {}
    BY <1>1
  <2> HIDE DEF Above
  <2> QED  BY <2>1, LeastNat
<1>3. n \in Nat /\ x < 2 ^ n /\ n <= 24
  <2>1. n \in Nat /\ x < 2 ^ n
    BY <1>2
  <2>2. n <= MaxLog + 1
    BY <1>1, <1>2, Zenon
  <2> QED  BY <2>1, <2>2 DEF MaxLog
<1>4. n # 0
  <2>1. ~ (x < 2 ^ 0)
    OBVIOUS
  <2> QED  BY <1>3, <2>1, Zenon
<1>5. n - 1 \in Nat /\ ~ (n <= n - 1)
  BY <1>3, <1>4
<1>6. 2 ^ (n - 1) <= x
  <2> DEFINE j == n - 1
  <2> HIDE DEF j
  <2>1. j \in Nat /\ j \notin Above
    BY <1>2, <1>5 DEF j
  <2>2. ~ (x < 2 ^ j)
    BY <2>1
  <2>3. 2 ^ j \in Nat
    BY <2>1, PowerStep
  <2>4. 2 ^ j <= x
    BY <2>2, <2>3
  <2> QED  BY <2>4 DEF j
<1>7. n \in 1 .. 31
  BY <1>3, <1>4
<1>8. \E k \in 1 .. 31 : 2 ^ (k - 1) <= x /\ x < 2 ^ k
  BY <1>3, <1>6, <1>7, Zenon
<1> QED  BY <1>8, Zenon DEF BitLength

\* Two exponents whose powers are on either side of a number.
LEMMA PowerOrder ==
  ASSUME NEW x \in Nat, NEW v \in Nat, NEW w \in Nat, 2 ^ v <= x, x < 2 ^ w
  PROVE  v < w
<1>1. SUFFICES ASSUME ~ (v < w) PROVE FALSE
  OBVIOUS
<1>2. w <= v
  BY <1>1
<1>3. 2 ^ w <= 2 ^ v /\ 2 ^ w \in Nat /\ 2 ^ v \in Nat
  BY <1>2, PowerMonotone, PowerStep
<1>4. \A a, b \in Nat : ~ (a <= b /\ b <= x /\ x < a)
  OBVIOUS
<1> QED  BY <1>3, <1>4, Zenon

\* The base-two logarithm, rounded up, between the two limits.
LEMMA CeilLog2Bounds ==
  ASSUME NEW x \in Nat
  PROVE  /\ CeilLog2(x) \in MinLog .. MaxLog
         /\ x <= 2 ^ MaxLog => x <= 2 ^ CeilLog2(x)
         /\ CeilLog2(x) # MinLog => 2 ^ (CeilLog2(x) - 1) < x
         /\ x > 2 ^ MaxLog => CeilLog2(x) = MaxLog
<1> DEFINE r == CeilLog2(x)
<1>1. /\ MinLog \in Nat /\ MaxLog \in Nat /\ MaxLog - 1 \in Nat /\ MinLog <= MaxLog - 1
      /\ MinLog \in MinLog .. MaxLog /\ MaxLog \in MinLog .. MaxLog
  BY DEF MinLog, MaxLog
<1>2. /\ 2 ^ MinLog \in Nat /\ 2 ^ MaxLog \in Nat /\ 2 ^ (MaxLog - 1) \in Nat
      /\ 2 ^ MinLog <= 2 ^ (MaxLog - 1) /\ 2 ^ (MaxLog - 1) <= 2 ^ MaxLog
  <2>1. MaxLog - 1 <= MaxLog
    BY DEF MaxLog
  <2>2. \A k \in Nat : 2 ^ k \in Nat
    BY PowerStep
  <2> QED  BY <1>1, <2>1, <2>2, PowerMonotone, Zenon
<1>3. CASE x <= 2 ^ MinLog
  <2>1. r = MinLog
    BY <1>3 DEF CeilLog2
  <2>2. ~ (x > 2 ^ MaxLog)
    BY <1>2, <1>3
  <2> QED  BY <1>1, <1>3, <2>1, <2>2, Zenon
<1>4. CASE ~ (x <= 2 ^ MinLog) /\ x > 2 ^ MaxLog
  <2>1. r = MaxLog
    BY <1>4 DEF CeilLog2
  <2>2. 2 ^ (MaxLog - 1) < x /\ ~ (x <= 2 ^ MaxLog)
    BY <1>2, <1>4
  <2> QED  BY <1>1, <2>1, <2>2, Zenon
<1>5. CASE ~ (x <= 2 ^ MinLog) /\ ~ (x > 2 ^ MaxLog)
  <2> DEFINE n == BitLength(x)
  <2>1. 1 <= x /\ x <= 2 ^ MaxLog /\ 2 ^ MinLog < x
    BY <1>2, <1>5
  <2>2. n \in 1 .. 31 /\ 2 ^ (n - 1) <= x /\ x < 2 ^ n
    BY <2>1, BitLengthBounds
  <2>3. r = IF x = 2 ^ (n - 1) THEN n - 1 ELSE n
    BY <1>5 DEF CeilLog2
  <2> HIDE DEF n, r
  <2>4. n \in Nat /\ n - 1 \in Nat /\ n - 1 <= n
    BY <2>2
  <2>5. 2 ^ n \in Nat /\ 2 ^ (n - 1) \in Nat
    BY <2>4, PowerStep
  <2>6. MinLog < n
    <3>1. 2 ^ MinLog <= x
      BY <1>2, <2>1
    <3> QED  BY <1>1, <2>2, <2>4, <3>1, PowerOrder
  <2>7. n - 1 <= MaxLog
    <3>1. SUFFICES ASSUME MaxLog < n - 1 PROVE FALSE
      BY <1>1, <2>4
    <3>2. MaxLog + 1 \in Nat /\ MaxLog + 1 <= n - 1
      BY <1>1, <2>4, <3>1
    <3>3. 2 ^ (MaxLog + 1) <= 2 ^ (n - 1)
      BY <2>4, <3>2, PowerMonotone
    <3>4. 2 ^ (MaxLog + 1) = 2 * 2 ^ MaxLog
      BY <1>1, PowerStep
    <3>5. \A a, b \in Nat : ~ (2 * a <= b /\ b <= x /\ x <= a /\ 1 <= x)
      OBVIOUS
    <3> QED  BY <1>2, <2>1, <2>2, <2>5, <3>3, <3>4, <3>5, Zenon
  <2>8. CASE x = 2 ^ (n - 1)
    <3>1. r = n - 1
      BY <2>3, <2>8
    <3>2. MinLog < n - 1
      <4>1. SUFFICES ASSUME n - 1 <= MinLog PROVE FALSE
        BY <1>1, <2>4
      <4>2. 2 ^ (n - 1) <= 2 ^ MinLog
        BY <1>1, <2>4, <4>1, PowerMonotone
      <4> QED  BY <1>5, <2>8, <4>2, Zenon
    <3>3. n - 2 \in Nat /\ (n - 2) + 1 = n - 1 /\ (n - 1) - 1 = n - 2
      BY <1>1, <2>4, <3>2
    <3>4. 2 ^ (n - 1) = 2 * 2 ^ (n - 2) /\ 2 ^ (n - 2) \in Nat
      <4> DEFINE j == n - 2
      <4>1. j \in Nat /\ j + 1 = n - 1
        BY <3>3
      <4>2. 2 ^ (j + 1) = 2 * 2 ^ j /\ 2 ^ j \in Nat
        <5> HIDE DEF j
        <5> QED  BY <4>1, PowerStep
      <4> QED  BY <4>1, <4>2, Zenon
    <3>5. \A a \in Nat : x = 2 * a => a < x
      BY <2>1
    <3>6. 2 ^ (n - 2) < x
      BY <2>8, <3>4, <3>5, Zenon
    <3>7. x <= 2 ^ (n - 1)
      BY <2>8, <2>5
    <3>8. n - 1 \in MinLog .. MaxLog
      BY <1>1, <2>4, <2>7, <3>2
    <3> QED  BY <1>5, <3>1, <3>3, <3>6, <3>7, <3>8, Zenon DEF r
  <2>9. CASE x # 2 ^ (n - 1)
    <3>1. r = n
      BY <2>3, <2>9
    <3>2. 2 ^ (n - 1) < x /\ x <= 2 ^ n
      BY <2>2, <2>5, <2>9
    <3>3. n <= MaxLog
      <4>1. 2 ^ (n - 1) < 2 ^ MaxLog
        BY <1>2, <2>1, <2>5, <3>2
      <4>2. 2 ^ (n - 1) <= 2 ^ (n - 1)
        BY <2>5
      <4>3. n - 1 < MaxLog
        BY <1>1, <2>4, <2>5, <4>1, <4>2, PowerOrder
      <4> QED  BY <1>1, <2>4, <4>3
    <3>4. n \in MinLog .. MaxLog
      BY <1>1, <2>4, <2>6, <3>3
    <3> QED  BY <1>5, <3>1, <3>2, <3>4, Zenon DEF r
  <2> QED  BY <2>8, <2>9
<1> QED  BY <1>3, <1>4, <1>5

\* A larger sum never takes a smaller window.
LEMMA CeilLog2Monotone ==
  ASSUME NEW x \in Nat, NEW y \in Nat, x <= y
  PROVE  CeilLog2(x) <= CeilLog2(y)
<1> DEFINE r == CeilLog2(x)
           s == CeilLog2(y)
<1>1. /\ r \in MinLog .. MaxLog
      /\ r # MinLog => 2 ^ (r - 1) < x
  BY CeilLog2Bounds
<1>2. /\ s \in MinLog .. MaxLog
      /\ y <= 2 ^ MaxLog => y <= 2 ^ s
      /\ y > 2 ^ MaxLog => s = MaxLog
  BY CeilLog2Bounds
<1> HIDE DEF r, s
<1>3. SUFFICES ASSUME s < r PROVE FALSE
  BY <1>1, <1>2 DEF r, s, MinLog, MaxLog
<1>4. /\ r - 1 \in Nat /\ s \in Nat /\ s <= r - 1 /\ r # MinLog /\ s # MaxLog
      /\ MaxLog \in Nat
  BY <1>1, <1>2, <1>3 DEF MinLog, MaxLog
<1>5. 2 ^ s <= 2 ^ (r - 1) /\ 2 ^ s \in Nat /\ 2 ^ (r - 1) \in Nat /\ 2 ^ MaxLog \in Nat
  <2>1. \A k \in Nat : 2 ^ k \in Nat
    BY PowerStep
  <2> QED  BY <1>4, <2>1, PowerMonotone, Zenon
<1>6. y <= 2 ^ s
  BY <1>2, <1>4, <1>5
<1>7. \A a, b \in Nat : ~ (y <= a /\ a <= b /\ b < x)
  OBVIOUS
<1> QED  BY <1>1, <1>4, <1>5, <1>6, <1>7, Zenon

-----------------------------------------------------------------------------
(* The inductive invariant *)

\* A location as merge_loc_conf() leaves it: the window cap of an enabled
\* location with a budget is a window that fits the budget, and so does the
\* configured window.
MergedConfs ==
  {c \in [enable : BOOLEAN, level : Levels, long : BOOLEAN, cblock : Nat,
          windowLog : {0} \cup MinLog .. 31, budget : Int,
          cap : {0} \cup MinLog .. MaxLog, dicts : Seq(Dicts)] :
     c.enable /\ HasBudget(c) =>
       /\ c.cap # 0
       /\ Estimate(c, c.cap) <= c.budget
       /\ Estimate(c, c.windowLog) <= c.budget}

Entries(d) == [dict : {d}, level : Levels, w : MinLog .. MaxLog]

StateInv ==
  /\ phase \in {"load", "build", "run", "failed"}
  /\ confs \in Seq(MergedConfs)
  /\ cdicts \in [Dicts -> SUBSET UNION {Entries(d) : d \in Dicts}]
  /\ \A d \in Dicts : cdicts[d] \subseteq Entries(d)
  /\ bytes \in Nat /\ bytes <= CacheBytes

\* build_cdicts() is at a window of a dictionary of the last location.
CursorInv ==
  /\ cursor \in [i : Nat, w : Nat]
  /\ phase = "build" =>
       /\ confs # <<>>
       /\ Preparable(Conf)
       /\ cursor.i \in 1 .. Len(Conf.dicts)
       /\ cursor.w \in FirstWindow(Dict, Conf) .. LastWindow(Dict, Conf)

\* Prepared, or left out for want of room.
Covered(d, level, w) ==
  \/ \E e \in cdicts[d] : e.level = level /\ e.w = w
  \/ <<d, level, w>> \in skipped

DictCovered(d, c) ==
  \A w \in FirstWindow(d, c) .. LastWindow(d, c) : Covered(d, c.level, w)

ConfCovered(c) == \A k \in 1 .. Len(c.dicts) : DictCovered(c.dicts[k], c)

\* Every location before the one in the making is covered, and that one up
\* to the cursor.
CoverInv ==
  /\ \A i \in 1 .. Len(confs) :
       /\ Preparable(confs[i])
       /\ phase \in {"load", "run"} \/ (phase = "build" /\ i < Len(confs))
       => ConfCovered(confs[i])
  /\ phase = "build" =>
       /\ \A k \in 1 .. cursor.i - 1 : DictCovered(Conf.dicts[k], Conf)
       /\ \A w \in FirstWindow(Dict, Conf) .. cursor.w - 1 :
            Covered(Dict, Conf.level, w)

\* A cached context is filed under the key of its parameters.
SlotInv ==
  slot # NoSlot =>
    /\ slot \in [key : Int, level : Int, long : BOOLEAN, w : Int]
    /\ slot.key # INVALID
    /\ slot.key = ProfilePack(slot.level, slot.long, slot.w)

DczInv ==
  /\ StateInv /\ CursorInv /\ CoverInv /\ SlotInv
  /\ WindowSpansDictionary /\ ResponseBudget /\ MadeForTheRequest
  /\ PreparedForEveryRequest

-----------------------------------------------------------------------------
(* Windows and caps *)

\* At the upper limit and above it the logarithm is the limit.
LEMMA CeilLog2Top ==
  ASSUME NEW x \in Nat, 2 ^ MaxLog <= x
  PROVE  CeilLog2(x) = MaxLog
<1> DEFINE r == CeilLog2(x)
<1>1. /\ r \in MinLog .. MaxLog
      /\ x <= 2 ^ MaxLog => x <= 2 ^ r
      /\ x > 2 ^ MaxLog => r = MaxLog
  BY CeilLog2Bounds
<1> HIDE DEF r
<1>2. SUFFICES ASSUME r < MaxLog PROVE FALSE
  BY <1>1 DEF r, MinLog, MaxLog
<1>3. r \in Nat /\ r + 1 \in Nat /\ r + 1 <= MaxLog /\ MaxLog \in Nat /\ 0 \in Nat /\ 0 <= MaxLog
  BY <1>1, <1>2 DEF MinLog, MaxLog
<1>4. 2 ^ r \in Nat /\ 2 ^ MaxLog \in Nat /\ 2 ^ (r + 1) = 2 * 2 ^ r
  BY <1>3, PowerStep
<1>5. 2 ^ (r + 1) <= 2 ^ MaxLog /\ 2 ^ 0 <= 2 ^ MaxLog
  BY <1>3, PowerMonotone
<1>6. x <= 2 ^ r
  <2>1. r # MaxLog
    BY <1>2, <1>3
  <2> QED  BY <1>1, <1>4, <2>1
<1>7. 1 <= 2 ^ MaxLog
  BY <1>4, <1>5
<1>8. \A a, b \in Nat : ~ (2 * a <= b /\ b <= x /\ x <= a /\ 1 <= b)
  OBVIOUS
<1>9. 2 * 2 ^ r <= 2 ^ MaxLog
  BY <1>4, <1>5, Zenon
<1> QED  BY <1>4, <1>6, <1>7, <1>8, <1>9, Zenon

\* What dictionary and body take, without widths.
Need(len, pledged) == len + IF pledged < 0 THEN Guess ELSE pledged

\* The window for it, before the ceilings.
FullLog(len, pledged) == CeilLog2(Required(len, pledged))

\* required_size() saturates and does nothing else.
LEMMA RequiredSaturates ==
  ASSUME NEW len \in Nat, NEW pledged \in Int
  PROVE  /\ Need(len, pledged) \in Nat /\ Required(len, pledged) \in Nat
         /\ Need(len, pledged) <= SizeMax =>
              Required(len, pledged) = Need(len, pledged)
         /\ Need(len, pledged) > SizeMax => Required(len, pledged) = SizeMax
<1>1. SizeMax \in Nat /\ Guess \in Nat
  BY SizeWidth
<1> QED  BY <1>1 DEF Need, Required

\* The window without ceilings spans the need unless it is the largest, and
\* half of it would not do unless it is the smallest.
LEMMA FullWindow ==
  ASSUME NEW len \in Nat, NEW pledged \in Int
  PROVE  /\ FullLog(len, pledged) \in MinLog .. MaxLog
         /\ \/ FullLog(len, pledged) = MaxLog
            \/ Need(len, pledged) <= 2 ^ FullLog(len, pledged)
         /\ \/ FullLog(len, pledged) = MinLog
            \/ 2 ^ (FullLog(len, pledged) - 1) < Need(len, pledged)
<1> USE DEF FullLog
<1> DEFINE x == Required(len, pledged)
           need == Need(len, pledged)
           F == CeilLog2(x)
<1>1. /\ need \in Nat /\ x \in Nat /\ SizeMax \in Nat /\ 2 ^ MaxLog <= SizeMax
      /\ need <= SizeMax => x = need
      /\ need > SizeMax => x = SizeMax
  BY RequiredSaturates, SizeWidth
<1> HIDE DEF x, need
<1>2. /\ F \in MinLog .. MaxLog
      /\ x <= 2 ^ MaxLog => x <= 2 ^ F
      /\ F # MinLog => 2 ^ (F - 1) < x
  BY <1>1, CeilLog2Bounds
<1>3. 2 ^ MaxLog <= x => F = MaxLog
  BY <1>1, CeilLog2Top
<1> HIDE DEF F
<1>4. F \in Nat /\ MaxLog \in Nat /\ (F # MinLog => F - 1 \in Nat)
  BY <1>2 DEF MinLog, MaxLog
<1>5. 2 ^ MaxLog \in Nat /\ 2 ^ F \in Nat /\ (F # MinLog => 2 ^ (F - 1) \in Nat)
  <2>1. \A k \in Nat : 2 ^ k \in Nat
    BY PowerStep
  <2> QED  BY <1>4, <2>1, Zenon
<1>6. CASE need <= SizeMax
  <2>1. x = need
    BY <1>1, <1>6
  <2>2. x <= 2 ^ MaxLog \/ 2 ^ MaxLog <= x
    BY <1>1, <1>5
  <2> QED  BY <1>2, <1>3, <2>1, <2>2, Zenon DEF F, x, need
<1>7. CASE ~ (need <= SizeMax)
  <2>1. x = SizeMax /\ x < need
    BY <1>1, <1>7
  <2>2. F = MaxLog
    BY <1>1, <1>3, <2>1, Zenon
  <2>3. F # MinLog => 2 ^ (F - 1) < need
    BY <1>1, <1>2, <1>5, <2>1
  <2> QED  BY <1>2, <2>2, <2>3, Zenon DEF F, x, need
<1> QED  BY <1>6, <1>7

\* Where the ceilings leave the window, as a function of the uncapped one.
LEMMA CappedWindow ==
  ASSUME NEW len \in Nat, NEW pledged \in Int,
         NEW windowLog \in {0} \cup MinLog .. 31,
         NEW cap \in {0} \cup MinLog .. MaxLog
  PROVE  /\ FullLog(len, pledged) \in MinLog .. MaxLog
         /\ DczWindowLog(len, pledged, windowLog, cap) \in MinLog .. MaxLog
         /\ DczWindowLog(len, pledged, windowLog, cap)
              = Capped(Capped(FullLog(len, pledged), windowLog), cap)
         /\ DczWindowLog(len, pledged, windowLog, cap) <= FullLog(len, pledged)
         /\ DczWindowLog(len, pledged, windowLog, cap)
              \in {FullLog(len, pledged), windowLog, cap}
<1> DEFINE F == FullLog(len, pledged)
<1>1. F \in MinLog .. MaxLog
  BY FullWindow
<1>2. DczWindowLog(len, pledged, windowLog, cap)
        = IF Capped(Capped(F, windowLog), cap) < MinLog THEN MinLog
          ELSE Capped(Capped(F, windowLog), cap)
  BY DEF DczWindowLog, FullLog
<1> HIDE DEF F
<1>3. Capped(F, windowLog) \in {F, windowLog} /\ Capped(F, windowLog) \in MinLog .. MaxLog
      /\ Capped(F, windowLog) <= F
  BY <1>1 DEF Capped, MinLog, MaxLog
<1> DEFINE G == Capped(F, windowLog)
<1>4. G \in MinLog .. MaxLog
  BY <1>3
<1> HIDE DEF G
<1>5. /\ Capped(G, cap) \in {G, cap} /\ Capped(G, cap) \in MinLog .. MaxLog
      /\ Capped(G, cap) <= G /\ (cap # 0 => Capped(G, cap) <= cap)
  BY <1>4 DEF Capped, MinLog, MaxLog
<1> DEFINE w == DczWindowLog(len, pledged, windowLog, cap)
<1>6. w = Capped(G, cap)
  BY <1>2, <1>5 DEF G, MinLog, MaxLog
<1>7. w <= F
  BY <1>1, <1>3, <1>5, <1>6 DEF G, MinLog, MaxLog
<1>8. w \in {F, windowLog, cap}
  BY <1>3, <1>5, <1>6 DEF G
<1> HIDE DEF w
<1> QED  BY <1>1, <1>5, <1>6, <1>7, <1>8 DEF F, G, w

\* The budget's ceiling holds.
LEMMA CappedByBudget ==
  ASSUME NEW len \in Nat, NEW pledged \in Int,
         NEW windowLog \in {0} \cup MinLog .. 31,
         NEW cap \in MinLog .. MaxLog
  PROVE  DczWindowLog(len, pledged, windowLog, cap) <= cap
<1> DEFINE F == FullLog(len, pledged)
<1>1. F \in MinLog .. MaxLog
  BY FullWindow
<1>2. DczWindowLog(len, pledged, windowLog, cap)
        = IF Capped(Capped(F, windowLog), cap) < MinLog THEN MinLog
          ELSE Capped(Capped(F, windowLog), cap)
  BY DEF DczWindowLog, FullLog
<1> HIDE DEF F
<1> DEFINE G == Capped(F, windowLog)
<1>3. G \in MinLog .. MaxLog
  BY <1>1 DEF Capped, MinLog, MaxLog
<1> HIDE DEF G
<1>4. Capped(G, cap) <= cap /\ Capped(G, cap) \in Int /\ MinLog <= cap
  BY <1>3 DEF Capped, MinLog, MaxLog
<1> QED  BY <1>2, <1>4 DEF G

\* A request's window lies between the two ends build_cdicts() goes through.
LEMMA WindowBetween ==
  ASSUME NEW d \in Dicts, NEW c \in MergedConfs, NEW pledged \in Int
  PROVE  LET w == DczWindowLog(DictLen[d], pledged, c.windowLog, c.cap) IN
         /\ FirstWindow(d, c) \in MinLog .. MaxLog
         /\ LastWindow(d, c) \in MinLog .. MaxLog
         /\ w \in FirstWindow(d, c) .. LastWindow(d, c)
<1> DEFINE len == DictLen[d]
           wl == c.windowLog
           cap == c.cap
           top == 2 ^ MaxLog
           F(p) == FullLog(len, p)
<1>1. /\ len \in Nat /\ wl \in {0} \cup MinLog .. 31 /\ cap \in {0} \cup MinLog .. MaxLog
  BY SizeWidth DEF MergedConfs, Dicts
<1>2. top \in Int /\ top \in Nat /\ top <= SizeMax /\ SizeMax \in Nat /\ Guess \in Nat
  <2>1. MaxLog \in Nat
    BY DEF MaxLog
  <2> QED  BY <2>1, SizeWidth, PowerStep
<1> HIDE DEF top
<1>3. /\ FirstWindow(d, c) = DczWindowLog(len, 0, wl, cap)
      /\ LastWindow(d, c) = DczWindowLog(len, top, wl, cap)
  BY DEF FirstWindow, LastWindow, top
<1> HIDE DEF len, wl, cap
<1>4. /\ Required(len, 0) \in Nat /\ Required(len, pledged) \in Nat
      /\ Required(len, top) \in Nat
      /\ Required(len, 0) <= Required(len, pledged)
      /\ top <= Required(len, top)
  BY <1>1, <1>2 DEF Required
<1>5. F(0) <= F(pledged)
  BY <1>4, CeilLog2Monotone DEF FullLog
<1>6. F(top) = MaxLog
  BY <1>4, CeilLog2Top DEF top, FullLog
<1>7. \A p \in Int : /\ F(p) \in MinLog .. MaxLog
                     /\ DczWindowLog(len, p, wl, cap) \in MinLog .. MaxLog
                     /\ DczWindowLog(len, p, wl, cap) = Capped(Capped(F(p), wl), cap)
  <2> TAKE p \in Int
  <2> QED  BY <1>1, CappedWindow
<1>8. \A f, g \in MinLog .. MaxLog :
        f <= g => Capped(Capped(f, wl), cap) <= Capped(Capped(g, wl), cap)
  BY <1>1 DEF Capped, MinLog, MaxLog
<1> DEFINE first == DczWindowLog(len, 0, wl, cap)
           last == DczWindowLog(len, top, wl, cap)
           w == DczWindowLog(len, pledged, wl, cap)
<1>9. first <= w
  <2>1. F(0) \in MinLog .. MaxLog /\ F(pledged) \in MinLog .. MaxLog
    BY <1>7
  <2>2. first = Capped(Capped(F(0), wl), cap) /\ w = Capped(Capped(F(pledged), wl), cap)
    BY <1>7
  <2> HIDE DEF F, first, w
  <2> QED  BY <1>5, <1>8, <2>1, <2>2, Zenon
<1>10. w <= last
  <2>1. F(top) \in MinLog .. MaxLog /\ F(pledged) \in MinLog .. MaxLog
    BY <1>2, <1>7
  <2>2. last = Capped(Capped(F(top), wl), cap) /\ w = Capped(Capped(F(pledged), wl), cap)
    BY <1>2, <1>7
  <2>3. F(pledged) <= F(top)
    <3> HIDE DEF F
    <3> QED  BY <1>6, <2>1 DEF MinLog, MaxLog
  <2> HIDE DEF F, last, w
  <2> QED  BY <1>8, <2>1, <2>2, <2>3, Zenon
<1>11. first \in MinLog .. MaxLog /\ last \in MinLog .. MaxLog /\ w \in MinLog .. MaxLog
  BY <1>2, <1>7
<1> HIDE DEF first, last, w
<1>12. w \in first .. last
  BY <1>9, <1>10, <1>11 DEF MinLog, MaxLog
<1> QED  BY <1>3, <1>11, <1>12 DEF first, last, w, len, wl, cap

\* merge_loc_conf() leaves a location with a cap that fits its budget.
LEMMA MergeFixesTheCap ==
  ASSUME NEW c \in Confs,
         c.enable /\ HasBudget(c) => Estimate(c, c.windowLog) <= c.budget
  PROVE  [c EXCEPT !.cap = IF c.enable THEN WindowCap(c) ELSE 0] \in MergedConfs
<1> DEFINE fits == {w \in MinLog .. MaxLog : Estimate(c, w) <= c.budget}
           m == [c EXCEPT !.cap = IF c.enable THEN WindowCap(c) ELSE 0]
<1>1. /\ c \in [enable : BOOLEAN, level : Int, long : BOOLEAN, cblock : Nat,
               windowLog : {0} \cup MinLog .. 31, budget : Int, cap : {0},
               dicts : Seq(Dicts)]
      /\ c.level \in Levels
  BY ConfTypes DEF Levels
<1>2. /\ \A w : Estimate(m, w) = Estimate(c, w)
      /\ HasBudget(m) = HasBudget(c)
      /\ m.enable = c.enable /\ m.windowLog = c.windowLog /\ m.budget = c.budget
  BY <1>1 DEF Estimate, EffectiveWindow, HasBudget
<1>3. fits # {} => /\ (CHOOSE w \in fits : \A v \in fits : v <= w) \in fits
  <2>1. SUFFICES ASSUME fits # {}
                 PROVE  \E w \in fits : \A v \in fits : v <= w
    BY Zenon
  <2> DEFINE gap == {MaxLog - w : w \in fits}
  <2>2. gap \subseteq Nat /\ gap # {}
    BY <2>1 DEF MinLog, MaxLog
  <2>3. PICK g \in gap : \A h \in gap : g <= h
    <3> HIDE DEF gap
    <3> QED  BY <2>2, LeastNat
  <2>4. PICK w \in fits : g = MaxLog - w
    BY <2>3
  <2>5. ASSUME NEW v \in fits PROVE v <= w
    <3>1. MaxLog - w <= MaxLog - v
      BY <2>3, <2>4
    <3> QED  BY <3>1 DEF MaxLog, MinLog
  <2> QED  BY <2>5
<1>4. CASE ~ (c.enable /\ HasBudget(c))
  <2>1. m.cap = 0
    BY <1>1, <1>4 DEF WindowCap
  <2>2. m \in [enable : BOOLEAN, level : Levels, long : BOOLEAN, cblock : Nat,
               windowLog : {0} \cup MinLog .. 31, budget : Int,
               cap : {0} \cup MinLog .. MaxLog, dicts : Seq(Dicts)]
    BY <1>1, <2>1
  <2> HIDE DEF m
  <2> QED  BY <1>2, <1>4, <2>2 DEF MergedConfs, m
<1>5. CASE c.enable /\ HasBudget(c)
  <2>1. MinLog \in fits
    <3> DEFINE v == EffectiveWindow(c, c.windowLog)
    <3>1. v \in MinLog .. 31
      BY <1>1, WindowBounds DEF EffectiveWindow, MinLog, LdmLog
    <3>2. EffectiveWindow(c, MinLog) = MinLog
      BY DEF EffectiveWindow, MinLog
    <3>3. Workspace(c.level, c.long, v) <= c.budget
      BY <1>5 DEF Estimate
    <3> HIDE DEF v
    <3>4. MinLog \in MinLog .. 31 /\ MinLog <= v
      BY <3>1 DEF MinLog
    <3>5. /\ Workspace(c.level, c.long, MinLog) <= Workspace(c.level, c.long, v)
          /\ Workspace(c.level, c.long, MinLog) \in Nat
          /\ Workspace(c.level, c.long, v) \in Nat
      BY <1>1, <3>1, <3>4, WorkspaceMonotone
    <3>6. c.budget \in Int
      BY <1>1
    <3>7. \A a, b \in Nat : \A e \in Int : a <= b /\ b <= e => a <= e
      OBVIOUS
    <3>8. Estimate(c, MinLog) <= c.budget
      BY <3>2, <3>3, <3>5, <3>6, <3>7, Zenon DEF Estimate
    <3>9. MinLog \in MinLog .. MaxLog
      BY DEF MinLog, MaxLog
    <3> QED  BY <3>8, <3>9
  <2>2. WindowCap(c) = CHOOSE w \in fits : \A v \in fits : v <= w
    BY <1>5, <2>1 DEF WindowCap
  <2>3. m.cap = WindowCap(c) /\ m.cap \in fits
    BY <1>1, <1>3, <1>5, <2>1, <2>2
  <2>4. m.cap \in MinLog .. MaxLog /\ Estimate(c, m.cap) <= c.budget
    <3> HIDE DEF m
    <3> QED  BY <2>3
  <2>5. m \in [enable : BOOLEAN, level : Levels, long : BOOLEAN, cblock : Nat,
               windowLog : {0} \cup MinLog .. 31, budget : Int,
               cap : {0} \cup MinLog .. MaxLog, dicts : Seq(Dicts)]
    BY <1>1, <2>3, <2>4
  <2>6. m.cap # 0
    BY <2>4 DEF MinLog
  <2> HIDE DEF m
  <2> QED  BY <1>2, <1>5, <2>4, <2>5, <2>6 DEF MergedConfs, m
<1> QED  BY <1>4, <1>5

-----------------------------------------------------------------------------
(* Preservation *)

\* A location of the sequence.
LEMMA LoadedConf ==
  ASSUME StateInv, NEW i \in 1 .. Len(confs)
  PROVE  /\ confs[i] \in MergedConfs
         /\ confs[i].level \in Levels /\ confs[i].level \in Int
         /\ confs[i].long \in BOOLEAN /\ confs[i].cblock \in Nat
         /\ confs[i].windowLog \in {0} \cup MinLog .. 31
         /\ confs[i].cap \in {0} \cup MinLog .. MaxLog
         /\ confs[i].budget \in Int
         /\ confs[i].dicts \in Seq(Dicts)
<1>1. confs[i] \in MergedConfs
  BY DEF StateInv
<1>2. Levels \subseteq Int
  BY ConfTypes DEF Levels
<1> QED  BY <1>1, <1>2 DEF MergedConfs

\* What build_cdicts() is at.
LEMMA AtCursor ==
  ASSUME StateInv, CursorInv, phase = "build"
  PROVE  /\ Len(confs) \in 1 .. Len(confs) /\ Conf \in MergedConfs
         /\ Conf.dicts \in Seq(Dicts) /\ Conf.level \in Levels
         /\ Dict \in Dicts
         /\ cursor.i \in 1 .. Len(Conf.dicts)
         /\ FirstWindow(Dict, Conf) \in MinLog .. MaxLog
         /\ LastWindow(Dict, Conf) \in MinLog .. MaxLog
         /\ cursor.w \in MinLog .. MaxLog
         /\ cursor.w \in FirstWindow(Dict, Conf) .. LastWindow(Dict, Conf)
<1>1. Len(confs) \in 1 .. Len(confs)
  BY DEF StateInv, CursorInv
<1>2. Conf \in MergedConfs /\ Conf.dicts \in Seq(Dicts) /\ Conf.level \in Levels
  BY <1>1, LoadedConf DEF Conf
<1>3. cursor.i \in 1 .. Len(Conf.dicts)
  BY DEF CursorInv
<1>4. Dict \in Dicts
  BY <1>2, <1>3 DEF Dict
<1>5. /\ FirstWindow(Dict, Conf) \in MinLog .. MaxLog
      /\ LastWindow(Dict, Conf) \in MinLog .. MaxLog
  <2>1. 0 \in Int
    OBVIOUS
  <2> QED  BY <1>2, <1>4, <2>1, WindowBetween
<1>6. cursor.w \in FirstWindow(Dict, Conf) .. LastWindow(Dict, Conf)
  BY DEF CursorInv
<1>7. \A a, b \in MinLog .. MaxLog : \A w \in a .. b : w \in MinLog .. MaxLog
  BY DEF MinLog, MaxLog
<1>8. cursor.w \in MinLog .. MaxLog
  BY <1>5, <1>6, <1>7
<1> QED  BY <1>1, <1>2, <1>3, <1>4, <1>5, <1>6, <1>8

\* What is prepared, or left out, stays so.
LEMMA CoveredStays ==
  ASSUME \A d \in Dicts : cdicts[d] \subseteq cdicts'[d],
         skipped \subseteq skipped',
         NEW d \in Dicts, NEW level, NEW w, Covered(d, level, w)
  PROVE  Covered(d, level, w)'
BY DEF Covered

LEMMA ConfCoveredStays ==
  ASSUME \A d \in Dicts : cdicts[d] \subseteq cdicts'[d],
         skipped \subseteq skipped',
         NEW c \in MergedConfs, ConfCovered(c)
  PROVE  ConfCovered(c)'
<1>1. c.dicts \in Seq(Dicts)
  BY DEF MergedConfs
<1>2. \A k \in 1 .. Len(c.dicts) : c.dicts[k] \in Dicts
  BY <1>1
<1> QED  BY <1>2, CoveredStays DEF ConfCovered, DictCovered

\* The loops of build_cdicts() pass over a window only when it is covered.
LEMMA AdvanceCovers ==
  ASSUME StateInv, CursorInv, CoverInv, phase = "build", Advance,
         confs' = confs,
         \A d \in Dicts : cdicts[d] \subseteq cdicts'[d],
         skipped \subseteq skipped',
         NEW D \in Dicts, D = Dict, NEW C \in MergedConfs, C = Conf,
         NEW W, W = cursor.w, NEW i, i = cursor.i,
         Covered(D, C.level, W)'
  PROVE  CursorInv' /\ CoverInv' /\ phase' \in {"load", "build"}
<1> DEFINE n == Len(confs)
           L == Len(C.dicts)
           first == FirstWindow(D, C)
           last == LastWindow(D, C)
<1>1. /\ n \in 1 .. n /\ n \in Nat /\ C = confs[n] /\ C.dicts \in Seq(Dicts)
      /\ L \in Nat /\ i \in 1 .. L /\ i \in Nat /\ D = C.dicts[i]
      /\ first \in MinLog .. MaxLog /\ last \in MinLog .. MaxLog
      /\ W \in first .. last /\ W \in MinLog .. MaxLog
      /\ first \in Nat /\ last \in Nat /\ W \in Nat
  <2>1. /\ n \in 1 .. n /\ C = confs[n] /\ C.dicts \in Seq(Dicts) /\ i \in 1 .. L
        /\ D = C.dicts[i]
        /\ first \in MinLog .. MaxLog /\ last \in MinLog .. MaxLog
        /\ W \in first .. last /\ W \in MinLog .. MaxLog
    BY AtCursor DEF Conf, Dict
  <2>2. n \in Nat
    BY DEF StateInv
  <2>3. \A w \in MinLog .. MaxLog : w \in Nat
    BY DEF MinLog
  <2>4. L \in Nat /\ i \in Nat
    BY <2>1
  <2> QED  BY <2>1, <2>2, <2>3, <2>4
<1>2. Conf' = C /\ Len(confs') = n
  BY <1>1 DEF Conf
<1>3. Preparable(C) /\ confs # <<>> /\ confs' # <<>>
  BY DEF CursorInv
<1>4. \A k \in 1 .. L : C.dicts[k] \in Dicts
  BY <1>1
<1>5. \A j \in 1 .. n : Preparable(confs[j]) /\ j < n => ConfCovered(confs[j])'
  <2> TAKE j \in 1 .. n
  <2> HAVE Preparable(confs[j]) /\ j < n
  <2>1. ConfCovered(confs[j])
    BY DEF CoverInv
  <2>2. confs[j] \in MergedConfs
    BY LoadedConf
  <2> DEFINE c == confs[j]
  <2>3. confs'[j] = c
    OBVIOUS
  <2>4. ConfCovered(c)'
    <3>1. ASSUME NEW cc \in MergedConfs, ConfCovered(cc) PROVE ConfCovered(cc)'
      BY <3>1, ConfCoveredStays
    <3>2. PICK cc \in MergedConfs : cc = confs[j]
      BY <2>2
    <3>3. ConfCovered(cc)'
      BY <2>1, <3>1, <3>2
    <3> QED  BY <2>3, <3>2, <3>3
  <2> QED  BY <2>4
<1>6. \A k \in 1 .. i - 1 : DictCovered(C.dicts[k], C)'
  <2> TAKE k \in 1 .. i - 1
  <2>1. DictCovered(C.dicts[k], C)
    BY DEF CoverInv
  <2>2. C.dicts[k] \in Dicts
    BY <1>1, <1>4
  <2> QED  BY <2>1, <2>2, CoveredStays DEF DictCovered
<1>7. \A w \in first .. W : Covered(D, C.level, w)'
  <2> TAKE w \in first .. W
  <2>1. CASE w = W
    BY <2>1
  <2>2. CASE w # W
    <3>1. w \in first .. W - 1
      BY <1>1, <2>2
    <3>2. Covered(D, C.level, w)
      BY <3>1 DEF CoverInv
    <3> QED  BY <3>2, CoveredStays
  <2> QED  BY <2>1, <2>2
<1> HIDE DEF n, L, first, last
<1>8. CASE cursor.w < LastWindow(Dict, Conf)
  <2>1. cursor' = [cursor EXCEPT !.w = @ + 1] /\ phase' = "build"
    BY <1>8 DEF Advance
  <2>2. /\ cursor'.i = i /\ cursor'.w = W + 1 /\ cursor' \in [i : Nat, w : Nat]
    BY <1>1, <2>1 DEF CursorInv
  <2>3. Dict' = D
    BY <1>1, <1>2, <2>2 DEF Dict
  <2>4. W + 1 \in first .. last
    BY <1>1, <1>8 DEF last
  <2>5. (W + 1) - 1 = W
    BY <1>1
  <2>6. CursorInv'
    BY <1>1, <1>2, <1>3, <2>1, <2>2, <2>3, <2>4 DEF CursorInv, Preparable, first, last, L
  <2>7. CoverInv'
    <3>1. \A j \in 1 .. Len(confs') :
            /\ Preparable(confs'[j])
            /\ phase' \in {"load", "run"} \/ (phase' = "build" /\ j < Len(confs'))
            => ConfCovered(confs[j])'
      BY <1>2, <1>5, <2>1 DEF n
    <3>2. \A k \in 1 .. cursor'.i - 1 : DictCovered(C.dicts[k], C)'
      BY <1>6, <2>2
    <3>3. \A w \in FirstWindow(D, C) .. cursor'.w - 1 : Covered(D, C.level, w)'
      BY <1>7, <2>2, <2>5 DEF first
    <3> QED  BY <1>2, <2>3, <3>1, <3>2, <3>3 DEF CoverInv
  <2> QED  BY <2>1, <2>6, <2>7
<1>9. CASE ~ (cursor.w < LastWindow(Dict, Conf)) /\ cursor.i < Len(Conf.dicts)
  <2>1. /\ cursor' = [i |-> i + 1, w |-> FirstWindow(C.dicts[i + 1], C)]
        /\ phase' = "build"
    BY <1>9 DEF Advance
  <2>2. i + 1 \in 1 .. L /\ i + 1 \in Nat /\ (i + 1) - 1 = i
    BY <1>1, <1>9 DEF L
  <2> DEFINE E == C.dicts[i + 1]
  <2>3. E \in Dicts
    BY <1>4, <2>2
  <2>4. /\ FirstWindow(E, C) \in MinLog .. MaxLog /\ LastWindow(E, C) \in MinLog .. MaxLog
        /\ FirstWindow(E, C) <= LastWindow(E, C)
    <3>1. 0 \in Int
      OBVIOUS
    <3> DEFINE w0 == DczWindowLog(DictLen[E], 0, C.windowLog, C.cap)
    <3>2. /\ FirstWindow(E, C) \in MinLog .. MaxLog /\ LastWindow(E, C) \in MinLog .. MaxLog
          /\ w0 \in FirstWindow(E, C) .. LastWindow(E, C)
      BY <2>3, <3>1, WindowBetween
    <3>3. \A a, b \in MinLog .. MaxLog : \A w \in a .. b : a <= b
      BY DEF MinLog, MaxLog
    <3> QED  BY <3>2, <3>3
  <2>5. cursor'.i = i + 1 /\ cursor'.w = FirstWindow(E, C) /\ Dict' = E
    BY <1>2, <2>1 DEF Dict
  <2>6. /\ cursor' \in [i : Nat, w : Nat]
        /\ FirstWindow(E, C) \in FirstWindow(E, C) .. LastWindow(E, C)
        /\ FirstWindow(E, C) .. FirstWindow(E, C) - 1 = {}
    <3>1. FirstWindow(E, C) \in Nat /\ LastWindow(E, C) \in Nat
      BY <2>4 DEF MinLog
    <3>2. cursor' \in [i : Nat, w : Nat]
      BY <2>1, <2>2, <3>1
    <3>3. \A a, b \in Nat : a <= b => a \in a .. b /\ a .. a - 1 = {}
      OBVIOUS
    <3> QED  BY <2>4, <3>1, <3>2, <3>3
  <2> HIDE DEF E
  <2>7. CursorInv'
    BY <1>2, <1>3, <2>1, <2>2, <2>5, <2>6 DEF CursorInv, Preparable, L
  <2>8. DictCovered(C.dicts[i], C)'
    <3>1. W = last
      BY <1>1, <1>9 DEF last
    <3> QED  BY <1>1, <1>7, <3>1 DEF DictCovered, first, last
  <2>9. \A k \in 1 .. (i + 1) - 1 : DictCovered(C.dicts[k], C)'
    <3> TAKE k \in 1 .. (i + 1) - 1
    <3>1. k \in 1 .. i - 1 \/ k = i
      BY <1>1, <2>2
    <3> QED  BY <1>6, <2>8, <3>1
  <2>10. CoverInv'
    <3>1. \A j \in 1 .. Len(confs') :
            /\ Preparable(confs'[j])
            /\ phase' \in {"load", "run"} \/ (phase' = "build" /\ j < Len(confs'))
            => ConfCovered(confs[j])'
      BY <1>2, <1>5, <2>1 DEF n
    <3>2. \A k \in 1 .. cursor'.i - 1 : DictCovered(C.dicts[k], C)'
      BY <2>5, <2>9
    <3>3. \A w \in FirstWindow(E, C) .. cursor'.w - 1 : Covered(E, C.level, w)'
      BY <2>5, <2>6
    <3> QED  BY <1>2, <2>5, <3>1, <3>2, <3>3 DEF CoverInv
  <2> QED  BY <2>1, <2>7, <2>10
<1>10. CASE ~ (cursor.w < LastWindow(Dict, Conf)) /\ ~ (cursor.i < Len(Conf.dicts))
  <2>1. phase' = "load" /\ cursor' = [i |-> 1, w |-> 0]
    BY <1>10 DEF Advance
  <2>2. CursorInv'
    BY <2>1 DEF CursorInv
  <2>3. DictCovered(C.dicts[i], C)'
    <3>1. W = last
      BY <1>1, <1>10 DEF last
    <3> QED  BY <1>1, <1>7, <3>1 DEF DictCovered, first, last
  <2>4. ConfCovered(C)'
    <3>1. ASSUME NEW k \in 1 .. L PROVE DictCovered(C.dicts[k], C)'
      <4>1. k \in 1 .. i - 1 \/ k = i
        BY <1>1, <1>10 DEF L
      <4> QED  BY <1>6, <2>3, <4>1
    <3> QED  BY <3>1 DEF ConfCovered, L
  <2>5. ASSUME NEW j \in 1 .. n, Preparable(confs[j]) PROVE ConfCovered(confs[j])'
    <3>1. CASE j < n
      BY <1>5, <2>5, <3>1
    <3>2. CASE j = n
      BY <1>1, <2>4, <3>2
    <3> QED  BY <1>1, <3>1, <3>2
  <2>6. CoverInv'
    BY <1>2, <2>1, <2>5 DEF CoverInv, n, Preparable
  <2> QED  BY <2>1, <2>2, <2>6
<1> QED  BY <1>8, <1>9, <1>10

\* The properties of the latest response hold as long as it is the latest.
LEMMA ResponseStays ==
  ASSUME SlotInv, WindowSpansDictionary, ResponseBudget, MadeForTheRequest,
         PreparedForEveryRequest,
         slot' = slot, req' = req, skipped \subseteq skipped'
  PROVE  /\ SlotInv' /\ WindowSpansDictionary' /\ ResponseBudget'
         /\ MadeForTheRequest' /\ PreparedForEveryRequest'
<1>1. SlotInv'  BY DEF SlotInv
<1>2. WindowSpansDictionary'  BY DEF WindowSpansDictionary
<1>3. ResponseBudget'  BY DEF ResponseBudget
<1>4. MadeForTheRequest'  BY DEF MadeForTheRequest
<1>5. PreparedForEveryRequest'  BY DEF PreparedForEveryRequest
<1> QED  BY <1>1, <1>2, <1>3, <1>4, <1>5

\* The first step of build_cdicts() for a location just merged.
LEMMA MergeKeeps ==
  ASSUME StateInv, CursorInv, CoverInv, NEW c \in Confs, MergeLocation(c)
  PROVE  StateInv' /\ CursorInv' /\ CoverInv'
<1> DEFINE m == [c EXCEPT !.cap = IF c.enable THEN WindowCap(c) ELSE 0]
           n == Len(confs)
<1>1. /\ phase = "load" /\ confs' = Append(confs, m)
      /\ cdicts' = cdicts /\ bytes' = bytes /\ skipped' = skipped
      /\ c.enable /\ HasBudget(c) => Estimate(c, c.windowLog) <= c.budget
  BY DEF MergeLocation
<1>2. m \in MergedConfs
  BY <1>1, MergeFixesTheCap
<1>3. /\ m.dicts = c.dicts /\ m.level = c.level /\ (Preparable(m) <=> Preparable(c))
      /\ c.dicts \in Seq(Dicts)
  BY ConfTypes DEF Preparable
<1>4. /\ Preparable(c) => phase' = "build"
                          /\ cursor' = [i |-> 1, w |-> FirstWindow(c.dicts[1], m)]
      /\ ~ Preparable(c) => phase' = phase /\ cursor' = cursor
  BY DEF MergeLocation
<1> HIDE DEF m
<1>5. /\ n \in Nat /\ Len(confs') = n + 1 /\ confs' \in Seq(MergedConfs)
      /\ confs'[n + 1] = m /\ \A j \in 1 .. n : confs'[j] = confs[j]
  BY <1>1, <1>2 DEF StateInv
<1>6. StateInv'
  BY <1>1, <1>4, <1>5 DEF StateInv
<1>7. \A j \in 1 .. n : Preparable(confs[j]) => ConfCovered(confs[j])
  BY <1>1 DEF CoverInv
<1>8. \A j \in 1 .. n : Preparable(confs'[j]) => ConfCovered(confs[j])'
  <2> TAKE j \in 1 .. n
  <2> HAVE Preparable(confs'[j])
  <2>1. PICK cc \in MergedConfs : cc = confs[j] /\ cc = confs'[j]
    BY <1>5, LoadedConf
  <2>2. ConfCovered(cc)
    BY <1>7, <2>1
  <2>3. ConfCovered(cc)'
    BY <1>1, <2>2 DEF ConfCovered, DictCovered, Covered
  <2> QED  BY <2>1, <2>3
<1>9. CASE ~ Preparable(c)
  <2>1. CursorInv'
    BY <1>1, <1>4, <1>9 DEF CursorInv
  <2>2. \A j \in 1 .. n + 1 : Preparable(confs'[j]) => ConfCovered(confs[j])'
    <3> TAKE j \in 1 .. n + 1
    <3>1. CASE j \in 1 .. n
      BY <1>8, <3>1
    <3>2. CASE j = n + 1
      BY <1>3, <1>5, <1>9, <3>2
    <3> QED  BY <1>5, <3>1, <3>2
  <2>3. CoverInv'
    BY <1>1, <1>4, <1>5, <1>9, <2>2 DEF CoverInv
  <2> QED  BY <1>6, <2>1, <2>3
<1>10. CASE Preparable(c)
  <2> DEFINE d == c.dicts[1]
  <2>1. d \in Dicts /\ 1 \in 1 .. Len(c.dicts)
    BY <1>3, <1>10 DEF Preparable
  <2>2. phase' = "build" /\ cursor' = [i |-> 1, w |-> FirstWindow(d, m)]
    BY <1>4, <1>10
  <2>3. Conf' = m /\ Dict' = d
    BY <1>3, <1>5, <2>2 DEF Conf, Dict
  <2>4. /\ FirstWindow(d, m) \in MinLog .. MaxLog /\ LastWindow(d, m) \in MinLog .. MaxLog
        /\ FirstWindow(d, m) <= LastWindow(d, m)
    <3>1. 0 \in Int
      OBVIOUS
    <3> DEFINE w0 == DczWindowLog(DictLen[d], 0, m.windowLog, m.cap)
    <3>2. /\ FirstWindow(d, m) \in MinLog .. MaxLog /\ LastWindow(d, m) \in MinLog .. MaxLog
          /\ w0 \in FirstWindow(d, m) .. LastWindow(d, m)
      BY <1>2, <2>1, <3>1, WindowBetween
    <3>3. \A a, b \in MinLog .. MaxLog : \A w \in a .. b : a <= b
      BY DEF MinLog, MaxLog
    <3> QED  BY <3>2, <3>3
  <2> HIDE DEF d
  <2>5. /\ FirstWindow(d, m) \in Nat
        /\ FirstWindow(d, m) \in FirstWindow(d, m) .. LastWindow(d, m)
        /\ FirstWindow(d, m) .. FirstWindow(d, m) - 1 = {}
    <3>1. FirstWindow(d, m) \in Nat /\ LastWindow(d, m) \in Nat
      BY <2>4 DEF MinLog
    <3>2. \A a, b \in Nat : a <= b => a \in a .. b /\ a .. a - 1 = {}
      OBVIOUS
    <3> QED  BY <2>4, <3>1, <3>2
  <2>6. cursor'.i = 1 /\ cursor'.w = FirstWindow(d, m) /\ cursor' \in [i : Nat, w : Nat]
    BY <2>2, <2>5
  <2>7. CursorInv'
    <3>1. confs' # <<>>
      BY <1>5
    <3>2. Preparable(m) /\ cursor'.i \in 1 .. Len(m.dicts)
      BY <1>3, <1>10, <2>1, <2>6
    <3> QED  BY <2>3, <2>5, <2>6, <3>1, <3>2 DEF CursorInv, Preparable
  <2>8. CoverInv'
    <3>1. \A j \in 1 .. Len(confs') :
            /\ Preparable(confs'[j])
            /\ phase' \in {"load", "run"} \/ (phase' = "build" /\ j < Len(confs'))
            => ConfCovered(confs[j])'
      <4> TAKE j \in 1 .. Len(confs')
      <4> HAVE /\ Preparable(confs'[j])
               /\ phase' \in {"load", "run"} \/ (phase' = "build" /\ j < Len(confs'))
      <4>1. j \in 1 .. n
        BY <1>5, <2>2
      <4> QED  BY <1>8, <4>1
    <3>2. 1 .. cursor'.i - 1 = {}
      BY <2>6
    <3>3. FirstWindow(d, m) .. cursor'.w - 1 = {}
      BY <2>5, <2>6
    <3> QED  BY <2>3, <3>1, <3>2, <3>3 DEF CoverInv
  <2> QED  BY <1>6, <2>7, <2>8
<1> QED  BY <1>9, <1>10

\* A prepared dictionary is stored under its own dictionary, level and window.
LEMMA PrepareKeeps ==
  ASSUME StateInv, CursorInv, CoverInv, Prepare
  PROVE  StateInv' /\ CursorInv' /\ CoverInv'
<1>1. /\ phase = "build" /\ confs' = confs /\ skipped' = skipped /\ Advance
      /\ Measured <= Room /\ bytes' = bytes + Measured
      /\ cdicts' = [cdicts EXCEPT ![Dict] =
                      @ \cup {[dict |-> Dict, level |-> Conf.level, w |-> cursor.w]}]
  BY DEF Prepare
<1>2. PICK D \in Dicts, C \in MergedConfs :
        /\ D = Dict /\ C = Conf /\ C.level \in Levels /\ cursor.w \in MinLog .. MaxLog
  BY <1>1, AtCursor
<1>3. PICK W, i : W = cursor.w /\ i = cursor.i
  OBVIOUS
<1> DEFINE e == [dict |-> D, level |-> C.level, w |-> W]
<1>4. e \in Entries(D) /\ e.level = C.level /\ e.w = W
  BY <1>2, <1>3 DEF Entries
<1>5. /\ cdicts' \in [Dicts -> SUBSET UNION {Entries(d) : d \in Dicts}]
      /\ cdicts'[D] = cdicts[D] \cup {e}
      /\ \A d \in Dicts : d # D => cdicts'[d] = cdicts[d]
  <2> HIDE DEF e
  <2>1. cdicts' = [cdicts EXCEPT ![D] = @ \cup {e}]
    BY <1>1, <1>2, <1>3 DEF e
  <2> QED  BY <1>4, <2>1 DEF StateInv
<1> HIDE DEF e
<1>6. \A d \in Dicts : cdicts[d] \subseteq cdicts'[d] /\ cdicts'[d] \subseteq Entries(d)
  BY <1>4, <1>5 DEF StateInv
<1>7. Covered(D, C.level, W)'
  BY <1>4, <1>5 DEF Covered
<1>8. CursorInv' /\ CoverInv' /\ phase' \in {"load", "build"}
  BY <1>1, <1>2, <1>3, <1>6, <1>7, AdvanceCovers
<1>9. bytes' \in Nat /\ bytes' <= CacheBytes
  <2>1. Measured \in Nat
    BY <1>2, CDictSizes DEF Measured
  <2>2. CacheBytes \in Nat
    BY SizeWidth
  <2> QED  BY <1>1, <2>1, <2>2 DEF StateInv, Room
<1> QED  BY <1>1, <1>5, <1>6, <1>8, <1>9 DEF StateInv

\* The window of a response, and what it holds to.
LEMMA ResponseWindow ==
  ASSUME NEW c \in MergedConfs, NEW d \in Dicts, NEW pledged \in Int,
         NEW w, w = DczWindowLog(DictLen[d], pledged, c.windowLog, c.cap)
  PROVE  /\ w \in MinLog .. MaxLog
         /\ c.cap # 0 => w <= c.cap
         /\ 2 ^ w >= Need(DictLen[d], pledged) \/ w \in {MaxLog, c.windowLog, c.cap}
         /\ w = MinLog \/ 2 ^ (w - 1) < Need(DictLen[d], pledged)
<1> DEFINE len == DictLen[d]
           F == FullLog(len, pledged)
           need == Need(len, pledged)
<1>1. /\ len \in Nat /\ c.windowLog \in {0} \cup MinLog .. 31
      /\ c.cap \in {0} \cup MinLog .. MaxLog
  BY SizeWidth DEF MergedConfs, Dicts
<1> HIDE DEF len
<1>2. /\ F \in MinLog .. MaxLog /\ w \in MinLog .. MaxLog /\ w <= F
      /\ w \in {F, c.windowLog, c.cap} /\ (c.cap # 0 => w <= c.cap)
  <2>1. /\ F \in MinLog .. MaxLog /\ w \in MinLog .. MaxLog /\ w <= F
        /\ w \in {F, c.windowLog, c.cap}
    BY <1>1, CappedWindow DEF len
  <2>2. c.cap # 0 => w <= c.cap
    <3>1. PICK wl \in {0} \cup MinLog .. 31 : wl = c.windowLog
      BY <1>1
    <3>2. ASSUME NEW cap \in MinLog .. MaxLog, cap = c.cap PROVE w <= c.cap
      <4>1. DczWindowLog(len, pledged, wl, cap) <= cap
        BY <1>1, CappedByBudget
      <4> QED  BY <3>1, <3>2, <4>1 DEF len
    <3> QED  BY <1>1, <3>2
  <2> QED  BY <2>1, <2>2
<1>3. /\ F = MaxLog \/ need <= 2 ^ F
      /\ F = MinLog \/ 2 ^ (F - 1) < need
  BY <1>1, FullWindow
<1>4. need \in Nat
  BY <1>1, RequiredSaturates
<1> HIDE DEF F, need
<1>5. F \in Nat /\ w \in Nat /\ 2 ^ F \in Nat
  <2>1. F \in Nat /\ w \in Nat
    BY <1>2 DEF MinLog
  <2> QED  BY <2>1, PowerStep
<1>6. 2 ^ w >= need \/ w \in {MaxLog, c.windowLog, c.cap}
  <2>1. CASE w = F
    <3>1. CASE F = MaxLog
      BY <2>1, <3>1
    <3>2. CASE need <= 2 ^ F
      BY <1>4, <1>5, <2>1, <3>2
    <3> QED  BY <1>3, <3>1, <3>2
  <2> QED  BY <1>2, <2>1
<1>7. w = MinLog \/ 2 ^ (w - 1) < need
  <2>1. SUFFICES ASSUME w # MinLog PROVE 2 ^ (w - 1) < need
    OBVIOUS
  <2>2. /\ F # MinLog /\ w - 1 \in Nat /\ F - 1 \in Nat /\ w - 1 <= F - 1
    BY <1>2, <2>1 DEF MinLog, MaxLog
  <2>3. 2 ^ (w - 1) <= 2 ^ (F - 1) /\ 2 ^ (w - 1) \in Nat /\ 2 ^ (F - 1) \in Nat
    <3>1. \A k \in Nat : 2 ^ k \in Nat
      BY PowerStep
    <3> QED  BY <2>2, <3>1, PowerMonotone, Zenon
  <2>4. \A a, b \in Nat : a <= b /\ b < need => a < need
    BY <1>4
  <2> QED  BY <1>3, <2>2, <2>3, <2>4, Zenon
<1> QED  BY <1>2, <1>6, <1>7 DEF need, len

\* A response within the ceilings is within the budget.
LEMMA WindowWithinBudget ==
  ASSUME NEW c \in MergedConfs, c.enable, HasBudget(c),
         NEW w \in MinLog .. MaxLog, w <= c.cap
  PROVE  Estimate(c, w) <= c.budget
<1>1. /\ c.cap \in {0} \cup MinLog .. MaxLog /\ c.cap # 0 /\ c.budget \in Int
      /\ Estimate(c, c.cap) <= c.budget /\ c.level \in Levels /\ c.long \in BOOLEAN
  BY DEF MergedConfs
<1>2. w \in MinLog .. 31 /\ c.cap \in MinLog .. 31 /\ w > 0 /\ c.cap > 0
  BY <1>1 DEF MinLog, MaxLog
<1>3. /\ Workspace(c.level, c.long, w) <= Workspace(c.level, c.long, c.cap)
      /\ Workspace(c.level, c.long, w) \in Nat /\ Workspace(c.level, c.long, c.cap) \in Nat
  BY <1>1, <1>2, WorkspaceMonotone
<1>4. /\ Estimate(c, w) = Workspace(c.level, c.long, w)
      /\ Estimate(c, c.cap) = Workspace(c.level, c.long, c.cap)
  BY <1>2 DEF Estimate, EffectiveWindow
<1>5. \A a, b \in Nat : \A e \in Int : a <= b /\ b <= e => a <= e
  OBVIOUS
<1> QED  BY <1>1, <1>3, <1>4, <1>5, Zenon

\* The key part of a response, whatever its window.
LEMMA ReuseKeeps ==
  ASSUME StateInv, SlotInv, NEW i \in 1 .. Len(confs), NEW d, NEW pledged,
         NEW w \in Int,
         w = IF d = NULL THEN confs[i].windowLog
             ELSE DczWindowLog(DictLen[d], pledged, confs[i].windowLog, confs[i].cap),
         Respond(confs[i], d, pledged)
  PROVE  /\ SlotInv'
         /\ req'.reused =>
              /\ slot'.level = req'.conf.level /\ slot'.long = req'.conf.long
              /\ slot'.w = req'.w
              /\ ProfileUnpack(slot'.key) =
                   [level |-> slot'.level, long |-> slot'.long, w |-> slot'.w]
<1> DEFINE c == confs[i]
           key == ProfilePack(c.level, c.long, w)
<1>1. c.level \in Int /\ c.long \in BOOLEAN
  BY LoadedConf
<1>2. /\ req'.conf = c /\ req'.w = w
      /\ req'.reused = (slot # NoSlot /\ slot.key = key)
      /\ slot' = IF slot = NoSlot /\ key # INVALID
                 THEN [key |-> key, level |-> c.level, long |-> c.long, w |-> w]
                 ELSE slot
  BY DEF Respond
<1> HIDE DEF c
<1>3. key \in Int
  <2>1. CASE key = INVALID
    BY <2>1 DEF INVALID
  <2>2. CASE key # INVALID
    <3>1. key = (c.level + LevelBias) + w * WlogShift + Bit(c.long) * LongShift
      BY <1>1, <2>2, PackedFields
    <3>2. Bit(c.long) \in Int
      BY DEF Bit
    <3> HIDE DEF key
    <3> QED  BY <1>1, <3>1, <3>2 DEF LevelBias, WlogShift, LongShift
  <2> QED  BY <2>1, <2>2
<1>4. SlotInv'
  <2>1. CASE slot = NoSlot /\ key # INVALID
    <3>1. slot' = [key |-> key, level |-> c.level, long |-> c.long, w |-> w]
      BY <1>2, <2>1
    <3>2. /\ slot'.key = key /\ slot'.level = c.level /\ slot'.long = c.long
          /\ slot'.w = w
          /\ slot' \in [key : Int, level : Int, long : BOOLEAN, w : Int]
      BY <1>1, <1>3, <3>1
    <3> QED  BY <2>1, <3>2 DEF SlotInv
  <2>2. CASE ~ (slot = NoSlot /\ key # INVALID)
    BY <1>2, <2>2 DEF SlotInv
  <2> QED  BY <2>1, <2>2
<1>5. ASSUME req'.reused
      PROVE  /\ slot'.level = req'.conf.level /\ slot'.long = req'.conf.long
             /\ slot'.w = req'.w
             /\ ProfileUnpack(slot'.key) =
                  [level |-> slot'.level, long |-> slot'.long, w |-> slot'.w]
  <2>1. slot # NoSlot /\ slot.key = key
    BY <1>2, <1>5
  <2>2. slot' = slot
    BY <1>2, <2>1
  <2>3. /\ slot.level \in Int /\ slot.long \in BOOLEAN /\ slot.w \in Int
        /\ slot.key # INVALID /\ slot.key = ProfilePack(slot.level, slot.long, slot.w)
    BY <2>1 DEF SlotInv
  <2>4. slot.level = c.level /\ slot.long = c.long /\ slot.w = w
    <3>1. /\ ProfilePack(slot.level, slot.long, slot.w) # INVALID
          /\ ProfilePack(slot.level, slot.long, slot.w) = ProfilePack(c.level, c.long, w)
      BY <2>1, <2>3
    <3> QED  BY <1>1, <2>3, <3>1, ProfileKeyInjective
  <2>5. ProfileUnpack(slot.key) =
          [level |-> slot.level, long |-> slot.long, w |-> slot.w]
    <3>1. ProfileUnpack(ProfilePack(slot.level, slot.long, slot.w))
            = [level |-> slot.level, w |-> slot.w, long |-> slot.long]
      BY <2>3, ProfileKeyReversible
    <3> QED  BY <2>3, <3>1
  <2> QED  BY <1>2, <2>2, <2>4, <2>5
<1> QED  BY <1>4, <1>5

\* A response without a dictionary.
LEMMA PlainResponse ==
  ASSUME DczInv, NEW i \in 1 .. Len(confs), NEW pledged \in Pledges,
         Respond(confs[i], NULL, pledged)
  PROVE  DczInv'
<1> USE DEF DczInv
<1> DEFINE c == confs[i]
<1>1. /\ c \in MergedConfs /\ c.windowLog \in {0} \cup MinLog .. 31
      /\ c.windowLog \in Int
  <2>1. c \in MergedConfs /\ c.windowLog \in {0} \cup MinLog .. 31
    BY LoadedConf
  <2>2. \A x \in {0} \cup MinLog .. 31 : x \in Int
    BY DEF MinLog
  <2> QED  BY Zenon, <2>1, <2>2
<1>2. /\ phase = "run" /\ c.enable
      /\ req'.conf = c /\ req'.dict = NULL /\ req'.w = c.windowLog
      /\ req'.cdict = NULL
      /\ UNCHANGED <<phase, confs, cursor, cdicts, bytes, skipped>>
  BY DEF Respond
<1>3. StateInv'
  BY <1>2 DEF StateInv
<1>4. CursorInv'
  BY <1>2 DEF CursorInv, Conf, Dict, Preparable
<1>5. CoverInv'
  <2>1. \A x, l, v : Covered(x, l, v)' <=> Covered(x, l, v)
    BY <1>2 DEF Covered
  <2>2. \A y : ConfCovered(y)' <=> ConfCovered(y)
    BY <2>1 DEF ConfCovered, DictCovered
  <2>3. \A j \in 1 .. Len(confs) : Preparable(confs[j]) => ConfCovered(confs[j])
    BY <1>2 DEF CoverInv
  <2> QED  BY <1>2, <2>2, <2>3 DEF CoverInv
<1>6. /\ SlotInv'
      /\ req'.reused =>
           /\ slot'.level = req'.conf.level /\ slot'.long = req'.conf.long
           /\ slot'.w = req'.w
           /\ ProfileUnpack(slot'.key) =
                [level |-> slot'.level, long |-> slot'.long, w |-> slot'.w]
  BY <1>1, ReuseKeeps
<1>7. MadeForTheRequest'
  BY <1>2, <1>6 DEF MadeForTheRequest
<1>8. WindowSpansDictionary' /\ PreparedForEveryRequest'
  BY <1>2 DEF WindowSpansDictionary, PreparedForEveryRequest
<1>9. ResponseBudget'
  BY <1>1, <1>2 DEF ResponseBudget, MergedConfs
<1> QED  BY <1>3, <1>4, <1>5, <1>6, <1>7, <1>8, <1>9

\* A response with a dictionary of its location.
LEMMA DictionaryResponse ==
  ASSUME DczInv, NEW i \in 1 .. Len(confs), NEW pledged \in Pledges,
         NEW k \in 1 .. Len(confs[i].dicts),
         Respond(confs[i], confs[i].dicts[k], pledged)
  PROVE  DczInv'
<1> USE DEF DczInv
<1>1. PICK c \in MergedConfs : c = confs[i]
  BY LoadedConf
<1>2. PICK d \in Dicts : d = c.dicts[k] /\ d # NULL
  BY <1>1, LoadedConf, NullIsDistinct
<1>3. pledged \in Int
  BY SizeWidth
<1>4. PICK w : w = DczWindowLog(DictLen[d], pledged, c.windowLog, c.cap)
  OBVIOUS
<1>6. /\ w \in MinLog .. MaxLog /\ w \in Int /\ (c.cap # 0 => w <= c.cap)
      /\ w \in FirstWindow(d, c) .. LastWindow(d, c)
  <2>1. w \in MinLog .. MaxLog /\ (c.cap # 0 => w <= c.cap)
    BY <1>3, <1>4, ResponseWindow
  <2>2. w \in FirstWindow(d, c) .. LastWindow(d, c)
    BY <1>3, <1>4, WindowBetween
  <2> QED  BY <2>1, <2>2 DEF MinLog
<1> DEFINE found == Lookup(d, c, w)
<1>7. /\ phase = "run" /\ c.enable
      /\ req'.conf = c /\ req'.dict = d /\ req'.w = w /\ req'.pledged = pledged
      /\ req'.cdict = IF found = {} THEN NULL ELSE CHOOSE e \in found : TRUE
      /\ UNCHANGED <<phase, confs, cursor, cdicts, bytes, skipped>>
  BY <1>1, <1>2, <1>4 DEF Respond
<1>8. StateInv'
  BY <1>7 DEF StateInv
<1>9. CursorInv'
  BY <1>7 DEF CursorInv, Conf, Dict, Preparable
<1>10. CoverInv'
  <2>1. \A x, l, v : Covered(x, l, v)' <=> Covered(x, l, v)
    BY <1>7 DEF Covered
  <2>2. \A y : ConfCovered(y)' <=> ConfCovered(y)
    BY <2>1 DEF ConfCovered, DictCovered
  <2>3. \A j \in 1 .. Len(confs) : Preparable(confs[j]) => ConfCovered(confs[j])
    BY <1>7 DEF CoverInv
  <2> QED  BY <1>7, <2>2, <2>3 DEF CoverInv
<1>11. /\ SlotInv'
       /\ req'.reused =>
            /\ slot'.level = req'.conf.level /\ slot'.long = req'.conf.long
            /\ slot'.w = req'.w
            /\ ProfileUnpack(slot'.key) =
                 [level |-> slot'.level, long |-> slot'.long, w |-> slot'.w]
  BY <1>1, <1>2, <1>4, <1>6, ReuseKeeps
<1>12. found # {} =>
         /\ req'.cdict = [dict |-> d, level |-> c.level, w |-> w]
         /\ ~ c.long /\ c.cblock = 0
  <2>1. SUFFICES ASSUME found # {}
                 PROVE  /\ req'.cdict = [dict |-> d, level |-> c.level, w |-> w]
                        /\ ~ c.long /\ c.cblock = 0
    OBVIOUS
  <2>2. req'.cdict \in found
    <3> HIDE DEF found
    <3> QED  BY <1>7, <2>1
  <2>3. ~ c.long /\ ~ (c.cblock > 0)
    BY <2>1 DEF Lookup
  <2>4. req'.cdict \in cdicts[d] /\ req'.cdict.level = c.level /\ req'.cdict.w = w
    BY <2>2, <2>3 DEF Lookup
  <2>5. req'.cdict \in Entries(d)
    BY <2>4 DEF StateInv
  <2>6. c.cblock \in Nat
    BY <1>1, LoadedConf
  <2>7. req'.cdict.dict = d /\ req'.cdict = [dict |-> req'.cdict.dict,
          level |-> req'.cdict.level, w |-> req'.cdict.w]
    BY <2>5 DEF Entries
  <2> QED  BY <2>3, <2>4, <2>6, <2>7
<1>13. MadeForTheRequest'
  <2>1. found = {} => req'.cdict = NULL
    BY <1>7
  <2> QED  BY <1>7, <1>11, <1>12, <2>1 DEF MadeForTheRequest
<1>14. PreparedForEveryRequest'
  <2>1. SUFFICES ASSUME req'.cdict = NULL, ~ c.long, ~ (c.cblock > 0)
                 PROVE  <<d, c.level, w>> \in skipped
    BY <1>7 DEF PreparedForEveryRequest
  <2>2. found = {}
    <3>1. [dict |-> d, level |-> c.level, w |-> w]
            \in [dict : Dicts, level : Levels, w : MinLog .. MaxLog]
      BY <1>1, <1>6, LoadedConf
    <3> QED  BY <1>12, <2>1, <3>1, NullIsDistinct
  <2>3. Preparable(c)
    <3>1. c.dicts # <<>> /\ c.cblock \in Nat
      BY <1>1, LoadedConf
    <3> QED  BY <1>7, <2>1, <3>1 DEF Preparable
  <2>4. ConfCovered(c)
    BY <1>1, <1>7, <2>3 DEF CoverInv
  <2>5. Covered(d, c.level, w)
    BY <1>1, <1>2, <1>6, <2>4 DEF ConfCovered, DictCovered
  <2> QED  BY <2>1, <2>2, <2>5 DEF Covered, Lookup
<1>15. WindowSpansDictionary'
  <2>1. /\ 2 ^ w >= Need(DictLen[d], pledged) \/ w \in {MaxLog, c.windowLog, c.cap}
        /\ w = MinLog \/ 2 ^ (w - 1) < Need(DictLen[d], pledged)
    BY <1>3, <1>4, ResponseWindow
  <2> QED  BY <1>7, <2>1, Zenon DEF WindowSpansDictionary, Need
<1>16. ResponseBudget'
  <2>1. HasBudget(c) => c.cap # 0
    BY <1>7 DEF MergedConfs
  <2> QED  BY <1>6, <1>7, <2>1, WindowWithinBudget DEF ResponseBudget
<1> QED  BY <1>8, <1>9, <1>10, <1>11, <1>13, <1>14, <1>15, <1>16

-----------------------------------------------------------------------------
(* Theorems *)

LEMMA InitDcz == Init => DczInv
<1> SUFFICES ASSUME Init PROVE DczInv
  OBVIOUS
<1>1. StateInv
  BY SizeWidth DEF Init, StateInv
<1>2. CursorInv /\ CoverInv
  BY DEF Init, CursorInv, CoverInv
<1>3. SlotInv
  BY DEF Init, SlotInv
<1>4. WindowSpansDictionary /\ ResponseBudget /\ MadeForTheRequest /\ PreparedForEveryRequest
  BY DEF Init, NoRequest, WindowSpansDictionary, ResponseBudget, MadeForTheRequest,
         PreparedForEveryRequest
<1> QED  BY <1>1, <1>2, <1>3, <1>4 DEF DczInv

LEMMA NextDcz == DczInv /\ [Next]_vars => DczInv'
<1> SUFFICES ASSUME DczInv, [Next]_vars PROVE DczInv'
  OBVIOUS
<1> USE DEF DczInv
\* A step of the load that leaves the requests alone.
<1>1. ASSUME StateInv', CursorInv', CoverInv', slot' = slot, req' = req,
             skipped \subseteq skipped'
      PROVE  DczInv'
  BY <1>1, ResponseStays
\* A step that only changes the phase.
<1>2. ASSUME UNCHANGED <<confs, cursor, cdicts, bytes, skipped, runVars>>,
             \/ phase' = "failed"
             \/ phase = "load" /\ phase' = "run"
             \/ phase' = phase
      PROVE  DczInv'
  <2>1. StateInv'
    BY <1>2 DEF StateInv
  <2>2. CursorInv'
    BY <1>2 DEF CursorInv, Conf, Dict, Preparable
  <2>3. CoverInv'
    BY <1>2 DEF CoverInv, Conf, Dict, Preparable, ConfCovered, DictCovered, Covered
  <2> QED  BY <1>1, <1>2, <2>1, <2>2, <2>3 DEF runVars
<1>3. ASSUME NEW c \in Confs, OverBudget(c) PROVE DczInv'
  BY <1>2, <1>3 DEF OverBudget
<1>4. ASSUME NEW c \in Confs, MergeLocation(c) PROVE DczInv'
  <2>1. StateInv' /\ CursorInv' /\ CoverInv'
    BY <1>4, MergeKeeps
  <2> QED  BY <1>1, <1>4, <2>1 DEF MergeLocation, runVars
<1>5. CASE AlreadyPrepared
  <2>1. PICK D \in Dicts, C \in MergedConfs : D = Dict /\ C = Conf
    BY <1>5, AtCursor DEF AlreadyPrepared
  <2>2. PICK W, i : W = cursor.w /\ i = cursor.i
    OBVIOUS
  <2>3. /\ phase = "build" /\ Advance
        /\ UNCHANGED <<confs, cdicts, bytes, skipped, slot, req>>
        /\ Lookup(D, C, W) # {}
    BY <1>5, <2>1, <2>2 DEF AlreadyPrepared, runVars
  <2>4. Covered(D, C.level, W)'
    BY <2>3 DEF Covered, Lookup
  <2>5. CursorInv' /\ CoverInv' /\ phase' \in {"load", "build"}
    BY <2>1, <2>2, <2>3, <2>4, AdvanceCovers
  <2>6. StateInv'
    BY <2>3, <2>5 DEF StateInv
  <2> QED  BY <1>1, <2>3, <2>5, <2>6
<1>6. CASE SkipPrepared
  <2>1. PICK D \in Dicts, C \in MergedConfs : D = Dict /\ C = Conf
    BY <1>6, AtCursor DEF SkipPrepared
  <2>2. PICK W, i : W = cursor.w /\ i = cursor.i
    OBVIOUS
  <2>3. /\ phase = "build" /\ Advance
        /\ UNCHANGED <<confs, cdicts, bytes, slot, req>>
        /\ skipped' = skipped \cup {<<D, C.level, W>>}
    BY <1>6, <2>1, <2>2 DEF SkipPrepared, runVars
  <2>4. Covered(D, C.level, W)'
    BY <2>3 DEF Covered
  <2>5. CursorInv' /\ CoverInv' /\ phase' \in {"load", "build"}
    BY <2>1, <2>2, <2>3, <2>4, AdvanceCovers
  <2>6. StateInv'
    BY <2>3, <2>5 DEF StateInv
  <2> QED  BY <1>1, <2>3, <2>5, <2>6
<1>7. CASE Prepare
  <2>1. StateInv' /\ CursorInv' /\ CoverInv'
    BY <1>7, PrepareKeeps
  <2> QED  BY <1>1, <1>7, <2>1 DEF Prepare, runVars
<1>8. CASE PrepareFails
  BY <1>2, <1>8 DEF PrepareFails
<1>9. CASE Start
  BY <1>2, <1>9 DEF Start
<1>10. ASSUME NEW i \in 1 .. Len(confs), NEW pledged \in Pledges,
              Respond(confs[i], NULL, pledged)
       PROVE  DczInv'
  BY <1>10, PlainResponse
<1>11. ASSUME NEW i \in 1 .. Len(confs), NEW pledged \in Pledges,
              NEW k \in 1 .. Len(confs[i].dicts),
              Respond(confs[i], confs[i].dicts[k], pledged)
       PROVE  DczInv'
  BY <1>11, DictionaryResponse
<1>12. CASE UNCHANGED vars
  BY <1>2, <1>12 DEF vars, runVars
<1> QED
  BY <1>3, <1>4, <1>5, <1>6, <1>7, <1>8, <1>9, <1>10, <1>11, <1>12 DEF Next

(* The invariant of load and requests: what build_cdicts() has covered, and *)
(* the budgets merge_loc_conf() has checked (filter_module.c:4934-4955,     *)
(* :5585-5634).                                                             *)
THEOREM DczInvariant == Spec => []DczInv
BY InitDcz, NextDcz, PTL DEF Spec

(* The window of a dictionary response spans what it must and no more, for  *)
(* all lengths and without overflow (filter_module.c:329-353).              *)
THEOREM WindowIsRight == Spec => []WindowSpansDictionary
<1>1. DczInv => WindowSpansDictionary
  BY DEF DczInv
<1> QED  BY <1>1, DczInvariant, PTL

(* A reused context has the request's parameters, a prepared dictionary the *)
(* request's dictionary, level and window (filter_module.c:1226-1257,       *)
(* :6216-6240).                                                             *)
THEOREM ReuseIsExact == Spec => []MadeForTheRequest
<1>1. DczInv => MadeForTheRequest
  BY DEF DczInv
<1> QED  BY <1>1, DczInvariant, PTL

(* No request meets a window the load passed over, but for want of room     *)
(* (filter_module.c:381-390).                                               *)
THEOREM LoadPreparesAll == Spec => []PreparedForEveryRequest
<1>1. DczInv => PreparedForEveryRequest
  BY DEF DczInv
<1> QED  BY <1>1, DczInvariant, PTL

-----------------------------------------------------------------------------
(* Adding up sizes *)

\* The element a sum takes next, and the sum when f is that of the rest.
Taken(s) == CHOOSE x \in s : TRUE
SumStep(f, s) == IF s = {} THEN 0 ELSE SizeOf(Taken(s)) + f[s \ {Taken(s)}]

\* f is the sum of the subsets of S.
IsSum(f, S) == f = [s \in SUBSET S |-> SumStep(f, s)]

\* What holds of a set when it holds of all smaller ones holds of all finite
\* sets: an exception with the fewest elements would have none below it.
LEMMA SubsetInduction ==
  ASSUME NEW S, IsFiniteSet(S), NEW G,
         \A s \in SUBSET S : (\A t \in SUBSET s : t # s => t \in G) => s \in G
  PROVE  SUBSET S \subseteq G
<1> SUFFICES ASSUME NEW b \in SUBSET S, b \notin G PROVE FALSE
  OBVIOUS
<1>1. \A s \in SUBSET S : IsFiniteSet(s) /\ Cardinality(s) \in Nat
  BY FS_Subset, FS_CardinalityType
<1> DEFINE Sizes == {Cardinality(s) : s \in {t \in SUBSET S : t \notin G}}
<1>2. Sizes \subseteq Nat /\ Sizes # {}
  BY <1>1
<1>3. PICK m \in Sizes : \A n \in Sizes : m <= n
  <2> HIDE DEF Sizes
  <2> QED  BY <1>2, LeastNat
<1>4. PICK s \in SUBSET S : s \notin G /\ m = Cardinality(s)
  BY <1>3
<1>5. PICK t \in SUBSET s : t # s /\ t \notin G
  BY <1>4
<1>6. Cardinality(t) \in Sizes
  BY <1>5
<1>7. /\ Cardinality(t) \in Nat /\ Cardinality(s) \in Nat
      /\ Cardinality(t) <= Cardinality(s) /\ Cardinality(t) # Cardinality(s)
  BY <1>1, <1>5, FS_Subset
<1> HIDE DEF Sizes
<1>8. Cardinality(s) <= Cardinality(t)
  BY <1>3, <1>4, <1>6
<1> QED  BY <1>7, <1>8

LEMMA TakenLess ==
  ASSUME NEW s, s # {}
  PROVE  Taken(s) \in s
BY DEF Taken

\* There is a function that the sum computes.
LEMMA SumEnds ==
  ASSUME NEW S, IsFiniteSet(S)
  PROVE  \E f : IsSum(f, S)
<1> DEFINE Solves(f, n) == \A s \in SUBSET S : Cardinality(s) < n => f[s] = SumStep(f, s)
           Solved == {n \in Nat : \E f : Solves(f, n)}
<1>1. \A s \in SUBSET S : IsFiniteSet(s) /\ Cardinality(s) \in Nat
  BY FS_Subset, FS_CardinalityType
<1>2. 0 \in Solved
  <2>1. Solves(0, 0)
    BY <1>1
  <2> QED  BY <2>1
<1>3. ASSUME NEW n \in Solved PROVE n + 1 \in Solved
  <2>1. PICK f : Solves(f, n)
    OBVIOUS
  <2> DEFINE g == [s \in SUBSET S |-> SumStep(f, s)]
  <2>2. ASSUME NEW s \in SUBSET S, Cardinality(s) < n + 1
        PROVE  g[s] = SumStep(g, s)
    <3>1. CASE s = {}
      BY <3>1 DEF SumStep
    <3>2. CASE s # {}
      <4>1. PICK t \in SUBSET S : t = s \ {Taken(s)}
        OBVIOUS
      <4>2. Cardinality(t) = Cardinality(s) - 1
        BY <1>1, <3>2, <4>1, TakenLess, FS_RemoveElement
      <4>3. Cardinality(t) < n
        BY <1>1, <2>2, <4>2
      <4>4. g[t] = f[t]
        BY <2>1, <4>3
      <4>5. g[s] = SumStep(f, s)
        OBVIOUS
      <4> HIDE DEF g
      <4> QED  BY <4>1, <4>4, <4>5 DEF SumStep
    <3> QED  BY <3>1, <3>2
  <2>3. Solves(g, n + 1)
    BY <2>2
  <2>4. n + 1 \in Nat
    OBVIOUS
  <2> HIDE DEF g, Solves
  <2> QED  BY <2>3, <2>4
<1>4. Solved = Nat
  <2> DEFINE Bad == Nat \ Solved
  <2> SUFFICES ASSUME Bad # {} PROVE FALSE
    OBVIOUS
  <2>1. PICK m \in Bad : \A n \in Bad : m <= n
    <3>1. Bad \subseteq Nat
      OBVIOUS
    <3> HIDE DEF Bad
    <3> QED  BY <3>1, LeastNat
  <2>2. m \in Nat /\ m # 0
    BY <1>2
  <2>3. m - 1 \in Nat /\ m - 1 \notin Bad
    BY <2>1, <2>2
  <2> HIDE DEF Solved
  <2>4. (m - 1) + 1 \in Solved
    BY <1>3, <2>3
  <2> QED  BY <2>2, <2>4
<1>5. PICK f : Solves(f, Cardinality(S) + 1)
  <2>1. Cardinality(S) + 1 \in Nat
    BY <1>1
  <2> QED  BY <1>4, <2>1
<1>6. \A s \in SUBSET S : f[s] = SumStep(f, s)
  <2> TAKE s \in SUBSET S
  <2>1. Cardinality(s) < Cardinality(S) + 1
    BY <1>1, FS_Subset
  <2> QED  BY <1>5, <2>1
<1> DEFINE g == [s \in SUBSET S |-> f[s]]
<1>7. \A s \in SUBSET S : SumStep(g, s) = SumStep(f, s)
  <2> TAKE s \in SUBSET S
  <2>1. g[s \ {Taken(s)}] = f[s \ {Taken(s)}]
    OBVIOUS
  <2> HIDE DEF g
  <2> QED  BY <2>1 DEF SumStep
<1>8. IsSum(g, S)
  BY <1>6, <1>7 DEF IsSum
<1> HIDE DEF g
<1> QED  BY <1>8

LEMMA SumDef ==
  ASSUME NEW S, IsFiniteSet(S)
  PROVE  \E f : IsSum(f, S) /\ SizeOfAll(S) = f[S]
<1> DEFINE F == CHOOSE f : f = [s \in SUBSET S |->
                  IF s = {} THEN 0
                  ELSE SizeOf(CHOOSE x \in s : TRUE) + f[s \ {CHOOSE x \in s : TRUE}]]
<1>1. F = CHOOSE f : IsSum(f, S)
  BY Zenon DEF IsSum, SumStep, Taken
<1>2. SizeOfAll(S) = F[S]
  BY DEF SizeOfAll, MapThenSumSet, MapThenFoldSet
<1> HIDE DEF F
<1>3. IsSum(F, S)
  BY <1>1, SumEnds
<1> QED  BY <1>2, <1>3

\* The order of the elements does not matter.
LEMMA AnyOrder ==
  ASSUME NEW S, IsFiniteSet(S), \A x \in S : SizeOf(x) \in Nat,
         NEW f, IsSum(f, S),
         NEW s \in SUBSET S
  PROVE  f[s] \in Nat /\ \A y \in s : f[s] = SizeOf(y) + f[s \ {y}]
<1> DEFINE G == {t \in SUBSET S : f[t] \in Nat /\ \A y \in t : f[t] = SizeOf(y) + f[t \ {y}]}
<1>1. \A t \in SUBSET S : f[t] = SumStep(f, t)
  BY Zenon DEF IsSum
<1>2. ASSUME NEW t \in SUBSET S, \A u \in SUBSET t : u # t => u \in G
      PROVE  t \in G
  <2>1. CASE t = {}
    <3>1. f[t] = 0
      BY <1>1, <2>1, Zenon DEF SumStep
    <3> QED  BY <2>1, <3>1
  <2>2. CASE t # {}
    <3>1. PICK c \in t : c = Taken(t)
      BY <2>2, TakenLess
    <3>2. f[t] = SizeOf(c) + f[t \ {c}]
      BY <1>1, <2>2, <3>1 DEF SumStep
    <3>3. t \ {c} \in G
      BY <1>2
    <3>4. f[t] \in Nat
      BY <3>2, <3>3
    <3>5. ASSUME NEW y \in t, y # c PROVE f[t] = SizeOf(y) + f[t \ {y}]
      <4>1. t \ {y} \in G
        BY <1>2
      <4>2. f[t \ {c}] = SizeOf(y) + f[(t \ {c}) \ {y}]
        BY <3>3, <3>5
      <4>3. f[t \ {y}] = SizeOf(c) + f[(t \ {y}) \ {c}]
        BY <3>5, <4>1
      <4>4. (t \ {c}) \ {y} = (t \ {y}) \ {c}
        OBVIOUS
      <4>5. (t \ {c}) \ {y} \in G
        BY <1>2, <3>1
      <4>6. PICK a \in Nat : a = f[(t \ {c}) \ {y}]
        BY <4>5
      <4>7. SizeOf(y) \in Nat /\ SizeOf(c) \in Nat
        OBVIOUS
      <4>8. f[t] = SizeOf(c) + (SizeOf(y) + a)
        BY <3>2, <4>2, <4>6, Zenon
      <4>9. SizeOf(y) + f[t \ {y}] = SizeOf(y) + (SizeOf(c) + a)
        BY <4>3, <4>4, <4>6, Zenon
      <4>10. SizeOf(c) + (SizeOf(y) + a) = SizeOf(y) + (SizeOf(c) + a)
        BY <4>7
      <4> QED  BY <4>8, <4>9, <4>10, Zenon
    <3> QED  BY <3>2, <3>4, <3>5
  <2> QED  BY <2>1, <2>2
<1>3. SUBSET S \subseteq G
  <2> HIDE DEF G
  <2> QED  BY <1>2, SubsetInduction
<1> QED  BY <1>3

\* The sum of a set is its sum as part of a larger one.
LEMMA SameSums ==
  ASSUME NEW S, IsFiniteSet(S), NEW T \in SUBSET S,
         NEW f, IsSum(f, S),
         NEW g, IsSum(g, T)
  PROVE  f[T] = g[T]
<1> DEFINE G == {t \in SUBSET T : f[t] = g[t]}
<1>1. \A t \in SUBSET T : f[t] = SumStep(f, t) /\ g[t] = SumStep(g, t)
  <2>1. \A t \in SUBSET S : f[t] = SumStep(f, t)
    BY Zenon DEF IsSum
  <2>2. \A t \in SUBSET T : g[t] = SumStep(g, t)
    BY Zenon DEF IsSum
  <2> QED  BY <2>1, <2>2
<1>2. ASSUME NEW t \in SUBSET T, \A u \in SUBSET t : u # t => u \in G
      PROVE  t \in G
  <2>1. t # {} => t \ {Taken(t)} \in G
    BY <1>2, TakenLess
  <2> QED  BY <1>1, <2>1 DEF SumStep
<1>3. IsFiniteSet(T)
  BY FS_Subset
<1>4. SUBSET T \subseteq G
  <2> HIDE DEF G
  <2> QED  BY <1>2, <1>3, SubsetInduction
<1> QED  BY <1>4

\* One more element adds its size.
LEMMA OneMore ==
  ASSUME NEW S, IsFiniteSet(S), \A e \in S : SizeOf(e) \in Nat,
         NEW x, x \notin S, SizeOf(x) \in Nat
  PROVE  SizeOfAll(S \cup {x}) = SizeOfAll(S) + SizeOf(x)
<1>1. PICK T : T = S \cup {x}
  OBVIOUS
<1>2. IsFiniteSet(T) /\ \A e \in T : SizeOf(e) \in Nat
  BY <1>1, FS_AddElement
<1>3. PICK f : IsSum(f, T) /\ SizeOfAll(T) = f[T]
  BY <1>2, SumDef
<1>4. PICK g : IsSum(g, S) /\ SizeOfAll(S) = g[S]
  BY SumDef
<1>5. f[T] = SizeOf(x) + f[T \ {x}] /\ f[T \ {x}] \in Nat
  <2>1. T \in SUBSET T /\ T \ {x} \in SUBSET T /\ x \in T
    BY <1>1
  <2> QED  BY <1>2, <1>3, <2>1, AnyOrder
<1>6. T \ {x} = S
  BY <1>1
<1>7. f[S] = g[S]
  <2>1. S \in SUBSET T
    BY <1>1
  <2> QED  BY <1>2, <1>3, <1>4, <2>1, SameSums
<1>8. f[S] \in Nat /\ SizeOfAll(T) = SizeOf(x) + f[S]
  BY <1>3, <1>5, <1>6
<1>9. SizeOf(x) + f[S] = f[S] + SizeOf(x)
  BY <1>8
<1> QED  BY <1>1, <1>4, <1>7, <1>8, <1>9, Zenon

LEMMA NoneAtAll == SizeOfAll({}) = 0
<1>1. IsFiniteSet({})
  BY FS_EmptySet
<1>2. PICK f : IsSum(f, {}) /\ SizeOfAll({}) = f[{}]
  BY <1>1, SumDef
<1>3. f[{}] = SumStep(f, {})
  BY <1>2, Zenon DEF IsSum
<1> QED  BY <1>2, <1>3 DEF SumStep

-----------------------------------------------------------------------------
(* What the prepared dictionaries take *)

Prepared == UNION {cdicts[d] : d \in Dicts}

\* The bytes counted are those of the prepared dictionaries.
BytesInv ==
  /\ IsFiniteSet(Prepared)
  /\ \A e \in Prepared : SizeOf(e) \in Nat
  /\ bytes = SizeOfAll(Prepared)

LEMMA BytesStep == DczInv /\ BytesInv /\ [Next]_vars => BytesInv'
<1> SUFFICES ASSUME DczInv, BytesInv, [Next]_vars PROVE BytesInv'
  OBVIOUS
<1>1. ASSUME UNCHANGED <<cdicts, bytes>> PROVE BytesInv'
  BY <1>1 DEF BytesInv, Prepared
<1>2. CASE Prepare
  <2>1. /\ phase = "build" /\ Lookup(Dict, Conf, cursor.w) = {}
        /\ bytes' = bytes + Measured
        /\ cdicts' = [cdicts EXCEPT ![Dict] =
                        @ \cup {[dict |-> Dict, level |-> Conf.level, w |-> cursor.w]}]
    BY <1>2 DEF Prepare
  <2>2. PICK D \in Dicts, C \in MergedConfs :
          /\ D = Dict /\ C = Conf /\ C.level \in Levels /\ cursor.w \in MinLog .. MaxLog
    BY <2>1, AtCursor DEF DczInv
  <2>3. PICK e : e = [dict |-> D, level |-> C.level, w |-> cursor.w]
    OBVIOUS
  <2>4. /\ e.dict = D /\ e.level = C.level /\ e.w = cursor.w
        /\ Measured = SizeOf(e) /\ SizeOf(e) \in Nat
    <3>1. e.dict = D /\ e.level = C.level /\ e.w = cursor.w
      BY <2>3
    <3>2. Measured = SizeOf(e)
      BY <2>2, <3>1 DEF Measured, SizeOf
    <3>3. CDictSize(D, C.level, cursor.w) \in Nat
      BY <2>2, CDictSizes
    <3> QED  BY <3>1, <3>2, <3>3 DEF SizeOf
  <2>5. cdicts' = [cdicts EXCEPT ![D] = cdicts[D] \cup {e}]
    BY <2>1, <2>2, <2>3
  <2>6. Prepared' = Prepared \cup {e}
    <3>1. DOMAIN cdicts = Dicts
      BY DEF DczInv, StateInv
    <3>2. /\ cdicts'[D] = cdicts[D] \cup {e}
          /\ \A d \in Dicts : d # D => cdicts'[d] = cdicts[d]
      BY <2>5, <3>1
    <3> QED  BY <3>2 DEF Prepared
  <2>7. e \notin Prepared
    <3>1. Preparable(Conf)
      BY <2>1 DEF DczInv, CursorInv
    <3>2. ~ (C.long \/ C.cblock > 0)
      BY <2>2, <3>1 DEF Preparable, MergedConfs
    <3>3. e \notin cdicts[D]
      BY <2>1, <2>2, <2>4, <3>2 DEF Lookup
    <3>4. \A d \in Dicts : \A x \in cdicts[d] : x.dict = d
      BY DEF DczInv, StateInv, Entries
    <3> QED  BY <2>4, <3>3, <3>4 DEF Prepared
  <2>8. SizeOfAll(Prepared') = SizeOfAll(Prepared) + SizeOf(e)
    BY <2>4, <2>6, <2>7, OneMore DEF BytesInv
  <2>9. IsFiniteSet(Prepared')
    BY <2>6, FS_AddElement DEF BytesInv
  <2> QED  BY <2>1, <2>4, <2>6, <2>8, <2>9 DEF BytesInv
<1>3. ASSUME NEW c \in Confs, OverBudget(c) \/ MergeLocation(c) PROVE BytesInv'
  BY <1>1, <1>3 DEF OverBudget, MergeLocation
<1>4. CASE AlreadyPrepared
  BY <1>1, <1>4 DEF AlreadyPrepared
<1>5. CASE SkipPrepared
  BY <1>1, <1>5 DEF SkipPrepared
<1>6. CASE PrepareFails \/ Start
  BY <1>1, <1>6 DEF PrepareFails, Start
<1>7. ASSUME NEW c, NEW dict, NEW pledged, Respond(c, dict, pledged)
      PROVE  BytesInv'
  BY <1>1, <1>7 DEF Respond
<1>8. CASE UNCHANGED vars
  BY <1>1, <1>8 DEF vars
<1> QED
  BY <1>2, <1>3, <1>4, <1>5, <1>6, <1>7, <1>8 DEF Next

LEMMA InitBytes == Init => BytesInv
<1> SUFFICES ASSUME Init PROVE BytesInv
  OBVIOUS
<1>1. Prepared = {}
  BY DEF Init, Prepared
<1> QED  BY <1>1, NoneAtAll, FS_EmptySet DEF Init, BytesInv

(* No response takes more memory than its location was accepted with, and   *)
(* the prepared dictionaries, counted to the byte, stay within their limit  *)
(* (filter_module.c:4934-4955, :6338-6386).                                 *)
THEOREM BudgetsAreKept == Spec => []BudgetHeld
<1>1. Spec => []BytesInv
  BY InitBytes, BytesStep, DczInvariant, PTL DEF Spec
<1>2. DczInv /\ BytesInv => BudgetHeld
  BY DEF DczInv, StateInv, BytesInv, Prepared, BudgetHeld
<1> QED  BY <1>1, <1>2, DczInvariant, PTL
=============================================================================
