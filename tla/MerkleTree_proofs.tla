------------------------- MODULE MerkleTree_proofs -------------------------
(***************************************************************************)
(* Theorems about Merkle trees of any height: every path that is opened    *)
(* leads to the root, leaves with one root are the same, and what climbs   *)
(* to the root is the leaf that is there.                                  *)
(*                                                                         *)
(* The layers, their places in the array and a path's way up are functions *)
(* by recursion.  What they compute is proved by induction over the height *)
(* or the length of the path; the induction is that of the natural numbers *)
(* on sets, which follows from their order being well founded.             *)
(***************************************************************************)
EXTENDS MerkleTree, SequenceTheorems, FunctionTheorems, FiniteSetTheorems,
        WellFoundedInduction, TLAPS

-----------------------------------------------------------------------------
(* Induction.                                                              *)

\* A set of numbers has a least one.
LEMMA LeastElement ==
  ASSUME NEW T, T \subseteq Nat, T # {}
  PROVE  \E m \in T : \A n \in T : m <= n
<1> DEFINE R == {pair \in Nat \X Nat : pair[1] < pair[2]}
<1>1. IsWellFoundedOn(R, Nat)
  BY NatLessThanWellFounded DEF OpToRel
<1>2. \A m, n \in Nat : m < n => <<m, n>> \in R
  OBVIOUS
<1> HIDE DEF R
<1>3. \E m \in T : \A n \in T : ~ (<<n, m>> \in R)
  BY <1>1, WFMin
<1>4. PICK m \in T : \A n \in T : ~ (<<n, m>> \in R)
  BY <1>3
<1>5. ASSUME NEW n \in T PROVE m <= n
  <2>1. m \in Nat /\ n \in Nat
    OBVIOUS
  <2>2. ~ (n < m)
    BY <1>2, <1>4, <2>1
  <2> QED
    BY <2>1, <2>2
<1> QED
  BY <1>5

\* What holds for zero and passes on to the next holds for all: S is the set of
\* the numbers that it holds for.
LEMMA Induction ==
  ASSUME NEW S, 0 \in S, \A n \in Nat : n \in S => n + 1 \in S
  PROVE  \A n \in Nat : n \in S
<1> DEFINE T == Nat \ S
<1>1. SUFFICES ASSUME T # {} PROVE FALSE
  OBVIOUS
<1>2. PICK m \in T : \A n \in T : m <= n
  BY <1>1, LeastElement
<1>3. m # 0 /\ m - 1 \in Nat /\ m - 1 \notin T
  BY <1>2
<1> QED
  BY <1>2, <1>3

\* The same up to a bound.
LEMMA BoundedInduction ==
  ASSUME NEW N \in Nat, NEW S, 0 \in S, \A n \in 0..N - 1 : n \in S => n + 1 \in S
  PROVE  \A n \in 0..N : n \in S
<1> DEFINE T == {n \in Nat : n <= N => n \in S}
<1>1. \A n \in Nat : n \in T
  <2>1. 0 \in T
    OBVIOUS
  <2>2. \A n \in Nat : n \in T => n + 1 \in T
    OBVIOUS
  <2> HIDE DEF T
  <2> QED
    BY <2>1, <2>2, Induction
<1> QED
  BY <1>1

-----------------------------------------------------------------------------
(* Powers of two.                                                          *)

\* Two to the n is the number of the subsets of 1..n.
LEMMA CountSubsets ==
  ASSUME NEW n \in Nat
  PROVE  /\ IsFiniteSet(SUBSET (1..n))
         /\ Cardinality(SUBSET (1..n)) = 2 ^ n
         /\ 2 ^ n \in Nat
<1>1. IsFiniteSet(1..n) /\ Cardinality(1..n) = n
  BY FS_Interval
<1>2. IsFiniteSet(SUBSET (1..n)) /\ Cardinality(SUBSET (1..n)) = 2 ^ n
  BY <1>1, FS_SUBSET
<1> QED
  BY <1>2, FS_CardinalityType

\* A set has twice as many subsets with one more element.
LEMMA Doubles ==
  ASSUME NEW n \in Nat
  PROVE  2 ^ (n + 1) = 2 ^ n + 2 ^ n
<1> DEFINE old == SUBSET (1..n)
           new == {A \in SUBSET (1..n + 1) : n + 1 \in A}
           with == [A \in old |-> A \cup {n + 1}]
<1>1. IsFiniteSet(old) /\ Cardinality(old) = 2 ^ n /\ 2 ^ n \in Nat
  BY CountSubsets
<1>2. with \in Bijection(old, new)
  <2>1. \A A \in old : n + 1 \notin A
    OBVIOUS
  <2>2. with \in [old -> new]
    OBVIOUS
  <2>3. \A A, B \in old : with[A] = with[B] => A = B
    <3> TAKE A, B \in old
    <3>1. with[A] = A \cup {n + 1} /\ with[B] = B \cup {n + 1}
      OBVIOUS
    <3> QED
      BY <2>1, <3>1
  <2>4. \A B \in new : \E A \in old : with[A] = B
    <3> TAKE B \in new
    <3>1. B \ {n + 1} \in old
      OBVIOUS
    <3>2. with[B \ {n + 1}] = B
      BY <3>1
    <3> QED
      BY <3>1, <3>2
  <2> HIDE DEF old, new, with
  <2> QED
    BY <2>2, <2>3, <2>4, Fun_IsBij
<1>3. IsFiniteSet(new) /\ Cardinality(new) = 2 ^ n
  <2> HIDE DEF old, new, with
  <2> QED
    BY <1>1, <1>2, FS_Bijection, Fun_ExistsBij
<1>4. old \cup new = SUBSET (1..n + 1) /\ old \cap new = {}
  OBVIOUS
<1>5. Cardinality(SUBSET (1..n + 1)) = Cardinality(old) + Cardinality(new) - Cardinality(old \cap new)
  <2> HIDE DEF old, new, with
  <2> QED
    BY <1>1, <1>3, <1>4, FS_Union
<1>6. Cardinality({}) = 0
  BY FS_EmptySet
<1>7. Cardinality(SUBSET (1..n + 1)) = 2 ^ (n + 1)
  BY CountSubsets
<1> HIDE DEF old, new, with
<1>8. Cardinality(SUBSET (1..n + 1)) = 2 ^ n + 2 ^ n - 0
  BY <1>1, <1>3, <1>4, <1>5, <1>6
<1> QED
  BY <1>1, <1>7, <1>8
\* Two to the n is a number.
LEMMA Powers ==
  /\ 2 ^ 0 = 1
  /\ \A n \in Nat : 2 ^ n \in Nat \ {0}
<1>1. 2 ^ 0 = 1
  OBVIOUS
<1> DEFINE S == {n \in Nat : 2 ^ n # 0}
<1>2. 0 \in S
  BY <1>1
<1>3. ASSUME NEW n \in Nat, n \in S PROVE n + 1 \in S
  <2>1. 2 ^ n \in Nat /\ 2 ^ n # 0 /\ 2 ^ (n + 1) = 2 ^ n + 2 ^ n
    BY <1>3, CountSubsets, Doubles
  <2>2. 2 ^ (n + 1) # 0
    BY <2>1
  <2> QED
    BY <2>2
<1>4. \A n \in Nat : n \in S
  <2> HIDE DEF S
  <2> QED
    BY <1>2, <1>3, Induction
<1> QED
  BY <1>1, <1>4, CountSubsets

\* They grow.
LEMMA PowersGrow ==
  ASSUME NEW m \in Nat, NEW n \in Nat, m < n
  PROVE  2 ^ m < 2 ^ n
<1> DEFINE S == {d \in Nat : 2 ^ m < 2 ^ (m + d + 1)}
<1>1. 0 \in S
  <2>1. 2 ^ m \in Nat \ {0} /\ 2 ^ (m + 1) = 2 ^ m + 2 ^ m
    BY Powers, Doubles
  <2>2. 2 ^ m < 2 ^ (m + 1) /\ m + 0 + 1 = m + 1
    BY <2>1
  <2> QED
    BY <2>2
<1>2. ASSUME NEW d \in Nat, d \in S PROVE d + 1 \in S
  <2>1. m + d + 1 \in Nat /\ m + (d + 1) + 1 = (m + d + 1) + 1
    OBVIOUS
  <2>2. /\ 2 ^ m \in Nat \ {0}
        /\ 2 ^ (m + d + 1) \in Nat \ {0}
        /\ 2 ^ (m + (d + 1) + 1) = 2 ^ (m + d + 1) + 2 ^ (m + d + 1)
    BY <2>1, Powers, Doubles
  <2>3. 2 ^ m < 2 ^ (m + d + 1)
    BY <1>2
  <2>4. 2 ^ m < 2 ^ (m + (d + 1) + 1)
    BY <2>2, <2>3
  <2> QED
    BY <2>4
<1>3. \A d \in Nat : d \in S
  <2> HIDE DEF S
  <2> QED
    BY <1>1, <1>2, Induction
<1>4. n - m - 1 \in Nat /\ m + (n - m - 1) + 1 = n
  OBVIOUS
<1> QED
  BY <1>3, <1>4

\* The logarithm of a power.
LEMMA LogOfPower ==
  ASSUME NEW n \in Nat
  PROVE  Log2(2 ^ n) = n
<1> DEFINE is(k) == 2 ^ k >= 2 ^ n /\ (k = 0 \/ 2 ^ (k - 1) < 2 ^ n)
<1>1. \A k \in Nat : 2 ^ k \in Nat \ {0}
  BY Powers
<1>2. n <= 2 ^ n
  <2> DEFINE S == {k \in Nat : k <= 2 ^ k}
  <2>1. 0 \in S
    BY <1>1
  <2>2. ASSUME NEW k \in Nat, k \in S PROVE k + 1 \in S
    <3>1. 2 ^ k \in Nat \ {0} /\ k <= 2 ^ k /\ 2 ^ (k + 1) = 2 ^ k + 2 ^ k
      BY <2>2, <1>1, Doubles
    <3>2. k + 1 <= 2 ^ (k + 1)
      BY <3>1
    <3> QED
      BY <3>2
  <2>3. \A k \in Nat : k \in S
    <3> HIDE DEF S
    <3> QED
      BY <2>1, <2>2, Induction
  <2> QED
    BY <2>3
<1>3. n \in 0..2 ^ n
  BY <1>1, <1>2
<1>4. is(n)
  <2>1. CASE n = 0
    BY <1>1, <2>1
  <2>2. CASE n # 0
    <3>1. n - 1 \in Nat /\ n - 1 < n
      BY <2>2
    <3>2. 2 ^ (n - 1) < 2 ^ n
      BY <3>1, PowersGrow
    <3> QED
      BY <1>1, <3>2
  <2> QED
    BY <2>1, <2>2
<1>5. ASSUME NEW k \in 0..2 ^ n, is(k) PROVE k = n
  <2>1. k \in Nat
    BY <1>1
  <2>2. ~ (k < n)
    <3>1. SUFFICES ASSUME k < n PROVE FALSE
      OBVIOUS
    <3>2. 2 ^ k < 2 ^ n /\ 2 ^ k \in Nat /\ 2 ^ n \in Nat
      BY <1>1, <2>1, <3>1, PowersGrow
    <3> QED
      BY <1>5, <3>2
  <2>3. ~ (n < k)
    <3>1. SUFFICES ASSUME n < k PROVE FALSE
      OBVIOUS
    <3>2. k - 1 \in Nat /\ n <= k - 1 /\ k # 0
      BY <2>1, <3>1
    <3>3. 2 ^ n <= 2 ^ (k - 1)
      BY <1>1, <3>2, PowersGrow
    <3>4. 2 ^ (k - 1) < 2 ^ n /\ 2 ^ n \in Nat /\ 2 ^ (k - 1) \in Nat
      BY <1>1, <1>5, <3>2
    <3> QED
      BY <3>3, <3>4
  <2> QED
    BY <2>1, <2>2, <2>3
<1>6. Log2(2 ^ n) = CHOOSE k \in 0..2 ^ n : is(k)
  BY DEF Log2
<1> HIDE DEF is
<1> QED
  BY <1>3, <1>4, <1>5, <1>6

-----------------------------------------------------------------------------
(* The layers of a tree.                                                   *)

\* The layers that Digests puts behind one another: the one after n digests the
\* digests of the n-th in pairs.
AreLayers(layer, leaves, height) ==
  layer = [n \in 0..height |-> IF n = 0 THEN leaves ELSE MerkleLayer(layer[n - 1])]

LayersOf(leaves, height) == CHOOSE layer : AreLayers(layer, leaves, height)

LEMMA DigestsAreLayers ==
  ASSUME NEW leaves
  PROVE  Digests(leaves) = FlattenSeq([n \in 1..Log2(Len(leaves)) + 1 |->
                                         LayersOf(leaves, Log2(Len(leaves)))[n - 1]])
BY DEF Digests, LayersOf, AreLayers

LEMMA LayersExist ==
  ASSUME NEW leaves, NEW height \in Nat
  PROVE  AreLayers(LayersOf(leaves, height), leaves, height)
<1> DEFINE S == {n \in Nat : \E layer : AreLayers(layer, leaves, n)}
<1>1. 0 \in S
  <2>1. AreLayers([n \in 0..0 |-> leaves], leaves, 0)
    BY DEF AreLayers
  <2> QED
    BY <2>1
<1>2. ASSUME NEW n \in Nat, n \in S PROVE n + 1 \in S
  <2>1. PICK layer : AreLayers(layer, leaves, n)
    BY <1>2
  <2> DEFINE longer == [k \in 0..n + 1 |-> IF k = 0 THEN leaves ELSE MerkleLayer(layer[k - 1])]
  <2>2. \A k \in 0..n : longer[k] = layer[k]
    <3>1. \A k \in 0..n : layer[k] = IF k = 0 THEN leaves ELSE MerkleLayer(layer[k - 1])
      BY <2>1 DEF AreLayers
    <3> QED
      BY <3>1
  <2>3. \A k \in 0..n + 1 : k # 0 => k - 1 \in 0..n
    OBVIOUS
  <2>4. longer = [k \in 0..n + 1 |-> IF k = 0 THEN leaves ELSE MerkleLayer(longer[k - 1])]
    BY <2>2, <2>3
  <2>5. AreLayers(longer, leaves, n + 1)
    BY <2>4 DEF AreLayers
  <2> QED
    BY <2>5
<1>3. \A n \in Nat : n \in S
  <2> HIDE DEF S
  <2> QED
    BY <1>1, <1>2, Induction
<1>4. \E layer : AreLayers(layer, leaves, height)
  BY <1>3
<1> QED
  BY <1>4 DEF LayersOf

\* s has n elements.
Spans(s, n) == s = [i \in 1..n |-> s[i]]

\* Leaves that are a power of two, and their layers.
IsFullTree(leaves, layer, height) ==
  /\ Spans(leaves, 2 ^ height)
  /\ AreLayers(layer, leaves, height)

\* The length of layer n, and what is in it.
LEMMA LayersHalve ==
  ASSUME NEW height \in Nat, NEW leaves, NEW layer, IsFullTree(leaves, layer, height)
  PROVE  /\ layer[0] = leaves
         /\ \A n \in 0..height : Spans(layer[n], 2 ^ (height - n))
         /\ \A n \in 0..height - 1 : \A i \in 1..2 ^ (height - n - 1) :
              layer[n + 1][i] = NodeDigest(layer[n][2 * i - 1], layer[n][2 * i])
<1> DEFINE size(n) == 2 ^ (height - n)
           S == {n \in 0..height : Spans(layer[n], size(n))}
<1>1. layer[0] = leaves
  BY DEF IsFullTree, AreLayers
<1>2. ASSUME NEW n \in 0..height - 1, n \in S
      PROVE  layer[n + 1] = [i \in 1..size(n + 1) |->
                               NodeDigest(layer[n][2 * i - 1], layer[n][2 * i])]
  <2>1. /\ n + 1 \in 0..height /\ n + 1 # 0 /\ (n + 1) - 1 = n
        /\ height - (n + 1) \in Nat /\ height - n = (height - (n + 1)) + 1
    OBVIOUS
  <2>2. layer[n + 1] = MerkleLayer(layer[n])
    BY <2>1 DEF IsFullTree, AreLayers
  <2>3. size(n + 1) \in Nat /\ size(n) = size(n + 1) + size(n + 1)
    BY <2>1, Powers, Doubles
  <2> DEFINE half == size(n + 1)
             whole == size(n)
  <2>4. layer[n] = [i \in 1..whole |-> layer[n][i]] /\ whole \in Nat /\ half \in Nat /\ whole = half + half
    BY <1>2, <2>3 DEF Spans
  <2> HIDE DEF half, whole
  <2>5. Len(layer[n]) = whole
    BY <2>4
  <2>6. whole \div 2 = half
    BY <2>4
  <2>7. layer[n + 1] = [i \in 1..half |-> NodeDigest(layer[n][2 * i - 1], layer[n][2 * i])]
    BY <2>2, <2>5, <2>6 DEF MerkleLayer
  <2> QED
    BY <2>7 DEF half
<1>3. 0 \in S
  BY <1>1 DEF IsFullTree
<1>4. ASSUME NEW n \in 0..height - 1, n \in S PROVE n + 1 \in S
  <2>1. layer[n + 1] = [i \in 1..size(n + 1) |-> NodeDigest(layer[n][2 * i - 1], layer[n][2 * i])]
    BY <1>2, <1>4
  <2> HIDE DEF size
  <2>2. Spans(layer[n + 1], size(n + 1))
    BY <2>1 DEF Spans
  <2>3. n + 1 \in 0..height
    OBVIOUS
  <2> QED
    BY <2>2, <2>3
<1>5. \A n \in 0..height : n \in S
  <2> HIDE DEF S
  <2> QED
    BY <1>3, <1>4, BoundedInduction
<1>6. ASSUME NEW n \in 0..height - 1, NEW i \in 1..2 ^ (height - n - 1)
      PROVE  layer[n + 1][i] = NodeDigest(layer[n][2 * i - 1], layer[n][2 * i])
  <2>1. height - (n + 1) = height - n - 1 /\ n \in 0..height
    OBVIOUS
  <2> QED
    BY <1>2, <1>5, <2>1
<1> QED
  BY <1>1, <1>5, <1>6
-----------------------------------------------------------------------------
(* The layers behind one another.                                          *)

\* Two sequences behind one another.
Joins(both, s, m, t, n) == both = [i \in 1..m + n |-> IF i <= m THEN s[i] ELSE t[i - m]]

LEMMA Joined ==
  ASSUME NEW m \in Nat, NEW n \in Nat, NEW s, Spans(s, m), NEW t, Spans(t, n),
         NEW both, both = s \o t
  PROVE  Joins(both, s, m, t, n)
<1> DEFINE V == {s[i] : i \in 1..m} \cup {t[i] : i \in 1..n}
<1>1. s \in Seq(V) /\ Len(s) = m /\ t \in Seq(V) /\ Len(t) = n
  <2>1. \A i \in 1..m : s[i] \in V
    OBVIOUS
  <2>2. \A i \in 1..n : t[i] \in V
    OBVIOUS
  <2> HIDE DEF V
  <2>3. s \in [1..m -> V] /\ t \in [1..n -> V]
    BY <2>1, <2>2 DEF Spans
  <2> QED
    BY <2>3
<1> HIDE DEF V
<1>2. /\ both \in Seq(V)
      /\ Len(both) = m + n
      /\ \A i \in 1..m + n : both[i] = IF i <= m THEN s[i] ELSE t[i - m]
  BY <1>1, ConcatProperties
<1>3. both \in [1..m + n -> V]
  BY <1>2, LenProperties
<1> QED
  BY <1>2, <1>3 DEF Joins

\* What FlattenSeq collects.
IsFlattened(flat, seqs, n) ==
  flat = [i \in 1..n |-> IF i = 1 THEN seqs[i] ELSE flat[i - 1] \o seqs[i]]

LEMMA Flattened ==
  ASSUME NEW n \in Nat, NEW seqs, Len(seqs) = n + 1
  PROVE  \E flat : IsFlattened(flat, seqs, n + 1) /\ FlattenSeq(seqs) = flat[n + 1]
<1> DEFINE S == {m \in Nat : \E flat : IsFlattened(flat, seqs, m + 1)}
<1>1. 0 \in S
  <2>1. IsFlattened([i \in 1..0 + 1 |-> seqs[i]], seqs, 0 + 1)
    BY DEF IsFlattened
  <2> QED
    BY <2>1
<1>2. ASSUME NEW m \in Nat, m \in S PROVE m + 1 \in S
  <2>1. PICK flat : IsFlattened(flat, seqs, m + 1)
    BY <1>2
  <2> DEFINE longer == [i \in 1..m + 1 + 1 |-> IF i = 1 THEN seqs[i] ELSE flat[i - 1] \o seqs[i]]
  <2>2. \A i \in 1..m + 1 : flat[i] = IF i = 1 THEN seqs[i] ELSE flat[i - 1] \o seqs[i]
    BY <2>1 DEF IsFlattened
  <2>3. \A i \in 1..m + 1 : longer[i] = flat[i]
    BY <2>2
  <2>4. \A i \in 1..m + 1 + 1 : i # 1 => i - 1 \in 1..m + 1
    OBVIOUS
  <2>5. longer = [i \in 1..m + 1 + 1 |-> IF i = 1 THEN seqs[i] ELSE longer[i - 1] \o seqs[i]]
    BY <2>3, <2>4
  <2>6. IsFlattened(longer, seqs, m + 1 + 1)
    BY <2>5 DEF IsFlattened
  <2> QED
    BY <2>6
<1>3. \A m \in Nat : m \in S
  <2> HIDE DEF S
  <2> QED
    BY <1>1, <1>2, Induction
<1> DEFINE chosen == CHOOSE flat : IsFlattened(flat, seqs, n + 1)
<1>4. IsFlattened(chosen, seqs, n + 1)
  BY <1>3
<1>5. FlattenSeq(seqs) = chosen[n + 1]
  BY DEF FlattenSeq, IsFlattened
<1> QED
  BY <1>4, <1>5

\* Where layer n begins in the array.
LayerStart(height, n) == 2 ^ (height + 1) - 2 ^ (height + 1 - n)

LEMMA LayerStarts ==
  ASSUME NEW height \in Nat
  PROVE  /\ LayerStart(height, 0) = 0
         /\ LayerStart(height, height + 1) = 2 ^ (height + 1) - 1
         /\ \A n \in 0..height + 1 : LayerStart(height, n) \in Nat
         /\ \A n \in 0..height : LayerStart(height, n + 1) = LayerStart(height, n) + 2 ^ (height - n)
<1>1. \A n \in Nat : 2 ^ n \in Nat \ {0}
  BY Powers
<1>2. height + 1 - 0 = height + 1 /\ height + 1 \in Nat /\ height + 1 - (height + 1) = 0
  OBVIOUS
<1>3. LayerStart(height, 0) = 0
  BY <1>1, <1>2 DEF LayerStart
<1>4. LayerStart(height, height + 1) = 2 ^ (height + 1) - 1
  BY <1>2, Powers DEF LayerStart
<1>5. ASSUME NEW n \in 0..height + 1 PROVE LayerStart(height, n) \in Nat
  <2>1. CASE n = 0
    BY <1>3, <2>1
  <2>2. CASE n # 0
    <3>1. height + 1 - n \in Nat /\ height + 1 - n < height + 1
      BY <2>2
    <3>2. 2 ^ (height + 1 - n) < 2 ^ (height + 1)
      BY <1>2, <3>1, PowersGrow
    <3>3. 2 ^ (height + 1 - n) \in Nat /\ 2 ^ (height + 1) \in Nat
      BY <1>1, <1>2, <3>1
    <3> QED
      BY <3>2, <3>3 DEF LayerStart
  <2> QED
    BY <2>1, <2>2
<1>6. ASSUME NEW n \in 0..height
      PROVE  LayerStart(height, n + 1) = LayerStart(height, n) + 2 ^ (height - n)
  <2>1. /\ height - n \in Nat /\ height + 1 - (n + 1) = height - n
        /\ height + 1 - n = (height - n) + 1
    OBVIOUS
  <2>2. /\ 2 ^ (height - n) \in Nat /\ 2 ^ (height + 1) \in Nat
        /\ 2 ^ (height + 1 - n) = 2 ^ (height - n) + 2 ^ (height - n)
    BY <1>1, <1>2, <2>1, Doubles
  <2>3. LayerStart(height, n + 1) = 2 ^ (height + 1) - 2 ^ (height - n)
    BY <2>1 DEF LayerStart
  <2> QED
    BY <2>2, <2>3 DEF LayerStart
<1> QED
  BY <1>3, <1>4, <1>5, <1>6
\* A tree as one array: layer n is behind those before it, and the root is last.
IsTree(digests, layer, height) ==
  /\ Spans(digests, 2 ^ (height + 1) - 1)
  /\ \A n \in 0..height : \A i \in 1..2 ^ (height - n) :
       digests[LayerStart(height, n) + i] = layer[n][i]
  /\ TreeRoot(digests) = layer[height][1]

LEMMA DigestsAreTree ==
  ASSUME NEW height \in Nat, NEW leaves, NEW layer, layer = LayersOf(leaves, height),
         IsFullTree(leaves, layer, height)
  PROVE  IsTree(Digests(leaves), layer, height)
<1> DEFINE start(n) == LayerStart(height, n)
           size(n) == 2 ^ (height - n)
           seqs == [n \in 1..height + 1 |-> layer[n - 1]]
           digests == Digests(leaves)
<1>1. digests = FlattenSeq(seqs)
  <2>1. Len(leaves) = 2 ^ height
    BY Powers DEF IsFullTree, Spans
  <2>2. Log2(Len(leaves)) = height
    BY <2>1, LogOfPower
  <2> QED
    BY <2>2, DigestsAreLayers
<1>2. /\ \A n \in 0..height : size(n) \in Nat \ {0}
      /\ \A n \in 0..height : Spans(layer[n], size(n))
  <2>1. \A n \in 0..height : height - n \in Nat
    OBVIOUS
  <2>2. \A n \in 0..height : Spans(layer[n], 2 ^ (height - n))
    BY LayersHalve
  <2> QED
    BY <2>1, <2>2, Powers
<1>3. /\ start(0) = 0
      /\ start(height + 1) = 2 ^ (height + 1) - 1
      /\ \A n \in 0..height + 1 : start(n) \in Nat
      /\ \A n \in 0..height : start(n + 1) = start(n) + size(n)
  BY LayerStarts
<1>4. \A n \in 0..height : seqs[n + 1] = layer[n]
  <2>1. \A n \in 0..height : n + 1 \in 1..height + 1 /\ (n + 1) - 1 = n
    OBVIOUS
  <2> QED
    BY <2>1
<1>5. Len(seqs) = height + 1
  OBVIOUS
<1> HIDE DEF start, size, seqs, digests
<1>6. PICK flat : IsFlattened(flat, seqs, height + 1) /\ digests = flat[height + 1]
  BY <1>1, <1>5, Flattened
<1>7. /\ flat[1] = layer[0]
      /\ \A n \in 0..height - 1 : flat[n + 1 + 1] = flat[n + 1] \o layer[n + 1]
  <2>1. \A i \in 1..height + 1 : flat[i] = IF i = 1 THEN seqs[i] ELSE flat[i - 1] \o seqs[i]
    BY <1>6 DEF IsFlattened
  <2>2. flat[1] = layer[0]
    <3>1. 1 \in 1..height + 1 /\ 0 \in 0..height /\ 0 + 1 = 1
      OBVIOUS
    <3>2. flat[1] = seqs[1]
      BY <2>1, <3>1
    <3> QED
      BY <1>4, <3>1, <3>2
  <2>3. ASSUME NEW n \in 0..height - 1 PROVE flat[n + 1 + 1] = flat[n + 1] \o layer[n + 1]
    <3>1. n + 1 \in 0..height /\ n + 1 + 1 \in 1..height + 1 /\ n + 1 + 1 # 1 /\ (n + 1 + 1) - 1 = n + 1
      OBVIOUS
    <3> QED
      BY <1>4, <2>1, <3>1
  <2> QED
    BY <2>2, <2>3
<1> DEFINE part(n) == /\ Spans(flat[n + 1], start(n + 1))
                      /\ \A m \in 0..n : \A i \in 1..size(m) : flat[n + 1][start(m) + i] = layer[m][i]
           S == {n \in 0..height : part(n)}
<1>8. part(0)
  <2>1. 0 \in 0..height /\ 0 + 1 = 1
    OBVIOUS
  <2>2. start(1) = size(0) /\ start(0) = 0 /\ size(0) \in Nat
    <3>1. start(0 + 1) = 0 + size(0) /\ size(0) \in Nat
      BY <1>2, <1>3, <2>1
    <3> QED
      BY <1>3, <2>1, <3>1
  <2>3. Spans(flat[1], size(0))
    BY <1>2, <1>7, <2>1
  <2>4. \A i \in 1..size(0) : flat[1][start(0) + i] = layer[0][i]
    BY <1>7, <2>2
  <2>5. \A m \in 0..0 : m = 0
    OBVIOUS
  <2>6. Spans(flat[0 + 1], start(0 + 1))
    BY <2>1, <2>2, <2>3
  <2>7. \A m \in 0..0 : \A i \in 1..size(m) : flat[0 + 1][start(m) + i] = layer[m][i]
    BY <2>1, <2>4, <2>5
  <2> QED
    BY <2>6, <2>7
<1>9. ASSUME NEW n \in 0..height - 1, part(n) PROVE part(n + 1)
  <2> DEFINE next == n + 1
  <2>1. n \in 0..height /\ next \in 0..height /\ next + 1 \in 0..height + 1
    OBVIOUS
  <2>2. /\ start(next) \in Nat /\ start(next + 1) = start(next) + size(next)
        /\ size(next) \in Nat
        /\ Spans(layer[next], size(next))
    BY <1>2, <1>3, <2>1
  <2>3. flat[next + 1] = flat[next] \o layer[next]
    BY <1>7
  <2>4. /\ Spans(flat[next], start(next))
        /\ \A m \in 0..n : \A i \in 1..size(m) : flat[next][start(m) + i] = layer[m][i]
    BY <1>9
  <2>5. \A m \in 0..next : m = next \/ m \in 0..n
    OBVIOUS
  <2>6. \A m \in 0..n : m \in 0..height
    OBVIOUS
  <2> HIDE DEF next, part
  <2>7. /\ Spans(flat[next + 1], start(next) + size(next))
        /\ \A i \in 1..start(next) : flat[next + 1][i] = flat[next][i]
        /\ \A i \in 1..size(next) : flat[next + 1][start(next) + i] = layer[next][i]
    <3>1. PICK p \in Nat, q \in Nat : p = start(next) /\ q = size(next)
      BY <2>2
    <3>2. Spans(flat[next], p) /\ Spans(layer[next], q)
      BY <2>2, <2>4, <3>1
    <3>3. Joins(flat[next + 1], flat[next], p, layer[next], q)
      BY <2>3, <3>2, Joined
    <3>4. flat[next + 1] = [i \in 1..p + q |-> IF i <= p THEN flat[next][i] ELSE layer[next][i - p]]
      BY <3>3 DEF Joins
    <3>5. Spans(flat[next + 1], p + q)
      BY <3>4 DEF Spans
    <3>6. \A i \in 1..p : flat[next + 1][i] = flat[next][i]
      BY <3>4
    <3>7. ASSUME NEW i \in 1..q PROVE flat[next + 1][p + i] = layer[next][i]
      <4>1. p + i \in 1..p + q /\ ~ (p + i <= p) /\ (p + i) - p = i
        OBVIOUS
      <4> QED
        BY <3>4, <4>1
    <3> QED
      BY <3>1, <3>5, <3>6, <3>7
  <2>8. ASSUME NEW m \in 0..n, NEW i \in 1..size(m)
        PROVE  flat[next + 1][start(m) + i] = layer[m][i]
    <3>1. start(m) + i \in 1..start(next)
      <4> DEFINE T == {k \in 0..n : \A j \in 0..k : start(j) + size(j) <= start(k + 1)}
      <4>1. 0 \in T
        <5>1. \A j \in 0..0 : j = 0
          OBVIOUS
        <5>2. 0 \in 0..height /\ start(0) \in Nat /\ size(0) \in Nat /\ start(0 + 1) = start(0) + size(0)
          BY <1>2, <1>3
        <5> QED
          BY <5>1, <5>2
      <4>2. ASSUME NEW k \in 0..n - 1, k \in T PROVE k + 1 \in T
        <5>1. k + 1 \in 0..height /\ k + 1 \in 0..height + 1 /\ k + 1 \in 0..n
          OBVIOUS
        <5>2. start(k + 1) \in Nat /\ size(k + 1) \in Nat /\ start(k + 1 + 1) = start(k + 1) + size(k + 1)
          BY <1>2, <1>3, <5>1
        <5>3. ASSUME NEW j \in 0..k + 1 PROVE start(j) + size(j) <= start(k + 1 + 1)
          <6>1. CASE j = k + 1
            BY <5>2, <6>1
          <6>2. CASE j # k + 1
            <7>1. j \in 0..k /\ j \in 0..height /\ j \in 0..height + 1
              BY <6>2
            <7>2. start(j) + size(j) <= start(k + 1)
              BY <4>2, <7>1
            <7>3. start(j) \in Nat /\ size(j) \in Nat
              BY <1>2, <1>3, <7>1
            <7> QED
              BY <5>2, <7>2, <7>3
          <6> QED
            BY <6>1, <6>2
        <5> QED
          BY <5>1, <5>3
      <4>3. \A k \in 0..n : k \in T
        <5> HIDE DEF T
        <5>1. n \in Nat
          OBVIOUS
        <5> QED
          BY <4>1, <4>2, <5>1, BoundedInduction
      <4>4. start(m) + size(m) <= start(next)
        BY <4>3 DEF next
      <4>5. m \in 0..height /\ m \in 0..height + 1
        OBVIOUS
      <4>6. start(m) \in Nat /\ size(m) \in Nat
        BY <1>2, <1>3, <4>5
      <4> QED
        BY <2>2, <4>4, <4>6
    <3> QED
      BY <2>4, <2>7, <3>1
  <2>9. part(next)
    BY <2>2, <2>7, <2>8, <2>5 DEF part
  <2> QED
    BY <2>9 DEF next
<1>10. \A n \in 0..height : n \in S
  <2> HIDE DEF part
  <2>1. 0 \in S
    BY <1>8
  <2>2. ASSUME NEW n \in 0..height - 1, n \in S PROVE n + 1 \in S
    <3>1. part(n) /\ n + 1 \in 0..height
      BY <2>2
    <3> QED
      BY <1>9, <3>1
  <2> HIDE DEF S
  <2> QED
    BY <2>1, <2>2, BoundedInduction
<1>11. part(height)
  BY <1>10
<1>12. /\ Spans(digests, start(height + 1))
       /\ \A m \in 0..height : \A i \in 1..size(m) : digests[start(m) + i] = layer[m][i]
  BY <1>6, <1>11
<1>13. TreeRoot(digests) = layer[height][1]
  <2>1. height \in 0..height /\ size(height) = 1
    BY Powers DEF size
  <2>2. start(height) \in Nat /\ start(height + 1) = start(height) + 1 /\ 1 \in 1..size(height)
    BY <1>3, <2>1
  <2>3. Len(digests) = start(height + 1)
    BY <1>12, <2>2 DEF Spans
  <2>4. digests[start(height) + 1] = layer[height][1]
    BY <1>12, <2>1, <2>2
  <2> QED
    BY <2>2, <2>3, <2>4 DEF TreeRoot, Last
<1> QED
  BY <1>3, <1>12, <1>13 DEF IsTree, start, size, digests
-----------------------------------------------------------------------------
(* Paths.                                                                  *)

\* A quotient is what leaves a remainder less than the divisor.
LEMMA QuotientUnique ==
  ASSUME NEW b \in Nat \ {0}, NEW q \in Int, NEW r \in 0..b - 1, NEW a \in Int, a = q * b + r
  PROVE  a \div b = q
<1>1. PICK d \in Int, m \in 0..b - 1 : d = a \div b /\ a = d * b + m
  <2>1. a \div b \in Int /\ a % b \in 0..b - 1 /\ a = (a \div b) * b + (a % b)
    OBVIOUS
  <2> QED
    BY <2>1
<1>2. ASSUME NEW x \in Int, NEW y \in Int, x < y PROVE x * b + b <= y * b
  <2>1. y - x - 1 \in Nat
    BY <1>2
  <2>2. (y - x - 1) * b >= 0
    BY <2>1
  <2>3. (y - x - 1) * b = y * b - x * b - b
    OBVIOUS
  <2>4. x * b \in Int /\ y * b \in Int
    OBVIOUS
  <2> QED
    BY <2>2, <2>3, <2>4
<1>3. d * b \in Int /\ q * b \in Int
  OBVIOUS
<1>4. ~ (d < q)
  BY <1>1, <1>2, <1>3
<1>5. ~ (q < d)
  BY <1>1, <1>2, <1>3
<1> QED
  BY <1>1, <1>4, <1>5

\* Half of a quotient.
LEMMA HalfQuotient ==
  ASSUME NEW a \in Nat, NEW p \in Nat \ {0}
  PROVE  a \div (p + p) = (a \div p) \div 2
<1>1. PICK q \in Int, r \in 0..p - 1 : q = a \div p /\ a = q * p + r
  <2>1. a \div p \in Int /\ a % p \in 0..p - 1 /\ a = (a \div p) * p + (a % p)
    OBVIOUS
  <2> QED
    BY <2>1
<1>2. PICK s \in Int : s = q \div 2 /\ (q = 2 * s \/ q = 2 * s + 1)
  <2>1. q \div 2 \in Int /\ (q = 2 * (q \div 2) \/ q = 2 * (q \div 2) + 1)
    OBVIOUS
  <2> QED
    BY <2>1
<1>3. PICK t \in 0..(p + p) - 1 : a = s * (p + p) + t
  <2>1. CASE q = 2 * s
    <3>1. q * p = s * (p + p)
      BY <2>1
    <3>2. a = s * (p + p) + r /\ r \in 0..(p + p) - 1
      BY <1>1, <3>1
    <3> QED
      BY <3>2
  <2>2. CASE q = 2 * s + 1
    <3>1. q * p = s * (p + p) + p
      BY <2>2
    <3>2. a = s * (p + p) + (p + r) /\ p + r \in 0..(p + p) - 1
      <4>1. s * (p + p) \in Int
        OBVIOUS
      <4> QED
        BY <1>1, <3>1, <4>1
    <3> QED
      BY <3>2
  <2> QED
    BY <1>2, <2>1, <2>2
<1>4. a \div (p + p) = s
  <2>1. p + p \in Nat \ {0} /\ a \in Int
    OBVIOUS
  <2> QED
    BY <1>3, <2>1, QuotientUnique
<1> QED
  BY <1>1, <1>2, <1>4

\* The node of layer n above a leaf.
Ancestor(index, n) == index \div 2 ^ n

LEMMA Ancestors ==
  ASSUME NEW height \in Nat, NEW index \in 0..2 ^ height - 1
  PROVE  /\ Ancestor(index, 0) = index
         /\ \A n \in 0..height : Ancestor(index, n) \in 0..2 ^ (height - n) - 1
         /\ \A n \in 0..height - 1 : Ancestor(index, n + 1) = Ancestor(index, n) \div 2
<1>1. \A n \in Nat : 2 ^ n \in Nat \ {0}
  BY Powers
<1>2. index \in Nat
  BY <1>1
<1>3. Ancestor(index, 0) = index
  BY <1>2, Powers DEF Ancestor
<1>4. ASSUME NEW n \in Nat PROVE Ancestor(index, n + 1) = Ancestor(index, n) \div 2
  <2>1. 2 ^ n \in Nat \ {0} /\ 2 ^ (n + 1) = 2 ^ n + 2 ^ n
    BY <1>1, Doubles
  <2> QED
    BY <1>2, <2>1, HalfQuotient DEF Ancestor
<1> DEFINE S == {n \in 0..height : Ancestor(index, n) \in 0..2 ^ (height - n) - 1}
<1>5. 0 \in S
  <2>1. height - 0 = height
    OBVIOUS
  <2> QED
    BY <1>3, <2>1
<1>6. ASSUME NEW n \in 0..height - 1, n \in S PROVE n + 1 \in S
  <2>1. /\ n \in Nat /\ n + 1 \in 0..height /\ height - (n + 1) \in Nat
        /\ height - n = (height - (n + 1)) + 1
    OBVIOUS
  <2>2. PICK half \in Nat \ {0} : half = 2 ^ (height - (n + 1)) /\ 2 ^ (height - n) = half + half
    BY <1>1, <2>1, Doubles
  <2>3. PICK a \in 0..(half + half) - 1 : a = Ancestor(index, n)
    BY <1>6, <2>2
  <2>4. a \div 2 \in 0..half - 1
    OBVIOUS
  <2>5. Ancestor(index, n + 1) \in 0..2 ^ (height - (n + 1)) - 1
    BY <1>4, <2>1, <2>2, <2>3, <2>4
  <2> QED
    BY <2>1, <2>5
<1>7. \A n \in 0..height : n \in S
  <2> HIDE DEF S
  <2> QED
    BY <1>5, <1>6, BoundedInduction
<1> QED
  BY <1>3, <1>4, <1>7

\* A path has the sibling of every ancestor of its leaf.
LEMMA PathHasSiblings ==
  ASSUME NEW height \in Nat, NEW layer, NEW digests, IsTree(digests, layer, height),
         NEW index \in 0..2 ^ height - 1
  PROVE  GetPath(digests, index) =
           [n \in 1..height |-> layer[n - 1][Sibling(Ancestor(index, n - 1)) + 1]]
<1> DEFINE isStart(start) ==
             start = [n \in 0..height |->
                        IF n = 0 THEN 0 ELSE start[n - 1] + ((Len(digests) - start[n - 1]) + 1) \div 2]
           starts == CHOOSE start : isStart(start)
           real == [n \in 0..height |-> LayerStart(height, n)]
<1>1. Len(digests) = 2 ^ (height + 1) - 1 /\ 2 ^ (height + 1) \in Nat \ {0}
  <2>1. height + 1 \in Nat
    OBVIOUS
  <2>2. PICK n \in Nat \ {0} : n = 2 ^ (height + 1)
    BY <2>1, Powers
  <2>3. digests = [i \in 1..n - 1 |-> digests[i]]
    BY <2>2 DEF IsTree, Spans
  <2>4. Len(digests) = n - 1
    BY <2>3
  <2> QED
    BY <2>2, <2>4
<1>2. Log2(TreeWidth(digests)) = height
  <2>1. 2 ^ (height + 1) = 2 ^ height + 2 ^ height /\ 2 ^ height \in Nat
    BY Doubles, Powers
  <2>2. TreeWidth(digests) = 2 ^ height
    BY <1>1, <2>1 DEF TreeWidth
  <2> QED
    BY <2>2, LogOfPower
<1>3. GetPath(digests, index) = [n \in 1..height |->
        digests[starts[n - 1] + Sibling(index \div 2 ^ (n - 1)) + 1]]
  BY <1>2 DEF GetPath
<1>4. ASSUME NEW n \in 0..height, n # 0
      PROVE  LayerStart(height, n)
               = LayerStart(height, n - 1) + ((Len(digests) - LayerStart(height, n - 1)) + 1) \div 2
  <2>1. n - 1 \in 0..height /\ n - 1 \in 0..height + 1 /\ (n - 1) + 1 = n /\ height - (n - 1) \in Nat
        /\ height + 1 - (n - 1) = (height - (n - 1)) + 1
    BY <1>4
  <2>2. PICK size \in Nat : size = 2 ^ (height - (n - 1)) /\ 2 ^ (height + 1 - (n - 1)) = size + size
    BY <2>1, Powers, Doubles
  <2>3. LayerStart(height, n) = LayerStart(height, n - 1) + size /\ LayerStart(height, n - 1) \in Nat
    BY <2>1, <2>2, LayerStarts
  <2>4. LayerStart(height, n - 1) = 2 ^ (height + 1) - (size + size)
    BY <2>2 DEF LayerStart
  <2>5. (Len(digests) - LayerStart(height, n - 1)) + 1 = size + size
    BY <1>1, <2>4
  <2>6. (size + size) \div 2 = size
    OBVIOUS
  <2> QED
    BY <2>3, <2>5, <2>6
<1>5. isStart(real)
  <2>1. ASSUME NEW n \in 0..height
        PROVE  real[n] = IF n = 0 THEN 0
                         ELSE real[n - 1] + ((Len(digests) - real[n - 1]) + 1) \div 2
    <3>1. CASE n = 0
      BY <3>1, LayerStarts
    <3>2. CASE n # 0
      <4>1. n - 1 \in 0..height
        BY <3>2
      <4> QED
        BY <1>4, <3>2, <4>1
    <3> QED
      BY <3>1, <3>2
  <2> QED
    BY <2>1
<1>6. isStart(starts)
  <2> HIDE DEF isStart
  <2> QED
    BY <1>5
<1>7. \A n \in 0..height : starts[n] = LayerStart(height, n)
  <2> DEFINE S == {n \in 0..height : starts[n] = LayerStart(height, n)}
  <2>1. \A n \in 0..height : starts[n] = IF n = 0 THEN 0 ELSE
                               starts[n - 1] + ((Len(digests) - starts[n - 1]) + 1) \div 2
    BY <1>6
  <2> HIDE DEF starts
  <2>2. 0 \in S
    <3>1. 0 \in 0..height
      OBVIOUS
    <3>2. starts[0] = 0
      BY <2>1, <3>1
    <3> QED
      BY <3>1, <3>2, LayerStarts
  <2>3. ASSUME NEW n \in 0..height - 1, n \in S PROVE n + 1 \in S
    <3>1. n + 1 \in 0..height /\ n + 1 # 0 /\ (n + 1) - 1 = n
      OBVIOUS
    <3> QED
      BY <1>4, <2>1, <2>3, <3>1
  <2>4. \A n \in 0..height : n \in S
    <3> HIDE DEF S
    <3> QED
      BY <2>2, <2>3, BoundedInduction
  <2> QED
    BY <2>4
<1> HIDE DEF starts
<1>8. ASSUME NEW n \in 1..height
      PROVE  digests[starts[n - 1] + Sibling(index \div 2 ^ (n - 1)) + 1]
               = layer[n - 1][Sibling(Ancestor(index, n - 1)) + 1]
  <2>1. /\ n - 1 \in 0..height /\ n - 1 \in 0..height + 1 /\ height - n \in Nat
        /\ height - (n - 1) = (height - n) + 1
    OBVIOUS
  <2>2. PICK half \in Nat \ {0} : 2 ^ (height - (n - 1)) = half + half
    BY <2>1, Powers, Doubles
  <2>3. PICK a \in 0..(half + half) - 1 : a = Ancestor(index, n - 1)
    BY <2>1, <2>2, Ancestors
  <2>4. Sibling(a) \in Int /\ Sibling(a) + 1 \in 1..half + half
    BY DEF Sibling
  <2>5. starts[n - 1] = LayerStart(height, n - 1) /\ LayerStart(height, n - 1) \in Nat
    BY <1>7, <2>1, LayerStarts
  <2>6. digests[LayerStart(height, n - 1) + (Sibling(a) + 1)] = layer[n - 1][Sibling(a) + 1]
    BY <2>1, <2>2, <2>4 DEF IsTree
  <2>7. starts[n - 1] + Sibling(a) + 1 = LayerStart(height, n - 1) + (Sibling(a) + 1)
    BY <2>4, <2>5
  <2> QED
    BY <2>3, <2>6, <2>7 DEF Ancestor
<1> QED
  BY <1>3, <1>8
\* Climbing from a leaf along its path meets its ancestors.
LEMMA PathLeadsToRoot ==
  ASSUME NEW height \in Nat, NEW leaves, NEW layer, IsFullTree(leaves, layer, height),
         NEW digests, IsTree(digests, layer, height), NEW index \in 0..2 ^ height - 1
  PROVE  Climb(leaves[index + 1], index, GetPath(digests, index)) = TreeRoot(digests)
<1> DEFINE path == GetPath(digests, index)
           leaf == leaves[index + 1]
           above(n) == layer[n][Ancestor(index, n) + 1]
           isHash(hash) ==
             hash = [n \in 0..height |->
                       IF n = 0 THEN leaf
                       ELSE IF (index \div 2 ^ (n - 1)) % 2 = 0 THEN NodeDigest(hash[n - 1], path[n])
                            ELSE NodeDigest(path[n], hash[n - 1])]
           hashes == CHOOSE hash : isHash(hash)
           real == [n \in 0..height |-> above(n)]
<1>1. path = [n \in 1..height |-> layer[n - 1][Sibling(Ancestor(index, n - 1)) + 1]]
  BY PathHasSiblings
<1> HIDE DEF path
<1>2. Len(path) = height
  BY <1>1
<1>3. Climb(leaf, index, path) = hashes[height]
  BY <1>2 DEF Climb
<1>4. above(0) = leaf
  <2>1. layer[0] = leaves
    BY LayersHalve
  <2>2. Ancestor(index, 0) = index
    BY Ancestors
  <2> QED
    BY <2>1, <2>2
<1>5. ASSUME NEW n \in 0..height - 1
      PROVE  above(n + 1) = IF (index \div 2 ^ n) % 2 = 0 THEN NodeDigest(above(n), path[n + 1])
                            ELSE NodeDigest(path[n + 1], above(n))
  <2>1. /\ n \in Nat /\ n \in 0..height /\ n + 1 \in 0..height /\ n + 1 \in 1..height
        /\ (n + 1) - 1 = n /\ height - n - 1 \in Nat /\ height - (n + 1) = height - n - 1
        /\ height - n = (height - n - 1) + 1
    OBVIOUS
  <2>2. PICK half \in Nat \ {0} : half = 2 ^ (height - n - 1) /\ 2 ^ (height - n) = half + half
    BY <2>1, Powers, Doubles
  <2>3. PICK a \in 0..(half + half) - 1 : a = Ancestor(index, n)
    BY <2>1, <2>2, Ancestors
  <2>4. Ancestor(index, n + 1) = a \div 2
    BY <2>3, Ancestors
  <2>5. a \div 2 + 1 \in 1..half
    OBVIOUS
  <2>6. above(n + 1) = NodeDigest(layer[n][2 * (a \div 2 + 1) - 1], layer[n][2 * (a \div 2 + 1)])
    <3>1. \A i \in 1..half : layer[n + 1][i] = NodeDigest(layer[n][2 * i - 1], layer[n][2 * i])
      BY <2>2, LayersHalve
    <3> QED
      BY <2>4, <2>5, <3>1
  <2>7. path[n + 1] = layer[n][Sibling(a) + 1]
    BY <1>1, <2>1, <2>3
  <2>8. above(n) = layer[n][a + 1]
    BY <2>3
  <2>9. (index \div 2 ^ n) % 2 = a % 2
    BY <2>3 DEF Ancestor
  <2>10. CASE a % 2 = 0
    <3>1. 2 * (a \div 2 + 1) - 1 = a + 1 /\ 2 * (a \div 2 + 1) = Sibling(a) + 1
      BY <2>10 DEF Sibling
    <3> HIDE DEF above
    <3> QED
      BY <2>6, <2>7, <2>8, <2>9, <2>10, <3>1
  <2>11. CASE a % 2 # 0
    <3>1. 2 * (a \div 2 + 1) - 1 = Sibling(a) + 1 /\ 2 * (a \div 2 + 1) = a + 1
      BY <2>11 DEF Sibling
    <3> HIDE DEF above
    <3> QED
      BY <2>6, <2>7, <2>8, <2>9, <2>11, <3>1
  <2> QED
    BY <2>10, <2>11
<1> HIDE DEF above, leaf
<1>6. isHash(real)
  <2>1. ASSUME NEW n \in 0..height
        PROVE  real[n] = IF n = 0 THEN leaf
                         ELSE IF (index \div 2 ^ (n - 1)) % 2 = 0 THEN NodeDigest(real[n - 1], path[n])
                              ELSE NodeDigest(path[n], real[n - 1])
    <3>1. CASE n = 0
      BY <1>4, <3>1
    <3>2. CASE n # 0
      <4>1. n - 1 \in 0..height - 1 /\ n - 1 \in 0..height /\ (n - 1) + 1 = n
        BY <3>2
      <4> QED
        BY <1>5, <3>2, <4>1
    <3> QED
      BY <3>1, <3>2
  <2> QED
    BY <2>1
<1>7. isHash(hashes)
  <2> HIDE DEF isHash
  <2> QED
    BY <1>6
<1>8. \A n \in 0..height : hashes[n] = above(n)
  <2> DEFINE S == {n \in 0..height : hashes[n] = above(n)}
  <2>1. \A n \in 0..height :
          hashes[n] = IF n = 0 THEN leaf
                      ELSE IF (index \div 2 ^ (n - 1)) % 2 = 0 THEN NodeDigest(hashes[n - 1], path[n])
                           ELSE NodeDigest(path[n], hashes[n - 1])
    BY <1>7
  <2> HIDE DEF hashes
  <2>2. 0 \in S
    <3>1. 0 \in 0..height
      OBVIOUS
    <3>2. hashes[0] = leaf
      BY <2>1, <3>1
    <3> QED
      BY <1>4, <3>1, <3>2
  <2>3. ASSUME NEW n \in 0..height - 1, n \in S PROVE n + 1 \in S
    <3>1. n + 1 \in 0..height /\ n + 1 # 0 /\ (n + 1) - 1 = n
      OBVIOUS
    <3> QED
      BY <1>5, <2>1, <2>3, <3>1
  <2>4. \A n \in 0..height : n \in S
    <3> HIDE DEF S
    <3> QED
      BY <2>2, <2>3, BoundedInduction
  <2> QED
    BY <2>4
<1>9. above(height) = TreeRoot(digests)
  <2>1. height \in 0..height /\ height - height = 0
    OBVIOUS
  <2>2. Ancestor(index, height) \in 0..2 ^ (height - height) - 1
    BY <2>1, Ancestors
  <2>3. Ancestor(index, height) = 0
    BY <2>1, <2>2, Powers
  <2> QED
    BY <2>3 DEF above, IsTree
<1>10. hashes[height] = above(height)
  <2>1. height \in 0..height
    OBVIOUS
  <2> QED
    BY <1>8, <2>1
<1> QED
  BY <1>3, <1>9, <1>10 DEF path, leaf

\* The root says what the leaves are: two trees of as many leaves that have the
\* same root have the same leaves.
LEMMA RootBinds ==
  ASSUME NEW height \in Nat,
         NEW leaves, NEW layer, IsFullTree(leaves, layer, height),
         NEW others, NEW otherLayer, IsFullTree(others, otherLayer, height),
         layer[height][1] = otherLayer[height][1]
  PROVE  leaves = others
<1> DEFINE same(n) == \A i \in 1..2 ^ (height - n) : layer[n][i] = otherLayer[n][i]
           S == {d \in 0..height : same(height - d)}
<1>1. 0 \in S
  <2>1. height - 0 = height /\ height - height = 0
    OBVIOUS
  <2>2. \A i \in 1..2 ^ 0 : i = 1
    BY Powers
  <2> QED
    BY <2>1, <2>2
<1>2. ASSUME NEW d \in 0..height - 1, d \in S PROVE d + 1 \in S
  <2>1. PICK n \in 0..height - 1 : /\ n = height - (d + 1) /\ height - d = n + 1
                                   /\ height - (n + 1) = height - n - 1
                                   /\ height - n - 1 \in Nat
                                   /\ height - n = (height - n - 1) + 1
    <3>1. height - (d + 1) \in 0..height - 1
      OBVIOUS
    <3> QED
      BY <3>1
  <2>2. PICK half \in Nat \ {0} : half = 2 ^ (height - n - 1) /\ 2 ^ (height - n) = half + half
    BY <2>1, Powers, Doubles
  <2>3. \A i \in 1..half : layer[n + 1][i] = otherLayer[n + 1][i]
    BY <1>2, <2>1, <2>2
  <2>4. /\ \A i \in 1..half : layer[n + 1][i] = NodeDigest(layer[n][2 * i - 1], layer[n][2 * i])
        /\ \A i \in 1..half :
             otherLayer[n + 1][i] = NodeDigest(otherLayer[n][2 * i - 1], otherLayer[n][2 * i])
    BY <2>2, LayersHalve
  <2>5. ASSUME NEW i \in 1..half
        PROVE  layer[n][2 * i - 1] = otherLayer[n][2 * i - 1] /\ layer[n][2 * i] = otherLayer[n][2 * i]
    <3>1. NodeDigest(layer[n][2 * i - 1], layer[n][2 * i])
            = NodeDigest(otherLayer[n][2 * i - 1], otherLayer[n][2 * i])
      BY <2>3, <2>4
    <3> QED
      BY <3>1 DEF NodeDigest
  <2>6. ASSUME NEW j \in 1..half + half PROVE layer[n][j] = otherLayer[n][j]
    <3>1. PICK i \in 1..half : j = 2 * i - 1 \/ j = 2 * i
      <4>1. (j + 1) \div 2 \in 1..half /\ (j = 2 * ((j + 1) \div 2) - 1 \/ j = 2 * ((j + 1) \div 2))
        OBVIOUS
      <4> QED
        BY <4>1
    <3> QED
      BY <2>5, <3>1
  <2>7. same(n)
    BY <2>2, <2>6
  <2> QED
    BY <2>1, <2>7
<1>3. \A d \in 0..height : d \in S
  <2> HIDE DEF S
  <2> QED
    BY <1>1, <1>2, BoundedInduction
<1>4. same(0)
  <2>1. height \in 0..height /\ height - height = 0
    OBVIOUS
  <2> QED
    BY <1>3, <2>1
<1>5. \A i \in 1..2 ^ height : leaves[i] = others[i]
  <2>1. layer[0] = leaves /\ otherLayer[0] = others /\ height - 0 = height
    BY LayersHalve
  <2> QED
    BY <1>4, <2>1
<1>6. leaves = [i \in 1..2 ^ height |-> leaves[i]] /\ others = [i \in 1..2 ^ height |-> others[i]]
  BY DEF IsFullTree, Spans
<1> QED
  BY <1>5, <1>6
\* What Climb computes on the way.
AreHashes(hash, leaf, index, path, top) ==
  hash = [n \in 0..top |->
            IF n = 0 THEN leaf
            ELSE IF (index \div 2 ^ (n - 1)) % 2 = 0 THEN NodeDigest(hash[n - 1], path[n])
                 ELSE NodeDigest(path[n], hash[n - 1])]

LEMMA HashesExist ==
  ASSUME NEW leaf, NEW index, NEW path, Len(path) \in Nat
  PROVE  \E hash : /\ AreHashes(hash, leaf, index, path, Len(path))
                   /\ Climb(leaf, index, path) = hash[Len(path)]
<1> DEFINE node(n, below) == IF (index \div 2 ^ (n - 1)) % 2 = 0 THEN NodeDigest(below, path[n])
                             ELSE NodeDigest(path[n], below)
           S == {top \in Nat : \E hash : AreHashes(hash, leaf, index, path, top)}
<1>1. 0 \in S
  <2>1. AreHashes([n \in 0..0 |-> leaf], leaf, index, path, 0)
    BY DEF AreHashes
  <2> QED
    BY <2>1
<1>2. ASSUME NEW top \in Nat, top \in S PROVE top + 1 \in S
  <2>1. PICK hash : AreHashes(hash, leaf, index, path, top)
    BY <1>2
  <2> DEFINE longer == [n \in 0..top + 1 |-> IF n = 0 THEN leaf ELSE node(n, hash[n - 1])]
  <2>2. \A n \in 0..top : hash[n] = IF n = 0 THEN leaf ELSE node(n, hash[n - 1])
    BY <2>1 DEF AreHashes
  <2>3. \A n \in 0..top + 1 : n # 0 => n - 1 \in 0..top
    OBVIOUS
  <2>4. longer = [n \in 0..top + 1 |-> IF n = 0 THEN leaf ELSE node(n, longer[n - 1])]
    <3> HIDE DEF node
    <3>1. \A n \in 0..top : longer[n] = hash[n]
      BY <2>2
    <3> QED
      BY <2>3, <3>1
  <2>5. AreHashes(longer, leaf, index, path, top + 1)
    <3> HIDE DEF longer
    <3> QED
      BY <2>4 DEF AreHashes
  <2> QED
    BY <2>5
<1>3. \A top \in Nat : top \in S
  <2> HIDE DEF S
  <2> QED
    BY <1>1, <1>2, Induction
<1> DEFINE hashes == CHOOSE hash : AreHashes(hash, leaf, index, path, Len(path))
<1>4. AreHashes(hashes, leaf, index, path, Len(path))
  BY <1>3
<1>5. Climb(leaf, index, path) = hashes[Len(path)]
  BY DEF Climb, AreHashes
<1> QED
  BY <1>4, <1>5

\* Nothing but the leaf at an index climbs from there to the root, with a path of
\* whatever length: a leaf is no node.
LEMMA OnlyLeavesClimb ==
  ASSUME NEW height \in Nat, NEW leaves, NEW layer, IsFullTree(leaves, layer, height),
         \A i \in 1..2 ^ height : \E column : leaves[i] = LeafDigest(column),
         NEW index \in 0..2 ^ height - 1, NEW column, NEW path, Len(path) \in Nat,
         Climb(LeafDigest(column), index, path) = layer[height][1]
  PROVE  leaves[index + 1] = LeafDigest(column)
<1> DEFINE top == Len(path)
<1>1. PICK hash : /\ AreHashes(hash, LeafDigest(column), index, path, top)
                  /\ Climb(LeafDigest(column), index, path) = hash[top]
  BY HashesExist
<1> HIDE DEF top
<1>2. top \in Nat
  BY DEF top
<1>3. /\ hash[0] = LeafDigest(column)
      /\ \A n \in 0..top - 1 :
           hash[n + 1] = IF (index \div 2 ^ n) % 2 = 0 THEN NodeDigest(hash[n], path[n + 1])
                         ELSE NodeDigest(path[n + 1], hash[n])
  <2>1. \A n \in 0..top : hash[n] = IF n = 0 THEN LeafDigest(column)
                                  ELSE IF (index \div 2 ^ (n - 1)) % 2 = 0
                                       THEN NodeDigest(hash[n - 1], path[n])
                                       ELSE NodeDigest(path[n], hash[n - 1])
    BY <1>1 DEF AreHashes
  <2>2. 0 \in 0..top /\ \A n \in 0..top - 1 : n + 1 \in 0..top /\ n + 1 # 0 /\ (n + 1) - 1 = n
    BY <1>2
  <2> QED
    BY <2>1, <2>2
<1>4. /\ layer[0] = leaves
      /\ \A n \in 0..height - 1 : \A i \in 1..2 ^ (height - n - 1) :
           layer[n + 1][i] = NodeDigest(layer[n][2 * i - 1], layer[n][2 * i])
  BY LayersHalve
<1>5. \A c, l, r : LeafDigest(c) # NodeDigest(l, r)
  <2>1. \A c : DOMAIN LeafDigest(c) = {"leaf"}
    BY DEF LeafDigest
  <2>2. \A l, r : DOMAIN NodeDigest(l, r) = {"left", "right"}
    BY DEF NodeDigest
  <2> QED
    BY <2>1, <2>2
\* d steps below the root are nodes of the tree.
<1>6. \A d \in Nat : d <= top /\ d <= height =>
        \E i \in 1..2 ^ d : hash[top - d] = layer[height - d][i]
  <2> DEFINE S == {d \in Nat : d <= top /\ d <= height =>
                     \E i \in 1..2 ^ d : hash[top - d] = layer[height - d][i]}
  <2>1. 0 \in S
    <3>1. hash[top - 0] = layer[height - 0][1] /\ 1 \in 1..2 ^ 0
      <4>1. top - 0 = top /\ height - 0 = height
        BY <1>2
      <4>2. hash[top] = layer[height][1]
        BY <1>1
      <4>3. 1 \in 1..2 ^ 0
        BY Powers
      <4> QED
        BY <4>1, <4>2, <4>3
    <3> QED
      BY <3>1
  <2>2. ASSUME NEW d \in Nat, d \in S PROVE d + 1 \in S
    <3>1. SUFFICES ASSUME d + 1 <= top, d + 1 <= height
                   PROVE  \E i \in 1..2 ^ (d + 1) : hash[top - (d + 1)] = layer[height - (d + 1)][i]
      OBVIOUS
    <3>2. PICK n \in 0..height - 1, k \in 0..top - 1 :
            /\ n = height - (d + 1) /\ height - d = n + 1 /\ height - n - 1 = d
            /\ k = top - (d + 1) /\ top - d = k + 1
      <4>1. height - (d + 1) \in 0..height - 1 /\ top - (d + 1) \in 0..top - 1
        BY <1>2, <3>1
      <4> QED
        BY <1>2, <4>1
    <3>3. PICK half \in Nat : half = 2 ^ d /\ 2 ^ (d + 1) = half + half
      BY Powers, Doubles
    <3>4. PICK i \in 1..half : hash[k + 1] = layer[n + 1][i]
      <4>1. d <= top /\ d <= height
        BY <1>2, <3>1
      <4> QED
        BY <2>2, <3>2, <3>3, <4>1
    <3>5. layer[n + 1][i] = NodeDigest(layer[n][2 * i - 1], layer[n][2 * i])
      BY <1>4, <3>2, <3>3
    <3>6. hash[k] = layer[n][2 * i - 1] \/ hash[k] = layer[n][2 * i]
      <4>1. \/ hash[k + 1] = NodeDigest(hash[k], path[k + 1])
            \/ hash[k + 1] = NodeDigest(path[k + 1], hash[k])
        BY <1>3
      <4>2. hash[k + 1] = NodeDigest(layer[n][2 * i - 1], layer[n][2 * i])
        BY <3>4, <3>5
      <4> QED
        BY <4>1, <4>2 DEF NodeDigest
    <3>7. 2 * i - 1 \in 1..half + half /\ 2 * i \in 1..half + half
      OBVIOUS
    <3> QED
      BY <3>2, <3>3, <3>6, <3>7
  <2>3. \A d \in Nat : d \in S
    <3> HIDE DEF S
    <3> QED
      BY <2>1, <2>2, Induction
  <2> QED
    BY <2>3
\* The leaf of the path is in the layer of the leaves, and the other way round.
<1>7. top = height
  <2>1. ~ (top < height)
    <3>1. SUFFICES ASSUME top < height PROVE FALSE
      OBVIOUS
    <3>2. PICK i \in 1..2 ^ top : hash[0] = layer[height - top][i]
      <4>1. top <= top /\ top <= height /\ top - top = 0
        BY <1>2, <3>1
      <4> QED
        BY <1>2, <1>6, <4>1
    <3>3. PICK n \in 0..height - 1 : height - top = n + 1 /\ height - n - 1 = top
      <4>1. height - top - 1 \in 0..height - 1
        BY <1>2, <3>1
      <4> QED
        BY <1>2, <4>1
    <3>4. layer[n + 1][i] = NodeDigest(layer[n][2 * i - 1], layer[n][2 * i])
      BY <1>4, <3>3
    <3>5. LeafDigest(column) = NodeDigest(layer[n][2 * i - 1], layer[n][2 * i])
      BY <1>3, <3>2, <3>3, <3>4
    <3> QED
      BY <1>5, <3>5
  <2>2. ~ (height < top)
    <3>1. SUFFICES ASSUME height < top PROVE FALSE
      OBVIOUS
    <3>2. PICK i \in 1..2 ^ height : hash[top - height] = layer[0][i]
      <4>1. height <= top /\ height <= height /\ height - height = 0
        BY <1>2, <3>1
      <4> QED
        BY <1>6, <4>1
    <3>3. PICK k \in 0..top - 1 : top - height = k + 1
      <4>1. top - height - 1 \in 0..top - 1
        BY <1>2, <3>1
      <4> QED
        BY <1>2, <4>1
    <3>4. hash[k + 1] = NodeDigest(hash[k], path[k + 1]) \/ hash[k + 1] = NodeDigest(path[k + 1], hash[k])
      BY <1>3
    <3>5. \E c : hash[k + 1] = LeafDigest(c)
      BY <1>4, <3>2, <3>3
    <3> QED
      BY <1>5, <3>4, <3>5
  <2> QED
    BY <1>2, <2>1, <2>2
<1>8. \A d \in 0..height : hash[height - d] = layer[height - d][Ancestor(index, height - d) + 1]
  <2> DEFINE S == {d \in 0..height : hash[height - d] = layer[height - d][Ancestor(index, height - d) + 1]}
  <2>1. 0 \in S
    <3>1. height - 0 = height /\ height \in 0..height /\ height - height = 0
      OBVIOUS
    <3>2. Ancestor(index, height) \in 0..2 ^ (height - height) - 1
      BY <3>1, Ancestors
    <3>3. Ancestor(index, height) = 0
      BY <3>1, <3>2, Powers
    <3>4. hash[height] = layer[height][1]
      BY <1>1, <1>7
    <3> QED
      BY <3>1, <3>3, <3>4
  <2>2. ASSUME NEW d \in 0..height - 1, d \in S PROVE d + 1 \in S
    <3>1. PICK n \in 0..height - 1 :
            /\ n = height - (d + 1) /\ height - d = n + 1 /\ height - n - 1 = d
            /\ height - n = d + 1 /\ n \in 0..height /\ n + 1 \in 0..height /\ n \in Nat
      <4>1. height - (d + 1) \in 0..height - 1
        OBVIOUS
      <4> QED
        BY <4>1
    <3>2. PICK half \in Nat : half = 2 ^ d /\ 2 ^ (d + 1) = half + half
      BY Powers, Doubles
    <3>3. PICK a \in 0..(half + half) - 1 : a = Ancestor(index, n)
      <4>1. Ancestor(index, n) \in 0..2 ^ (height - n) - 1
        BY <3>1, Ancestors
      <4>2. 2 ^ (height - n) = half + half
        BY <3>1, <3>2
      <4> QED
        BY <4>1, <4>2
    <3>4. Ancestor(index, n + 1) = a \div 2
      BY <3>3, Ancestors
    <3>5. a \div 2 + 1 \in 1..half
      OBVIOUS
    <3>6. hash[n + 1] = NodeDigest(layer[n][2 * (a \div 2 + 1) - 1], layer[n][2 * (a \div 2 + 1)])
      <4>1. \A i \in 1..half : layer[n + 1][i] = NodeDigest(layer[n][2 * i - 1], layer[n][2 * i])
        BY <1>4, <3>1, <3>2
      <4>2. hash[n + 1] = layer[n + 1][a \div 2 + 1]
        BY <2>2, <3>1, <3>4
      <4> QED
        BY <3>5, <4>1, <4>2
    <3>7. hash[n + 1] = IF a % 2 = 0 THEN NodeDigest(hash[n], path[n + 1])
                        ELSE NodeDigest(path[n + 1], hash[n])
      BY <1>3, <1>7, <3>3 DEF Ancestor
    <3>8. CASE a % 2 = 0
      <4>1. 2 * (a \div 2 + 1) - 1 = a + 1
        BY <3>8
      <4>2. hash[n] = layer[n][a + 1]
        BY <3>6, <3>7, <3>8, <4>1 DEF NodeDigest
      <4> QED
        BY <3>1, <3>3, <4>2
    <3>9. CASE a % 2 # 0
      <4>1. 2 * (a \div 2 + 1) = a + 1
        BY <3>9
      <4>2. hash[n] = layer[n][a + 1]
        BY <3>6, <3>7, <3>9, <4>1 DEF NodeDigest
      <4> QED
        BY <3>1, <3>3, <4>2
    <3> QED
      BY <3>8, <3>9
  <2>3. \A d \in 0..height : d \in S
    <3> HIDE DEF S
    <3> QED
      BY <2>1, <2>2, BoundedInduction
  <2> QED
    BY <2>3
<1>9. hash[0] = layer[0][Ancestor(index, 0) + 1]
  <2>1. height \in 0..height /\ height - height = 0
    OBVIOUS
  <2> QED
    BY <1>8, <2>1
<1> QED
  BY <1>3, <1>4, <1>9, Ancestors

-----------------------------------------------------------------------------
(* The theorems.  The leaves are the columns of an encoded matrix, whose   *)
(* number is a power of two.                                               *)

\* Columns that are hashed to leaves.
AreLeaves(leaves, height) ==
  /\ Spans(leaves, 2 ^ height)
  /\ \A i \in 1..2 ^ height : \E column : leaves[i] = LeafDigest(column)

LEMMA TreeOfLeaves ==
  ASSUME NEW height \in Nat, NEW leaves, Spans(leaves, 2 ^ height)
  PROVE  LET layer == LayersOf(leaves, height)
         IN  IsFullTree(leaves, layer, height) /\ IsTree(Digests(leaves), layer, height)
BY LayersExist, DigestsAreTree DEF IsFullTree

(* The path that is opened for any column of a tree of any size leads the  *)
(* column's digest to the root (open_column and verify_column_path of      *)
(* lcpc-2d, get_path and get_root of merkle_tree.rs).                      *)
THEOREM PathsVerify ==
  ASSUME NEW height \in Nat, NEW leaves, AreLeaves(leaves, height),
         NEW index \in 0..2 ^ height - 1
  PROVE  Climb(leaves[index + 1], index, GetPath(Digests(leaves), index)) = TreeRoot(Digests(leaves))
<1> DEFINE layer == LayersOf(leaves, height)
<1>1. IsFullTree(leaves, layer, height) /\ IsTree(Digests(leaves), layer, height)
  BY TreeOfLeaves DEF AreLeaves
<1> QED
  BY <1>1, PathLeadsToRoot

(* A root commits to every leaf: trees of as many leaves with the same     *)
(* root have the same leaves.                                              *)
THEOREM RootCommits ==
  ASSUME NEW height \in Nat, NEW leaves, AreLeaves(leaves, height),
         NEW others, AreLeaves(others, height),
         TreeRoot(Digests(leaves)) = TreeRoot(Digests(others))
  PROVE  leaves = others
<1> DEFINE layer == LayersOf(leaves, height)
           other == LayersOf(others, height)
<1>1. IsFullTree(leaves, layer, height) /\ IsTree(Digests(leaves), layer, height)
  BY TreeOfLeaves DEF AreLeaves
<1>2. IsFullTree(others, other, height) /\ IsTree(Digests(others), other, height)
  BY TreeOfLeaves DEF AreLeaves
<1>3. layer[height][1] = other[height][1]
  BY <1>1, <1>2 DEF IsTree
<1> QED
  BY <1>1, <1>2, <1>3, RootBinds

(* Whatever column and path are sent for an index, if the climb ends at    *)
(* the root then the column is the one that the root commits to there: no  *)
(* path, long or short, opens another (verify_column_path, which does not  *)
(* look at the length of the path).                                        *)
THEOREM OnlyCommittedOpens ==
  ASSUME NEW height \in Nat, NEW leaves, AreLeaves(leaves, height),
         NEW index \in 0..2 ^ height - 1, NEW column, NEW path, Len(path) \in Nat,
         Climb(LeafDigest(column), index, path) = TreeRoot(Digests(leaves))
  PROVE  leaves[index + 1] = LeafDigest(column)
<1> DEFINE layer == LayersOf(leaves, height)
<1>1. IsFullTree(leaves, layer, height) /\ IsTree(Digests(leaves), layer, height)
  BY TreeOfLeaves DEF AreLeaves
<1>2. Climb(LeafDigest(column), index, path) = layer[height][1]
  BY <1>1 DEF IsTree
<1> QED
  BY <1>1, <1>2, OnlyLeavesClimb DEF AreLeaves
=============================================================================
