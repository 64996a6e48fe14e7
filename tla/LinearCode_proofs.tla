-------------------------- MODULE LinearCode_proofs --------------------------
(***************************************************************************)
(* The arithmetic of the field and of the code that rows are encoded with, *)
(* for every field with a generator of its multiplicative group and every  *)
(* length that it has roots of unity for: decoding undoes encoding, rows   *)
(* may be combined before or after they are encoded, a decoded combination *)
(* has the value of the file's polynomial, files of one length differ in   *)
(* their elements, and what is appended or overwritten adds to the value   *)
(* what the elements it is in add.                                         *)
(***************************************************************************)
EXTENDS LinearCode, EncodedLayout_proofs, MerkleTree_proofs

-----------------------------------------------------------------------------
(* Numbers modulo MODULUS.                                                 *)

\* Two numbers that are the same element.
Same(a, b) == a % MODULUS = b % MODULUS

LEMMA ModulusIsPositive == MODULUS \in Nat \ {0} /\ MODULUS > 1
<1>1. MODULUS \in Nat /\ MODULUS > 1
  BY FieldAssumption, Zenon
<1> QED
  BY <1>1

LEMMA Reduced ==
  /\ \A a \in Int : a % MODULUS \in Field /\ Same(a % MODULUS, a)
  /\ \A a \in Field : a \in Nat /\ a % MODULUS = a
<1>1. MODULUS \in Nat \ {0}
  BY ModulusIsPositive
<1>2. ASSUME NEW a \in Field PROVE a \in Nat /\ a % MODULUS = a
  <2>1. a \in 0..MODULUS - 1 /\ 0 \in Int /\ 0 * MODULUS + a = a
    BY <1>1 DEF Field
  <2>2. (0 * MODULUS + a) % MODULUS = a
    BY <1>1, <2>1, DivisionUnique
  <2> QED
    BY <2>1, <2>2
<1>3. ASSUME NEW a \in Int PROVE a % MODULUS \in Field
  BY <1>1, Division DEF Field
<1> QED
  BY <1>2, <1>3 DEF Same

\* Numbers are the same element if they differ by a multiple.
LEMMA SameIfMultiple ==
  ASSUME NEW a \in Int, NEW b \in Int, NEW k \in Int, a = b + k * MODULUS
  PROVE  Same(a, b)
<1>1. MODULUS \in Nat \ {0}
  BY ModulusIsPositive
<1>2. PICK q \in Int, r \in 0..MODULUS - 1 : b = q * MODULUS + r
  BY <1>1, Division
<1>3. a = (q + k) * MODULUS + r
  <2>1. (q + k) * MODULUS = q * MODULUS + k * MODULUS
    BY <1>1
  <2>2. q * MODULUS \in Int /\ k * MODULUS \in Int
    BY <1>1
  <2> QED
    BY <1>2, <2>1, <2>2
<1>4. q + k \in Int
  OBVIOUS
<1> HIDE DEF Same
<1>5. a % MODULUS = r /\ b % MODULUS = r
  BY <1>1, <1>2, <1>3, <1>4, DivisionUnique
<1> QED
  BY <1>5 DEF Same

LEMMA MultipleIfSame ==
  ASSUME NEW a \in Int, NEW b \in Int, Same(a, b)
  PROVE  \E k \in Int : a = b + k * MODULUS
<1>1. MODULUS \in Nat \ {0}
  BY ModulusIsPositive
<1>4. PICK r \in Int : r = a % MODULUS /\ r = b % MODULUS
  <2>1. a % MODULUS \in 0..MODULUS - 1
    BY <1>1, Division
  <2> QED
    BY <1>1, <2>1 DEF Same
<1>2. PICK q \in Int : a = q * MODULUS + r
  <2>1. a \div MODULUS \in Int /\ a = (a \div MODULUS) * MODULUS + (a % MODULUS)
    BY <1>1, Division
  <2>2. a % MODULUS = r
    BY <1>4
  <2> QED
    BY <2>1, <2>2
<1>3. PICK p \in Int : b = p * MODULUS + r
  <2>1. b \div MODULUS \in Int /\ b = (b \div MODULUS) * MODULUS + (b % MODULUS)
    BY <1>1, Division
  <2>2. b % MODULUS = r
    BY <1>4
  <2> QED
    BY <2>1, <2>2
<1>5. (q - p) * MODULUS = q * MODULUS - p * MODULUS
  BY <1>1
<1>6. q * MODULUS \in Int /\ p * MODULUS \in Int /\ q - p \in Int
  BY <1>1
<1>7. a = b + (q - p) * MODULUS
  BY <1>2, <1>3, <1>4, <1>5, <1>6
<1> QED
  BY <1>6, <1>7

\* Sums, differences and products of the same elements are the same.
LEMMA SameOperations ==
  ASSUME NEW a \in Int, NEW b \in Int, NEW c \in Int, NEW d \in Int, Same(a, b), Same(c, d)
  PROVE  Same(a + c, b + d) /\ Same(a - c, b - d) /\ Same(a * c, b * d)
<1>1. MODULUS \in Nat \ {0}
  BY ModulusIsPositive
<1>2. PICK k \in Int : a = b + k * MODULUS
  BY MultipleIfSame
<1>3. PICK l \in Int : c = d + l * MODULUS
  BY MultipleIfSame
<1>4. Same(a + c, b + d)
  <2>1. a + c = (b + d) + (k + l) * MODULUS
    BY <1>1, <1>2, <1>3
  <2> QED
    BY <2>1, SameIfMultiple
<1>5. Same(a - c, b - d)
  <2>1. a - c = (b - d) + (k - l) * MODULUS
    BY <1>1, <1>2, <1>3
  <2> QED
    BY <2>1, SameIfMultiple
<1>6. Same(a * c, b * d)
  <2>1. (b + k * MODULUS) * (d + l * MODULUS)
          = b * d + (b * l + k * d + k * l * MODULUS) * MODULUS
    BY <1>1
  <2>2. b * l + k * d + k * l * MODULUS \in Int /\ a * c \in Int /\ b * d \in Int
    BY <1>1
  <2>3. a * c = b * d + (b * l + k * d + k * l * MODULUS) * MODULUS
    BY <1>2, <1>3, <2>1
  <2> QED
    BY <2>2, <2>3, SameIfMultiple
<1> QED
  BY <1>4, <1>5, <1>6

\* The rules in the form they are used.
LEMMA SameRules ==
  /\ \A a, b \in Int : Same(a, b) => Same(b, a)
  /\ \A a, b, c \in Int : Same(a, b) /\ Same(b, c) => Same(a, c)
  /\ \A a, b, c, d \in Int : Same(a, b) /\ Same(c, d) =>
       Same(a + c, b + d) /\ Same(a - c, b - d) /\ Same(a * c, b * d)
  /\ \A a \in Int : Same(a, a)
  /\ \A a, b \in Field : Same(a, b) => a = b
<1>1. \A a, b, c, d \in Int : Same(a, b) /\ Same(c, d) =>
        Same(a + c, b + d) /\ Same(a - c, b - d) /\ Same(a * c, b * d)
  BY SameOperations
<1>2. \A a, b \in Field : Same(a, b) => a = b
  BY Reduced DEF Same
<1> QED
  BY <1>1, <1>2 DEF Same

-----------------------------------------------------------------------------
(* Functions by recursion over the numbers.                                *)

\* f starts with first, and goes on with step for n numbers.
Follows(f, first, step, n) ==
  /\ f[0] = first
  /\ \A k \in 0..n - 1 : f[k + 1] = step[<<k, f[k]>>]

\* f starts with first, and goes on with step.
Runs(f, first, step) == f[0] = first /\ \A k \in Nat : f[k + 1] = step[<<k, f[k]>>]

\* A start and a step define a function.
LEMMA Recursion ==
  ASSUME NEW V, NEW first \in V, NEW step \in [Nat \X V -> V]
  PROVE  \E f \in [Nat -> V] : Runs(f, first, step)
<1> DEFINE S == {n \in Nat : \E f \in [0..n -> V] : Follows(f, first, step, n)}
<1>1. 0 \in S
  <2> DEFINE f == [k \in 0..0 |-> first]
  <2>1. f \in [0..0 -> V] /\ Follows(f, first, step, 0)
    BY DEF Follows
  <2> QED
    BY <2>1
<1>2. ASSUME NEW n \in Nat, n \in S PROVE n + 1 \in S
  <2>1. PICK f \in [0..n -> V] : Follows(f, first, step, n)
    BY <1>2
  <2> DEFINE g == [k \in 0..n + 1 |-> IF k = n + 1 THEN step[<<n, f[n]>>] ELSE f[k]]
  <2>2. n \in 0..n /\ \A k \in 0..n : k \in 0..n + 1 /\ k # n + 1
    OBVIOUS
  <2>3. f[n] \in V /\ step[<<n, f[n]>>] \in V
    BY <2>1, <2>2
  <2>4. g \in [0..n + 1 -> V]
    <3>1. \A k \in 0..n + 1 : k # n + 1 => k \in 0..n
      OBVIOUS
    <3>2. \A k \in 0..n + 1 : g[k] \in V
      BY <2>1, <2>3, <3>1
    <3> QED
      BY <3>2
  <2>5. Follows(g, first, step, n + 1)
    <3>1. g[0] = first
      BY <2>1, <2>2 DEF Follows
    <3>2. ASSUME NEW k \in 0..(n + 1) - 1 PROVE g[k + 1] = step[<<k, g[k]>>]
      <4>1. k \in 0..n /\ g[k] = f[k]
        BY <2>2
      <4>2. CASE k = n
        <5>1. n + 1 \in 0..n + 1
          OBVIOUS
        <5> QED
          BY <4>1, <4>2, <5>1
      <4>3. CASE k # n
        <5>1. k \in 0..n - 1 /\ k + 1 \in 0..n
          BY <4>1, <4>3
        <5>2. g[k + 1] = f[k + 1]
          BY <5>1, <2>2
        <5> QED
          BY <2>1, <4>1, <5>1, <5>2 DEF Follows
      <4> QED
        BY <4>2, <4>3
    <3> HIDE DEF g
    <3> QED
      BY <3>1, <3>2 DEF Follows
  <2> HIDE DEF g
  <2> QED
    BY <2>4, <2>5
<1>3. \A n \in Nat : n \in S
  <2> HIDE DEF S
  <2> QED
    BY <1>1, <1>2, Induction
<1> DEFINE part(n) == CHOOSE f \in [0..n -> V] : Follows(f, first, step, n)
<1>4. \A n \in Nat : part(n) \in [0..n -> V] /\ Follows(part(n), first, step, n)
  BY <1>3
<1> HIDE DEF S, part
<1>5. ASSUME NEW n \in Nat, NEW m \in Nat, n <= m
      PROVE  part(n)[n] = part(m)[n]
  <2> DEFINE T == {k \in Nat : k <= n => part(n)[k] = part(m)[k]}
  <2>1. 0 \in T
    BY <1>4 DEF Follows
  <2>2. ASSUME NEW k \in Nat, k \in T PROVE k + 1 \in T
    <3>1. SUFFICES ASSUME k + 1 <= n PROVE part(n)[k + 1] = part(m)[k + 1]
      OBVIOUS
    <3>2. k \in 0..n - 1 /\ k \in 0..m - 1 /\ part(n)[k] = part(m)[k]
      BY <1>5, <2>2, <3>1
    <3> QED
      BY <1>4, <3>2 DEF Follows
  <2>3. \A k \in Nat : k \in T
    <3> HIDE DEF T
    <3> QED
      BY <2>1, <2>2, Induction
  <2> QED
    BY <2>3
<1> DEFINE all == [n \in Nat |-> part(n)[n]]
<1>6. all \in [Nat -> V]
  <2>1. \A n \in Nat : n \in 0..n
    OBVIOUS
  <2>2. \A n \in Nat : part(n)[n] \in V
    BY <1>4, <2>1
  <2> QED
    BY <2>2
<1>7. all[0] = first
  BY <1>4 DEF Follows
<1>8. ASSUME NEW k \in Nat PROVE all[k + 1] = step[<<k, all[k]>>]
  <2>1. k + 1 \in Nat /\ k \in 0..(k + 1) - 1 /\ k <= k + 1
    OBVIOUS
  <2>2. part(k + 1)[k + 1] = step[<<k, part(k + 1)[k]>>]
    BY <1>4, <2>1 DEF Follows
  <2>3. part(k)[k] = part(k + 1)[k]
    BY <1>5, <2>1
  <2> QED
    BY <2>1, <2>2, <2>3
<1> HIDE DEF all
<1> QED
  BY <1>6, <1>7, <1>8 DEF Runs

-----------------------------------------------------------------------------
(* Sums of numbers: of the first n values of f.                            *)

IsSum(s, f) == s[0] = 0 /\ \A k \in Nat : s[k + 1] = s[k] + f[k]

Sum(f, n) == (CHOOSE s \in [Nat -> Int] : IsSum(s, f))[n]

Terms == [Nat -> Int]

LEMMA SumSteps ==
  ASSUME NEW f \in Terms
  PROVE  /\ Sum(f, 0) = 0
         /\ \A n \in Nat : Sum(f, n) \in Int /\ Sum(f, n + 1) = Sum(f, n) + f[n]
<1> DEFINE step == [pair \in Nat \X Int |-> pair[2] + f[pair[1]]]
<1>1. step \in [Nat \X Int -> Int]
  BY DEF Terms
<1>2. \A k \in Nat, v \in Int : step[<<k, v>>] = v + f[k]
  OBVIOUS
<1> HIDE DEF step
<1>3. PICK s \in [Nat -> Int] : Runs(s, 0, step)
  <2>1. 0 \in Int
    OBVIOUS
  <2> QED
    BY <1>1, <2>1, Recursion
<1>4. IsSum(s, f)
  BY <1>2, <1>3 DEF IsSum, Runs
<1>5. PICK t \in [Nat -> Int] : IsSum(t, f) /\ \A n : Sum(f, n) = t[n]
  BY <1>4 DEF Sum
<1> QED
  BY <1>5 DEF IsSum

\* Sums of the same elements.
LEMMA SumSame ==
  ASSUME NEW f \in Terms, NEW g \in Terms, NEW n \in Nat, \A i \in 0..n - 1 : Same(f[i], g[i])
  PROVE  Same(Sum(f, n), Sum(g, n))
<1> DEFINE S == {m \in Nat : m <= n => Same(Sum(f, m), Sum(g, m))}
<1>1. 0 \in S
  BY SumSteps DEF Same
<1>2. ASSUME NEW m \in Nat, m \in S PROVE m + 1 \in S
  <2>1. SUFFICES ASSUME m + 1 <= n PROVE Same(Sum(f, m + 1), Sum(g, m + 1))
    OBVIOUS
  <2>2. m \in 0..n - 1 /\ Same(Sum(f, m), Sum(g, m)) /\ Same(f[m], g[m])
    BY <1>2, <2>1
  <2>3. f[m] \in Int /\ g[m] \in Int /\ Sum(f, m) \in Int /\ Sum(g, m) \in Int
    BY SumSteps DEF Terms
  <2>4. Sum(f, m + 1) = Sum(f, m) + f[m] /\ Sum(g, m + 1) = Sum(g, m) + g[m]
    BY SumSteps
  <2>5. Same(Sum(f, m) + f[m], Sum(g, m) + g[m])
    BY <2>2, <2>3, SameOperations
  <2> QED
    BY <2>4, <2>5
<1>3. \A m \in Nat : m \in S
  <2> HIDE DEF S
  <2> QED
    BY <1>1, <1>2, Induction
<1> QED
  BY <1>3

\* Sums of equal numbers.
LEMMA SumEqual ==
  ASSUME NEW f \in Terms, NEW g \in Terms, NEW n \in Nat, \A i \in 0..n - 1 : f[i] = g[i]
  PROVE  Sum(f, n) = Sum(g, n)
<1> DEFINE S == {m \in Nat : m <= n => Sum(f, m) = Sum(g, m)}
<1>1. 0 \in S
  BY SumSteps
<1>2. ASSUME NEW m \in Nat, m \in S PROVE m + 1 \in S
  <2>1. SUFFICES ASSUME m + 1 <= n PROVE Sum(f, m + 1) = Sum(g, m + 1)
    OBVIOUS
  <2>2. m \in 0..n - 1 /\ Sum(f, m) = Sum(g, m) /\ f[m] = g[m]
    BY <1>2, <2>1
  <2>4. Sum(f, m + 1) = Sum(f, m) + f[m] /\ Sum(g, m + 1) = Sum(g, m) + g[m]
    BY SumSteps
  <2> QED
    BY <2>2, <2>4
<1>3. \A m \in Nat : m \in S
  <2> HIDE DEF S
  <2> QED
    BY <1>1, <1>2, Induction
<1> QED
  BY <1>3

\* Sums are linear.
Adds(h, f, g) == \A i \in Nat : h[i] = f[i] + g[i]

LEMMA SumAdds ==
  ASSUME NEW f \in Terms, NEW g \in Terms, NEW h \in Terms, Adds(h, f, g)
  PROVE  \A n \in Nat : Sum(h, n) = Sum(f, n) + Sum(g, n)
<1> DEFINE S == {n \in Nat : Sum(h, n) = Sum(f, n) + Sum(g, n)}
<1>1. 0 \in S
  BY SumSteps
<1>2. ASSUME NEW n \in Nat, n \in S PROVE n + 1 \in S
  <2>1. /\ Sum(h, n) \in Int /\ Sum(f, n) \in Int /\ Sum(g, n) \in Int
        /\ f[n] \in Int /\ g[n] \in Int
    BY SumSteps DEF Terms
  <2>2. /\ Sum(h, n + 1) = Sum(h, n) + h[n]
        /\ Sum(f, n + 1) = Sum(f, n) + f[n]
        /\ Sum(g, n + 1) = Sum(g, n) + g[n]
    BY SumSteps
  <2>3. h[n] = f[n] + g[n]
    BY DEF Adds
  <2> QED
    BY <1>2, <2>1, <2>2, <2>3
<1>3. \A n \in Nat : n \in S
  <2> HIDE DEF S
  <2> QED
    BY <1>1, <1>2, Induction
<1> QED
  BY <1>3

LEMMA SumScales ==
  ASSUME NEW c \in Int, NEW f \in Terms, NEW h \in Terms, \A i \in Nat : h[i] = c * f[i]
  PROVE  \A n \in Nat : Sum(h, n) = c * Sum(f, n)
<1> DEFINE S == {n \in Nat : Sum(h, n) = c * Sum(f, n)}
<1>1. 0 \in S
  BY SumSteps
<1>2. ASSUME NEW n \in Nat, n \in S PROVE n + 1 \in S
  <2>1. PICK s \in Int : s = Sum(f, n)
    BY SumSteps
  <2>2. PICK t \in Int : t = f[n]
    BY DEF Terms
  <2>3. Sum(h, n + 1) = c * s + c * t /\ Sum(f, n + 1) = s + t
    BY <1>2, <2>1, <2>2, SumSteps
  <2>4. c * (s + t) = c * s + c * t
    OBVIOUS
  <2> QED
    BY <2>3, <2>4
<1>3. \A n \in Nat : n \in S
  <2> HIDE DEF S
  <2> QED
    BY <1>1, <1>2, Induction
<1> QED
  BY <1>3

\* A sum in two parts.
LEMMA SumSplits ==
  ASSUME NEW m \in Nat, NEW f \in Terms, NEW h \in Terms, \A i \in Nat : h[i] = f[m + i]
  PROVE  \A n \in Nat : Sum(f, m + n) = Sum(f, m) + Sum(h, n)
<1> DEFINE S == {n \in Nat : Sum(f, m + n) = Sum(f, m) + Sum(h, n)}
<1>1. 0 \in S
  <2>1. Sum(f, m) \in Int /\ m + 0 = m /\ Sum(h, 0) = 0
    BY SumSteps
  <2> QED
    BY <2>1
<1>2. ASSUME NEW n \in Nat, n \in S PROVE n + 1 \in S
  <2>1. /\ Sum(f, m) \in Int /\ Sum(h, n) \in Int /\ f[m + n] \in Int
        /\ m + n \in Nat /\ m + (n + 1) = (m + n) + 1
    BY SumSteps DEF Terms
  <2>2. Sum(f, (m + n) + 1) = Sum(f, m + n) + f[m + n]
    BY <2>1, SumSteps
  <2>3. Sum(h, n + 1) = Sum(h, n) + f[m + n]
    BY SumSteps
  <2> QED
    BY <1>2, <2>1, <2>2, <2>3
<1>3. \A n \in Nat : n \in S
  <2> HIDE DEF S
  <2> QED
    BY <1>1, <1>2, Induction
<1> QED
  BY <1>3

\* A sum of which all terms are zero, or all but one.
LEMMA SumZero ==
  ASSUME NEW f \in Terms, NEW n \in Nat, \A i \in 0..n - 1 : f[i] = 0
  PROVE  Sum(f, n) = 0
<1> DEFINE S == {m \in Nat : m <= n => Sum(f, m) = 0}
<1>1. 0 \in S
  BY SumSteps
<1>2. ASSUME NEW m \in Nat, m \in S PROVE m + 1 \in S
  <2>1. SUFFICES ASSUME m + 1 <= n PROVE Sum(f, m + 1) = 0
    OBVIOUS
  <2>2. m \in 0..n - 1 /\ Sum(f, m) = 0 /\ f[m] = 0
    BY <1>2, <2>1
  <2> QED
    BY <2>2, SumSteps
<1>3. \A m \in Nat : m \in S
  <2> HIDE DEF S
  <2> QED
    BY <1>1, <1>2, Induction
<1> QED
  BY <1>3

LEMMA SumSingle ==
  ASSUME NEW f \in Terms, NEW n \in Nat, NEW k \in 0..n - 1, \A i \in 0..n - 1 : i # k => f[i] = 0
  PROVE  Sum(f, n) = f[k]
<1> DEFINE h == [i \in Nat |-> f[(k + 1) + i]]
<1>1. h \in Terms /\ \A i \in Nat : h[i] = f[(k + 1) + i]
  BY DEF Terms
<1> HIDE DEF h
<1>2. k \in Nat /\ k + 1 \in Nat /\ n - (k + 1) \in Nat /\ (k + 1) + (n - (k + 1)) = n
  OBVIOUS
<1>3. Sum(f, n) = Sum(f, k + 1) + Sum(h, n - (k + 1))
  <2>1. \A l \in Nat : Sum(f, (k + 1) + l) = Sum(f, k + 1) + Sum(h, l)
    BY <1>1, <1>2, SumSplits
  <2> QED
    BY <1>2, <2>1
<1>4. Sum(h, n - (k + 1)) = 0
  <2>1. \A i \in 0..(n - (k + 1)) - 1 : (k + 1) + i \in 0..n - 1 /\ (k + 1) + i # k /\ i \in Nat
    BY <1>2
  <2>2. \A i \in 0..(n - (k + 1)) - 1 : h[i] = 0
    BY <1>1, <2>1
  <2> QED
    BY <1>1, <1>2, <2>2, SumZero
<1>5. Sum(f, k) = 0
  <2>1. \A i \in 0..k - 1 : i \in 0..n - 1 /\ i # k
    BY <1>2
  <2> QED
    BY <1>2, <2>1, SumZero
<1>6. Sum(f, k + 1) = Sum(f, k) + f[k] /\ f[k] \in Int
  BY <1>2, SumSteps DEF Terms
<1> QED
  BY <1>3, <1>4, <1>5, <1>6
\* The order of two sums does not matter.
Transposed(F, G) == \A i, j \in Nat : G[j][i] = F[i][j]
SumsOf(f, F, n)  == \A i \in Nat : f[i] = Sum(F[i], n)

LEMMA SumExchange ==
  ASSUME NEW F \in [Nat -> Terms], NEW G \in [Nat -> Terms], Transposed(F, G),
         NEW m \in Nat, NEW f \in Terms, SumsOf(f, F, m)
  PROVE  \A n \in Nat, g \in Terms : SumsOf(g, G, n) => Sum(f, n) = Sum(g, m)
<1>1. \A i \in Nat : f[i] = Sum(F[i], m)
  BY DEF SumsOf
<1> DEFINE S == {n \in Nat : \A g \in Terms : SumsOf(g, G, n) => Sum(f, n) = Sum(g, m)}
<1>2. 0 \in S
  <2>1. SUFFICES ASSUME NEW g \in Terms, \A j \in Nat : g[j] = Sum(G[j], 0)
                 PROVE  Sum(f, 0) = Sum(g, m)
    BY DEF SumsOf
  <2>2. \A j \in 0..m - 1 : j \in Nat /\ G[j] \in Terms
    OBVIOUS
  <2>3. \A j \in 0..m - 1 : g[j] = 0
    BY <2>1, <2>2, SumSteps
  <2> QED
    BY <2>3, SumZero, SumSteps
<1>3. ASSUME NEW n \in Nat, n \in S PROVE n + 1 \in S
  <2>1. SUFFICES ASSUME NEW g \in Terms, \A j \in Nat : g[j] = Sum(G[j], n + 1)
                 PROVE  Sum(f, n + 1) = Sum(g, m)
    BY DEF SumsOf
  <2> DEFINE h == [j \in Nat |-> Sum(G[j], n)]
  <2>2. h \in Terms /\ \A j \in Nat : h[j] = Sum(G[j], n)
    <3>1. \A j \in Nat : G[j] \in Terms
      OBVIOUS
    <3>2. \A j \in Nat : Sum(G[j], n) \in Int
      BY <3>1, SumSteps
    <3> QED
      BY <3>2 DEF Terms
  <2> HIDE DEF h
  <2>3. Sum(f, n) = Sum(h, m)
    BY <1>3, <2>2 DEF SumsOf
  <2>4. F[n] \in Terms /\ \A j \in Nat : G[j] \in Terms
    OBVIOUS
  <2>5. \A j \in Nat : g[j] = h[j] + F[n][j]
    <3>1. \A j \in Nat : Sum(G[j], n + 1) = Sum(G[j], n) + G[j][n]
      BY <2>4, SumSteps
    <3>2. \A j \in Nat : G[j][n] = F[n][j]
      BY DEF Transposed
    <3> QED
      BY <2>1, <2>2, <3>1, <3>2
  <2>6. Sum(g, m) = Sum(h, m) + Sum(F[n], m)
    <3> DEFINE r == F[n]
    <3>1. r \in Terms /\ Adds(g, h, r)
      BY <2>4, <2>5 DEF Adds
    <3> HIDE DEF r
    <3>2. \A k \in Nat : Sum(g, k) = Sum(h, k) + Sum(r, k)
      BY <2>2, <3>1, SumAdds
    <3> QED
      BY <3>2 DEF r
  <2>7. Sum(f, n + 1) = Sum(f, n) + f[n]
    BY SumSteps
  <2> QED
    BY <1>1, <2>3, <2>6, <2>7
<1>4. \A n \in Nat : n \in S
  <2> HIDE DEF S
  <2> QED
    BY <1>2, <1>3, Induction
<1> QED
  BY <1>4

-----------------------------------------------------------------------------
(* Powers.                                                                 *)

LEMMA PowerSteps ==
  ASSUME NEW x \in Field
  PROVE  /\ Power(x, 0) = 1
         /\ \A n \in Nat : /\ Power(x, n) \in Field
                           /\ Power(x, n + 1) = (x * Power(x, n)) % MODULUS
<1> DEFINE step == [pair \in Nat \X Field |-> (x * pair[2]) % MODULUS]
<1>1. 1 \in Field
  BY ModulusIsPositive DEF Field
<1>2. step \in [Nat \X Field -> Field]
  <2>1. \A y \in Field : x * y \in Int
    BY Reduced
  <2>2. \A y \in Field : (x * y) % MODULUS \in Field
    BY <2>1, Reduced
  <2> QED
    BY <2>2
<1>3. \A n \in Nat, y \in Field : step[<<n, y>>] = (x * y) % MODULUS
  OBVIOUS
<1> HIDE DEF step
<1>4. PICK f \in [Nat -> Field] : Runs(f, 1, step)
  BY <1>1, <1>2, Recursion
<1>5. f[0] = 1 /\ \A n \in Nat : f[n] \in Field /\ f[n + 1] = (x * f[n]) % MODULUS
  BY <1>3, <1>4 DEF Runs
<1>6. ASSUME NEW n \in Nat PROVE Power(x, n) = f[n]
  <2> DEFINE is(p) == p = [k \in 0..n |-> IF k = 0 THEN 1 ELSE (x * p[k - 1]) % MODULUS]
             p0 == [k \in 0..n |-> f[k]]
  <2>1. is(p0)
    <3>1. ASSUME NEW k \in 0..n
          PROVE  f[k] = IF k = 0 THEN 1 ELSE (x * p0[k - 1]) % MODULUS
      <4>1. CASE k = 0
        BY <1>5, <4>1
      <4>2. CASE k # 0
        <5>1. k - 1 \in Nat /\ k - 1 \in 0..n /\ (k - 1) + 1 = k
          BY <4>2
        <5>2. f[k] = (x * f[k - 1]) % MODULUS
          BY <1>5, <5>1
        <5> QED
          BY <4>2, <5>1, <5>2
      <4> QED
        BY <4>1, <4>2
    <3> QED
      BY <3>1
  <2>2. PICK p : is(p) /\ Power(x, n) = p[n]
    <3>1. Power(x, n) = (CHOOSE p : is(p))[n]
      BY DEF Power
    <3> HIDE DEF is, p0
    <3> QED
      BY <2>1, <3>1
  <2> HIDE DEF p0
  <2> DEFINE S == {k \in Nat : k <= n => p[k] = f[k]}
  <2>3. 0 \in S
    BY <1>5, <2>2
  <2>4. ASSUME NEW k \in Nat, k \in S PROVE k + 1 \in S
    <3>1. SUFFICES ASSUME k + 1 <= n PROVE p[k + 1] = f[k + 1]
      OBVIOUS
    <3>2. k + 1 \in 0..n /\ k + 1 # 0 /\ (k + 1) - 1 = k /\ p[k] = f[k]
      BY <2>4, <3>1
    <3>3. p[k + 1] = (x * p[k]) % MODULUS
      BY <2>2, <3>2
    <3> QED
      BY <1>5, <3>2, <3>3
  <2>5. \A k \in Nat : k \in S
    <3> HIDE DEF S
    <3> QED
      BY <2>3, <2>4, Induction
  <2> QED
    BY <2>2, <2>5
<1> QED
  BY <1>5, <1>6

-----------------------------------------------------------------------------
(* Products in the field.                                                  *)

Times(a, b) == (a * b) % MODULUS

LEMMA TimesRules ==
  /\ \A a, b \in Field : Times(a, b) \in Field /\ Times(a, b) = Times(b, a)
  /\ \A a, b, c \in Field : Times(Times(a, b), c) = Times(a, Times(b, c))
  /\ \A a \in Field : Times(1, a) = a /\ Times(a, 1) = a /\ Times(0, a) = 0 /\ Times(a, 0) = 0
  /\ 0 \in Field /\ 1 \in Field
<1>1. 0 \in Field /\ 1 \in Field
  BY ModulusIsPositive DEF Field
<1>2. ASSUME NEW a \in Field, NEW b \in Field
      PROVE  Times(a, b) \in Field /\ Times(a, b) = Times(b, a)
  <2>1. a \in Int /\ b \in Int /\ a * b \in Int /\ a * b = b * a
    BY Reduced
  <2> QED
    BY <2>1, Reduced DEF Times
<1>3. ASSUME NEW a \in Field, NEW b \in Field, NEW c \in Field
      PROVE  Times(Times(a, b), c) = Times(a, Times(b, c))
  <2>1. a \in Int /\ b \in Int /\ c \in Int
    BY Reduced
  <2>2. a * b \in Int /\ b * c \in Int
    BY <2>1
  <2>3. Times(a, b) \in Int /\ Times(b, c) \in Int /\ Same(Times(a, b), a * b)
        /\ Same(Times(b, c), b * c)
    BY <2>2, Reduced DEF Times
  <2>4. Same(Times(a, b) * c, (a * b) * c)
    BY <2>1, <2>2, <2>3, SameRules
  <2>5. Same(a * Times(b, c), a * (b * c))
    BY <2>1, <2>2, <2>3, SameRules
  <2>6. (a * b) * c = a * (b * c)
    BY <2>1
  <2> QED
    BY <2>4, <2>5, <2>6 DEF Same, Times
<1>4. ASSUME NEW a \in Field
      PROVE  Times(1, a) = a /\ Times(a, 1) = a /\ Times(0, a) = 0 /\ Times(a, 0) = 0
  <2>1. a \in Int /\ 1 * a = a /\ a * 1 = a /\ 0 * a = 0 /\ a * 0 = 0
    BY Reduced
  <2> QED
    BY <1>1, <2>1, Reduced DEF Times
<1> QED
  BY <1>1, <1>2, <1>3, <1>4

LEMMA PowerTimes ==
  ASSUME NEW x \in Field
  PROVE  /\ Power(x, 0) = 1 /\ Power(x, 1) = x
         /\ \A n \in Nat : Power(x, n) \in Field /\ Power(x, n + 1) = Times(x, Power(x, n))
<1>1. /\ Power(x, 0) = 1
      /\ \A n \in Nat : Power(x, n) \in Field /\ Power(x, n + 1) = Times(x, Power(x, n))
  BY PowerSteps DEF Times
<1>2. Power(x, 0 + 1) = Times(x, 1)
  BY <1>1
<1>3. Power(x, 1) = x
  BY <1>2, TimesRules
<1> QED
  BY <1>1, <1>3

LEMMA PowerOfSum ==
  ASSUME NEW x \in Field
  PROVE  \A m, n \in Nat : Power(x, m + n) = Times(Power(x, m), Power(x, n))
<1> SUFFICES ASSUME NEW n \in Nat
             PROVE  \A m \in Nat : Power(x, m + n) = Times(Power(x, m), Power(x, n))
  OBVIOUS
<1> DEFINE S == {m \in Nat : Power(x, m + n) = Times(Power(x, m), Power(x, n))}
<1>1. 0 \in S
  <2>1. Power(x, 0) = 1 /\ Power(x, n) \in Field /\ 0 + n = n
    BY PowerTimes
  <2> QED
    BY <2>1, TimesRules
<1>2. ASSUME NEW m \in Nat, m \in S PROVE m + 1 \in S
  <2>1. (m + 1) + n = (m + n) + 1 /\ m + n \in Nat
    OBVIOUS
  <2>2. /\ Power(x, (m + n) + 1) = Times(x, Power(x, m + n))
        /\ Power(x, m + 1) = Times(x, Power(x, m))
        /\ Power(x, m) \in Field /\ Power(x, n) \in Field
    BY <2>1, PowerTimes
  <2>3. Times(Times(x, Power(x, m)), Power(x, n)) = Times(x, Times(Power(x, m), Power(x, n)))
    BY <2>2, TimesRules
  <2> QED
    BY <1>2, <2>1, <2>2, <2>3
<1>3. \A m \in Nat : m \in S
  <2> HIDE DEF S
  <2> QED
    BY <1>1, <1>2, Induction
<1> QED
  BY <1>3

LEMMA PowerOfPower ==
  ASSUME NEW x \in Field, NEW m \in Nat
  PROVE  \A n \in Nat : Power(Power(x, m), n) = Power(x, m * n)
<1> DEFINE y == Power(x, m)
           S == {n \in Nat : Power(y, n) = Power(x, m * n)}
<1>1. y \in Field
  BY PowerTimes
<1>2. 0 \in S
  <2>1. m * 0 = 0
    OBVIOUS
  <2>2. Power(y, 0) = 1 /\ Power(x, 0) = 1
    BY <1>1, PowerTimes
  <2> QED
    BY <2>1, <2>2
<1>3. ASSUME NEW n \in Nat, n \in S PROVE n + 1 \in S
  <2>1. m * n \in Nat /\ m * (n + 1) = m + m * n
    OBVIOUS
  <2>2. Power(y, n + 1) = Times(y, Power(y, n))
    BY <1>1, PowerTimes
  <2>3. Power(x, m + m * n) = Times(y, Power(x, m * n))
    BY <2>1, PowerOfSum
  <2> QED
    BY <1>3, <2>1, <2>2, <2>3
<1>4. \A n \in Nat : n \in S
  <2> HIDE DEF S, y
  <2> QED
    BY <1>2, <1>3, Induction
<1> QED
  BY <1>4

LEMMA PowerOfProduct ==
  ASSUME NEW x \in Field, NEW y \in Field
  PROVE  \A n \in Nat : Power(Times(x, y), n) = Times(Power(x, n), Power(y, n))
<1> DEFINE z == Times(x, y)
           S == {n \in Nat : Power(z, n) = Times(Power(x, n), Power(y, n))}
<1>1. z \in Field
  BY TimesRules
<1>2. 0 \in S
  <2>1. Power(x, 0) = 1 /\ Power(y, 0) = 1 /\ Power(z, 0) = 1
    BY <1>1, PowerTimes
  <2> QED
    BY <2>1, TimesRules
<1>3. ASSUME NEW n \in Nat, n \in S PROVE n + 1 \in S
  <2>1. PICK a \in Field : a = Power(x, n) /\ Power(x, n + 1) = Times(x, a)
    BY PowerTimes
  <2>2. PICK b \in Field : b = Power(y, n) /\ Power(y, n + 1) = Times(y, b)
    BY PowerTimes
  <2>3. Power(z, n + 1) = Times(z, Times(a, b))
    BY <1>1, <1>3, <2>1, <2>2, PowerTimes
  <2>4. Times(z, Times(a, b)) = Times(Times(x, a), Times(y, b))
    <3>1. Times(a, b) \in Field /\ Times(y, b) \in Field /\ Times(y, a) \in Field
      BY TimesRules
    <3>2. Times(Times(x, y), Times(a, b)) = Times(x, Times(y, Times(a, b)))
      BY <3>1, TimesRules
    <3>3. Times(y, Times(a, b)) = Times(Times(y, a), b)
      BY TimesRules
    <3>4. Times(Times(y, a), b) = Times(Times(a, y), b)
      BY TimesRules
    <3>5. Times(Times(a, y), b) = Times(a, Times(y, b))
      BY TimesRules
    <3>6. Times(x, Times(a, Times(y, b))) = Times(Times(x, a), Times(y, b))
      BY <3>1, TimesRules
    <3> QED
      BY <3>2, <3>3, <3>4, <3>5, <3>6
  <2> QED
    BY <2>1, <2>2, <2>3, <2>4
<1>4. \A n \in Nat : n \in S
  <2> HIDE DEF S, z
  <2> QED
    BY <1>2, <1>3, Induction
<1> QED
  BY <1>4

LEMMA PowerOfOne == \A n \in Nat : Power(1, n) = 1
<1> DEFINE S == {n \in Nat : Power(1, n) = 1}
<1>1. 0 \in S
  BY TimesRules, PowerTimes
<1>2. ASSUME NEW n \in Nat, n \in S PROVE n + 1 \in S
  BY <1>2, TimesRules, PowerTimes
<1>3. \A n \in Nat : n \in S
  <2> HIDE DEF S
  <2> QED
    BY <1>1, <1>2, Induction
<1> QED
  BY <1>3
-----------------------------------------------------------------------------
(* The generator, inverses and orders.                                     *)

LEMMA Generates ==
  /\ GENERATOR \in Field /\ GENERATOR # 0
  /\ \A n \in 0..MODULUS - 2 : Power(GENERATOR, n) # 0
  /\ \A y \in Field : y # 0 => \E n \in 0..MODULUS - 2 : y = Power(GENERATOR, n)
<1>1. GENERATOR \in Field /\ GENERATOR # 0
  BY FieldAssumption, Zenon
<1>2. {Power(GENERATOR, n) : n \in 0..MODULUS - 2} = Field \ {0}
  BY FieldAssumption, Zenon
<1> QED
  BY <1>1, <1>2, Zenon

\* The generator has an inverse: minus one is one of its powers.
LEMMA GeneratorInverse == \E h \in Field : Times(GENERATOR, h) = 1
<1>1. MODULUS \in Nat /\ MODULUS > 1
  BY ModulusIsPositive
<1>2. MODULUS - 1 \in Field /\ MODULUS - 1 # 0
  BY <1>1 DEF Field
<1>3. PICK k \in 0..MODULUS - 2 : MODULUS - 1 = Power(GENERATOR, k)
  BY <1>2, Generates
<1>4. GENERATOR \in Field /\ k \in Nat
  BY <1>1, Generates
<1>5. Times(MODULUS - 1, MODULUS - 1) = 1
  <2>1. (MODULUS - 1) * (MODULUS - 1) = 1 + (MODULUS - 2) * MODULUS
    BY <1>1
  <2>2. (MODULUS - 1) * (MODULUS - 1) \in Int /\ MODULUS - 2 \in Int
    BY <1>1
  <2>3. Same((MODULUS - 1) * (MODULUS - 1), 1)
    BY <2>1, <2>2, SameIfMultiple
  <2>4. 1 % MODULUS = 1
    BY TimesRules, Reduced
  <2> QED
    BY <2>3, <2>4 DEF Same, Times
<1>6. CASE k = 0
  <2>1. MODULUS = 2
    BY <1>1, <1>3, <1>4, <1>6, PowerTimes
  <2>2. GENERATOR = 1
    BY <2>1, Generates DEF Field
  <2> QED
    BY <2>2, TimesRules
<1>7. CASE k # 0
  <2>1. k + k - 1 \in Nat /\ (k + k - 1) + 1 = k + k
    BY <1>4, <1>7
  <2>2. Power(GENERATOR, k + k) = Times(Power(GENERATOR, k), Power(GENERATOR, k))
    BY <1>4, PowerOfSum
  <2>3. Power(GENERATOR, (k + k - 1) + 1) = Times(GENERATOR, Power(GENERATOR, k + k - 1)) /\ Power(GENERATOR, k + k - 1) \in Field
    BY <1>4, <2>1, PowerTimes
  <2>4. Times(GENERATOR, Power(GENERATOR, k + k - 1)) = 1
    BY <1>3, <1>5, <2>1, <2>2, <2>3
  <2> QED
    BY <2>3, <2>4
<1> QED
  BY <1>6, <1>7

\* What has an inverse is cancelled.
LEMMA Cancelled ==
  ASSUME NEW a \in Field, NEW b \in Field, NEW h \in Field, Times(a, h) = 1
  PROVE  Times(a, b) = a => b = 1
<1>1. SUFFICES ASSUME Times(a, b) = a PROVE b = 1
  OBVIOUS
<1>2. Times(h, a) = 1
  BY TimesRules
<1>3. Times(h, Times(a, b)) = Times(Times(h, a), b)
  BY TimesRules
<1>4. Times(1, b) = b
  BY TimesRules
<1> QED
  BY <1>1, <1>2, <1>3, <1>4

LEMMA PowersHaveInverses ==
  \A k \in Nat : \E h \in Field : Times(Power(GENERATOR, k), h) = 1
<1>1. TAKE k \in Nat
<1>2. PICK h \in Field : Times(GENERATOR, h) = 1
  BY GeneratorInverse
<1>3. Power(Times(GENERATOR, h), k) = Times(Power(GENERATOR, k), Power(h, k))
  BY Generates, PowerOfProduct
<1>4. Power(1, k) = 1 /\ Power(h, k) \in Field
  BY PowerOfOne, PowerTimes
<1> QED
  BY <1>2, <1>3, <1>4

\* The powers below MODULUS - 1 are different: they are as many as the elements.
LEMMA PowersDiffer ==
  \A m, n \in 0..MODULUS - 2 : Power(GENERATOR, m) = Power(GENERATOR, n) => m = n
<1> DEFINE S == 0..MODULUS - 2
           T == 1..MODULUS - 1
           f == [n \in S |-> Power(GENERATOR, n)]
<1>1. MODULUS \in Nat /\ MODULUS > 1
  BY ModulusIsPositive
<1>2. T = Field \ {0} /\ \A n \in S : n \in Nat
  BY <1>1 DEF Field
<1>3. IsFiniteSet(S) /\ Cardinality(S) = Cardinality(T)
  <2>1. IsFiniteSet(0..MODULUS - 2) /\ Cardinality(0..MODULUS - 2) = MODULUS - 1
    <3>1. /\ IsFiniteSet(0..MODULUS - 2)
          /\ Cardinality(0..MODULUS - 2)
               = IF 0 > MODULUS - 2 THEN 0 ELSE (MODULUS - 2) - 0 + 1
      <4>1. 0 \in Int /\ MODULUS - 2 \in Int
        BY <1>1
      <4> QED
        BY <4>1, FS_Interval
    <3> QED
      BY <1>1, <3>1
  <2>2. Cardinality(1..MODULUS - 1) = MODULUS - 1
    <3>1. Cardinality(1..MODULUS - 1)
            = IF 1 > MODULUS - 1 THEN 0 ELSE (MODULUS - 1) - 1 + 1
      <4>1. 1 \in Int /\ MODULUS - 1 \in Int
        BY <1>1
      <4> QED
        BY <4>1, FS_Interval
    <3> QED
      BY <1>1, <3>1
  <2> QED
    BY <2>1, <2>2
<1>4. f \in [S -> T]
  <2>1. \A n \in S : Power(GENERATOR, n) \in T
    BY <1>2, Generates, PowerTimes
  <2> QED
    BY <2>1
<1>5. \A y \in T : \E n \in S : f[n] = y
  BY <1>2, Generates
<1>6. \A n \in S : f[n] = Power(GENERATOR, n)
  OBVIOUS
<1> HIDE DEF S, T, f
<1>7. f \in Injection(S, T)
  BY <1>3, <1>4, <1>5, Fun_IsSurj, FS_SurjSameCardinalityImpliesInj
<1>8. \A m, n \in S : f[m] = f[n] => m = n
  BY <1>7, Fun_InjectionProperties
<1> QED
  BY <1>6, <1>8 DEF S

\* The order of the generator is MODULUS - 1.
LEMMA GeneratorOrder == Power(GENERATOR, MODULUS - 1) = 1
<1>1. MODULUS \in Nat /\ MODULUS > 1 /\ MODULUS - 1 \in Nat
  BY ModulusIsPositive
<1>2. GENERATOR \in Field /\ Power(GENERATOR, MODULUS - 1) \in Field
  BY <1>1, Generates, PowerTimes
<1>3. Power(GENERATOR, MODULUS - 1) # 0
  <2>1. PICK h \in Field : Times(Power(GENERATOR, MODULUS - 1), h) = 1
    BY <1>1, PowersHaveInverses
  <2> QED
    BY <2>1, TimesRules
<1>4. PICK j \in 0..MODULUS - 2 : Power(GENERATOR, MODULUS - 1) = Power(GENERATOR, j)
  BY <1>2, <1>3, Generates
<1>5. CASE j = 0
  BY <1>2, <1>4, <1>5, PowerTimes
<1>6. CASE j # 0
  <2>1. /\ j \in Nat /\ (MODULUS - 1) - j \in Nat /\ j + ((MODULUS - 1) - j) = MODULUS - 1
        /\ (MODULUS - 1) - j \in 0..MODULUS - 2 /\ (MODULUS - 1) - j # 0 /\ 0 \in 0..MODULUS - 2
    BY <1>1, <1>6
  <2>2. Times(Power(GENERATOR, j), Power(GENERATOR, (MODULUS - 1) - j)) = Power(GENERATOR, j)
    BY <1>2, <1>4, <2>1, PowerOfSum
  <2>3. PICK h \in Field : Times(Power(GENERATOR, j), h) = 1
    BY <2>1, PowersHaveInverses
  <2>4. Power(GENERATOR, (MODULUS - 1) - j) = 1
    <3>1. Power(GENERATOR, j) \in Field /\ Power(GENERATOR, (MODULUS - 1) - j) \in Field
      BY <1>2, <2>1, PowerTimes
    <3> QED
      BY <2>2, <2>3, <3>1, Cancelled
  <2>5. Power(GENERATOR, 0) = 1
    BY <1>2, PowerTimes
  <2> QED
    BY <2>1, <2>4, <2>5, PowersDiffer
<1> QED
  BY <1>5, <1>6

\* FieldInverse is the inverse of everything but zero.
LEMMA Inverts ==
  \A y \in Field : y # 0 => FieldInverse(y) \in Field /\ Times(FieldInverse(y), y) = 1
<1>1. SUFFICES ASSUME NEW y \in Field, y # 0
               PROVE  FieldInverse(y) \in Field /\ Times(FieldInverse(y), y) = 1
  OBVIOUS
<1>2. MODULUS - 2 \in Nat /\ MODULUS - 1 \in Nat /\ (MODULUS - 2) + 1 = MODULUS - 1
  BY ModulusIsPositive
<1>3. PICK k \in 0..MODULUS - 2 : y = Power(GENERATOR, k)
  BY <1>1, Generates
<1>4. GENERATOR \in Field /\ k \in Nat
  BY <1>2, Generates
<1>5. Times(y, Power(y, MODULUS - 2)) = Power(y, MODULUS - 1) /\ Power(y, MODULUS - 2) \in Field
  BY <1>2, PowerTimes
<1>6. Power(y, MODULUS - 1) = 1
  <2>1. Power(y, MODULUS - 1) = Power(GENERATOR, k * (MODULUS - 1))
    BY <1>2, <1>3, <1>4, PowerOfPower
  <2>2. Power(Power(GENERATOR, MODULUS - 1), k) = Power(GENERATOR, (MODULUS - 1) * k)
    BY <1>2, <1>4, PowerOfPower
  <2>3. k * (MODULUS - 1) = (MODULUS - 1) * k
    BY <1>2, <1>4
  <2>4. Power(1, k) = 1
    BY <1>4, PowerOfOne
  <2> QED
    BY <2>1, <2>2, <2>3, <2>4, GeneratorOrder
<1> QED
  BY <1>5, <1>6, TimesRules DEF FieldInverse

\* A product is zero only if a factor is.
LEMMA NoZeroDivisors ==
  ASSUME NEW a \in Field, NEW b \in Field, a # 0, Times(a, b) = 0
  PROVE  b = 0
<1>1. PICK h \in Field : Times(h, a) = 1
  BY Inverts
<1>2. Times(h, Times(a, b)) = Times(Times(h, a), b)
  BY TimesRules
<1> QED
  BY <1>1, <1>2, TimesRules
-----------------------------------------------------------------------------
(* Reversed bits.                                                          *)

Bit(j, k) == (j \div 2 ^ k) % 2

\* The lowest k bits of j, reversed.
Reversals(j) == CHOOSE f \in [Nat -> Nat] :
                  f[0] = 0 /\ \A k \in Nat : f[k + 1] = 2 * f[k] + Bit(j, k)

Reversed(j, k) == Reversals(j)[k]

LEMMA Bits ==
  ASSUME NEW j \in Nat, NEW k \in Nat
  PROVE  Bit(j, k) \in {0, 1}
<1>1. j \div 2 ^ k \in Int
  BY Powers, Division
<1>2. \A a \in Int : a % 2 \in {0, 1}
  OBVIOUS
<1> QED
  BY <1>1, <1>2 DEF Bit

LEMMA ReversedSteps ==
  ASSUME NEW j \in Nat
  PROVE  /\ Reversed(j, 0) = 0
         /\ \A k \in Nat : /\ Reversed(j, k) \in Nat
                           /\ Reversed(j, k + 1) = 2 * Reversed(j, k) + Bit(j, k)
<1> DEFINE step == [pair \in Nat \X Nat |-> 2 * pair[2] + Bit(j, pair[1])]
<1>1. step \in [Nat \X Nat -> Nat]
  <2>1. \A k \in Nat, m \in Nat : 2 * m + Bit(j, k) \in Nat
    BY Bits
  <2> QED
    BY <2>1
<1>2. \A k \in Nat, m \in Nat : step[<<k, m>>] = 2 * m + Bit(j, k)
  OBVIOUS
<1> HIDE DEF step
<1>3. PICK f \in [Nat -> Nat] : Runs(f, 0, step)
  BY <1>1, Recursion
<1>4. f[0] = 0 /\ \A k \in Nat : f[k + 1] = 2 * f[k] + Bit(j, k)
  BY <1>2, <1>3 DEF Runs
<1>5. /\ Reversals(j) \in [Nat -> Nat]
      /\ Reversals(j)[0] = 0 /\ \A k \in Nat : Reversals(j)[k + 1] = 2 * Reversals(j)[k] + Bit(j, k)
  BY <1>4 DEF Reversals
<1> QED
  BY <1>5 DEF Reversed

\* BitReverse reverses the bits of an index.
LEMMA BitReverses ==
  ASSUME NEW j \in Nat, NEW n \in Nat
  PROVE  BitReverse(j, 2 ^ n) = Reversed(j, n)
<1> DEFINE is(p) == p = [k \in 0..n |-> IF k = 0 THEN 0 ELSE 2 * p[k - 1] + ((j \div 2 ^ (k - 1)) % 2)]
           p0 == [k \in 0..n |-> Reversed(j, k)]
<1>1. is(p0)
  <2>1. ASSUME NEW k \in 0..n
        PROVE  Reversed(j, k) = IF k = 0 THEN 0 ELSE 2 * p0[k - 1] + ((j \div 2 ^ (k - 1)) % 2)
    <3>1. CASE k = 0
      BY <3>1, ReversedSteps
    <3>2. CASE k # 0
      <4>1. k - 1 \in Nat /\ k - 1 \in 0..n /\ (k - 1) + 1 = k
        BY <3>2
      <4>2. Reversed(j, k) = 2 * Reversed(j, k - 1) + Bit(j, k - 1)
        BY <4>1, ReversedSteps
      <4> QED
        BY <3>2, <4>1, <4>2 DEF Bit
    <3> QED
      BY <3>1, <3>2
  <2> QED
    BY <2>1
<1>2. PICK p : is(p) /\ BitReverse(j, 2 ^ n) = p[n]
  <2>1. BitReverse(j, 2 ^ n) = (CHOOSE p : is(p))[n]
    BY LogOfPower DEF BitReverse
  <2> HIDE DEF is, p0
  <2> QED
    BY <1>1, <2>1
<1> HIDE DEF p0
<1> DEFINE S == {k \in Nat : k <= n => p[k] = Reversed(j, k)}
<1>3. 0 \in S
  BY <1>2, ReversedSteps
<1>4. ASSUME NEW k \in Nat, k \in S PROVE k + 1 \in S
  <2>1. SUFFICES ASSUME k + 1 <= n PROVE p[k + 1] = Reversed(j, k + 1)
    OBVIOUS
  <2>2. k + 1 \in 0..n /\ k + 1 # 0 /\ (k + 1) - 1 = k /\ p[k] = Reversed(j, k)
    BY <1>4, <2>1
  <2>3. p[k + 1] = 2 * p[k] + ((j \div 2 ^ k) % 2)
    BY <1>2, <2>2
  <2> QED
    BY <2>2, <2>3, ReversedSteps DEF Bit
<1>5. \A k \in Nat : k \in S
  <2> HIDE DEF S
  <2> QED
    BY <1>3, <1>4, Induction
<1> QED
  BY <1>2, <1>5

\* Powers of two multiply.
LEMMA PowersMultiply ==
  ASSUME NEW m \in Nat
  PROVE  \A n \in Nat : 2 ^ (m + n) = 2 ^ m * 2 ^ n
<1> DEFINE S == {n \in Nat : 2 ^ (m + n) = 2 ^ m * 2 ^ n}
<1>1. 0 \in S
  <2>1. 2 ^ m \in Nat /\ 2 ^ 0 = 1 /\ m + 0 = m
    BY Powers
  <2> QED
    BY <2>1
<1>2. ASSUME NEW n \in Nat, n \in S PROVE n + 1 \in S
  <2>1. PICK a \in Nat : a = 2 ^ m
    BY Powers
  <2>2. PICK b \in Nat : b = 2 ^ n /\ 2 ^ (n + 1) = b + b
    BY Powers, Doubles
  <2>3. 2 ^ ((m + n) + 1) = a * b + a * b /\ (m + n) + 1 = m + (n + 1)
    BY <1>2, <2>1, <2>2, Doubles
  <2>4. a * (b + b) = a * b + a * b
    OBVIOUS
  <2> QED
    BY <2>1, <2>2, <2>3, <2>4
<1>3. \A n \in Nat : n \in S
  <2> HIDE DEF S
  <2> QED
    BY <1>1, <1>2, Induction
<1> QED
  BY <1>3

\* A bit that is not among the lowest k does not matter to those.
LEMMA LowBits ==
  ASSUME NEW k \in Nat, NEW i \in Nat, NEW l \in Nat, l < k
  PROVE  Bit(2 ^ k + i, l) = Bit(i, l)
<1>1. PICK p \in Nat \ {0} : p = 2 ^ l
  BY Powers
<1>2. PICK c \in Nat : c = 2 ^ (k - l - 1)
  <2>1. k - l - 1 \in Nat
    OBVIOUS
  <2> QED
    BY <2>1, Powers
<1>3. 2 ^ k = (c + c) * p
  <2>1. k - l - 1 \in Nat /\ (k - l - 1) + 1 = k - l /\ k - l \in Nat /\ l + (k - l) = k
    OBVIOUS
  <2>2. 2 ^ (k - l) = c + c
    BY <1>2, <2>1, Doubles
  <2>3. 2 ^ k = p * (c + c)
    BY <1>1, <2>1, <2>2, PowersMultiply
  <2>4. p * (c + c) = (c + c) * p
    BY <1>1
  <2> QED
    BY <2>3, <2>4
<1>4. PICK q \in Int, r \in 0..p - 1 : i = q * p + r /\ i \div p = q
  BY Division
<1>5. 2 ^ k + i = ((c + c) + q) * p + r
  <2>1. ((c + c) + q) * p = (c + c) * p + q * p
    OBVIOUS
  <2>2. (c + c) * p \in Int /\ q * p \in Int
    OBVIOUS
  <2> QED
    BY <1>3, <1>4, <2>1, <2>2
<1>6. (2 ^ k + i) \div p = (c + c) + q
  <2>1. (c + c) + q \in Int
    OBVIOUS
  <2> QED
    BY <1>5, <2>1, DivisionUnique
<1>7. ((c + c) + q) % 2 = q % 2
  OBVIOUS
<1> QED
  BY <1>1, <1>4, <1>6, <1>7 DEF Bit

\* The reversed bits of an index and of the one with the next bit set.
LEMMA ReversedNext ==
  ASSUME NEW k \in Nat, NEW i \in 0..2 ^ k - 1
  PROVE  /\ Reversed(i, k + 1) = 2 * Reversed(i, k)
         /\ Reversed(2 ^ k + i, k + 1) = 2 * Reversed(i, k) + 1
<1>1. 2 ^ k \in Nat \ {0} /\ i \in Nat /\ 2 ^ k + i \in Nat
  BY Powers
<1>2. Bit(i, k) = 0 /\ Bit(2 ^ k + i, k) = 1
  <2>1. PICK p \in Nat \ {0} : p = 2 ^ k /\ i \in 0..p - 1
    BY <1>1
  <2>2. (0 * p + i) \div p = 0 /\ (1 * p + i) \div p = 1
    BY <2>1, DivisionUnique
  <2>3. 0 * p + i = i /\ 1 * p + i = p + i
    BY <2>1
  <2>4. i \div p = 0 /\ (p + i) \div p = 1
    BY <2>2, <2>3
  <2>5. 0 % 2 = 0 /\ 1 % 2 = 1
    OBVIOUS
  <2> QED
    BY <2>1, <2>4, <2>5 DEF Bit
<1> DEFINE S == {l \in Nat : l <= k => Reversed(2 ^ k + i, l) = Reversed(i, l)}
<1>3. 0 \in S
  BY <1>1, ReversedSteps
<1>4. ASSUME NEW l \in Nat, l \in S PROVE l + 1 \in S
  <2>1. SUFFICES ASSUME l + 1 <= k PROVE Reversed(2 ^ k + i, l + 1) = Reversed(i, l + 1)
    OBVIOUS
  <2>2. l < k /\ Reversed(2 ^ k + i, l) = Reversed(i, l)
    BY <1>4, <2>1
  <2>3. Bit(2 ^ k + i, l) = Bit(i, l)
    BY <1>1, <2>2, LowBits
  <2> QED
    BY <1>1, <2>2, <2>3, ReversedSteps
<1>5. \A l \in Nat : l \in S
  <2> HIDE DEF S
  <2> QED
    BY <1>3, <1>4, Induction
<1>6. Reversed(2 ^ k + i, k) = Reversed(i, k)
  BY <1>5
<1>7. Reversed(i, k) \in Nat
  BY <1>1, ReversedSteps
<1> QED
  BY <1>1, <1>2, <1>6, <1>7, ReversedSteps

\* Reversed bits are an index again.
LEMMA ReversedIsIndex ==
  ASSUME NEW j \in Nat
  PROVE  \A k \in Nat : Reversed(j, k) \in 0..2 ^ k - 1
<1> DEFINE S == {k \in Nat : Reversed(j, k) \in 0..2 ^ k - 1}
<1>1. 0 \in S
  BY Powers, ReversedSteps
<1>2. ASSUME NEW k \in Nat, k \in S PROVE k + 1 \in S
  <2>1. PICK p \in Nat : p = 2 ^ k /\ 2 ^ (k + 1) = p + p
    BY Powers, Doubles
  <2>2. PICK r \in 0..p - 1 : r = Reversed(j, k)
    BY <1>2, <2>1
  <2>3. PICK b \in {0, 1} : b = Bit(j, k)
    BY Bits
  <2>4. Reversed(j, k + 1) = 2 * r + b
    BY <2>2, <2>3, ReversedSteps
  <2>5. 2 * r + b \in 0..(p + p) - 1
    BY <2>1
  <2> QED
    BY <2>1, <2>4, <2>5
<1>3. \A k \in Nat : k \in S
  <2> HIDE DEF S
  <2> QED
    BY <1>1, <1>2, Induction
<1> QED
  BY <1>3

\* A sum of the terms at even places and those at odd ones.
LEMMA SumPairs ==
  ASSUME NEW f \in Terms, NEW even \in Terms, NEW odd \in Terms,
         \A i \in Nat : even[i] = f[2 * i] /\ odd[i] = f[2 * i + 1]
  PROVE  \A n \in Nat : Sum(f, n + n) = Sum(even, n) + Sum(odd, n)
<1> DEFINE S == {n \in Nat : Sum(f, n + n) = Sum(even, n) + Sum(odd, n)}
<1>1. 0 \in S
  BY SumSteps
<1>2. ASSUME NEW n \in Nat, n \in S PROVE n + 1 \in S
  <2>1. /\ (n + 1) + (n + 1) = ((n + n) + 1) + 1 /\ n + n \in Nat /\ (n + n) + 1 \in Nat
        /\ 2 * n = n + n
    OBVIOUS
  <2>2. /\ Sum(f, ((n + n) + 1) + 1) = Sum(f, (n + n) + 1) + f[(n + n) + 1]
        /\ Sum(f, (n + n) + 1) = Sum(f, n + n) + f[n + n]
    BY <2>1, SumSteps
  <2>3. /\ Sum(even, n + 1) = Sum(even, n) + f[n + n]
        /\ Sum(odd, n + 1) = Sum(odd, n) + f[(n + n) + 1]
    <3>1. even[n] = f[n + n] /\ odd[n] = f[(n + n) + 1]
      BY <2>1
    <3>2. /\ Sum(even, n + 1) = Sum(even, n) + even[n]
          /\ Sum(odd, n + 1) = Sum(odd, n) + odd[n]
      BY SumSteps
    <3> QED
      BY <3>1, <3>2
  <2>4. /\ Sum(even, n) \in Int /\ Sum(odd, n) \in Int
        /\ f[n + n] \in Int /\ f[(n + n) + 1] \in Int
    BY <2>1, SumSteps DEF Terms
  <2> QED
    BY <1>2, <2>1, <2>2, <2>3, <2>4
<1>3. \A n \in Nat : n \in S
  <2> HIDE DEF S
  <2> QED
    BY <1>1, <1>2, Induction
<1> QED
  BY <1>3

\* Reversing the bits of the indices permutes the terms of a sum.
LEMMA SumReversed ==
  \A k \in Nat : \A f, r \in Terms :
    (\A j \in 0..2 ^ k - 1 : r[j] = f[Reversed(j, k)]) => Sum(r, 2 ^ k) = Sum(f, 2 ^ k)
<1> DEFINE S == {k \in Nat : \A f, r \in Terms :
                   (\A j \in 0..2 ^ k - 1 : r[j] = f[Reversed(j, k)]) =>
                     Sum(r, 2 ^ k) = Sum(f, 2 ^ k)}
<1>1. 0 \in S
  <2>1. SUFFICES ASSUME NEW f \in Terms, NEW r \in Terms,
                        \A j \in 0..2 ^ 0 - 1 : r[j] = f[Reversed(j, 0)]
                 PROVE  Sum(r, 2 ^ 0) = Sum(f, 2 ^ 0)
    OBVIOUS
  <2>2. r[0] = f[0]
    <3>1. 2 ^ 0 = 1 /\ Reversed(0, 0) = 0
      BY Powers, ReversedSteps
    <3>2. 0 \in 0..2 ^ 0 - 1
      BY <3>1
    <3> QED
      BY <2>1, <3>1, <3>2
  <2>3. Sum(r, 0 + 1) = Sum(r, 0) + r[0] /\ Sum(f, 0 + 1) = Sum(f, 0) + f[0]
        /\ Sum(r, 0) = 0 /\ Sum(f, 0) = 0
    BY SumSteps
  <2> QED
    BY <2>2, <2>3, Powers
<1>2. ASSUME NEW k \in Nat, k \in S PROVE k + 1 \in S
  <2>1. SUFFICES ASSUME NEW f \in Terms, NEW r \in Terms,
                        \A j \in 0..2 ^ (k + 1) - 1 : r[j] = f[Reversed(j, k + 1)]
                 PROVE  Sum(r, 2 ^ (k + 1)) = Sum(f, 2 ^ (k + 1))
    OBVIOUS
  <2>2. 2 ^ k \in Nat \ {0} /\ 2 ^ (k + 1) = 2 ^ k + 2 ^ k
    BY Powers, Doubles
  <2> DEFINE even == [i \in Nat |-> f[2 * i]]
             odd == [i \in Nat |-> f[2 * i + 1]]
             late == [i \in Nat |-> r[2 ^ k + i]]
  <2>3. /\ even \in Terms /\ odd \in Terms
        /\ \A i \in Nat : even[i] = f[2 * i] /\ odd[i] = f[2 * i + 1]
    <3>1. \A i \in Nat : f[2 * i] \in Int /\ f[2 * i + 1] \in Int
      BY DEF Terms
    <3> QED
      BY <3>1 DEF Terms
  <2>4. late \in Terms /\ \A i \in Nat : late[i] = r[2 ^ k + i]
    <3>1. \A i \in Nat : r[2 ^ k + i] \in Int
      BY <2>2 DEF Terms
    <3> QED
      BY <3>1 DEF Terms
  <2> HIDE DEF even, odd, late
  <2>5. ASSUME NEW i \in 0..2 ^ k - 1
        PROVE  r[i] = even[Reversed(i, k)] /\ late[i] = odd[Reversed(i, k)]
    <3>1. i \in Nat /\ i \in 0..2 ^ (k + 1) - 1 /\ 2 ^ k + i \in 0..2 ^ (k + 1) - 1
      BY <2>2
    <3>2. /\ Reversed(i, k + 1) = 2 * Reversed(i, k)
          /\ Reversed(2 ^ k + i, k + 1) = 2 * Reversed(i, k) + 1
          /\ Reversed(i, k) \in Nat
      BY <3>1, ReversedNext, ReversedSteps
    <3>3. r[i] = f[2 * Reversed(i, k)] /\ r[2 ^ k + i] = f[2 * Reversed(i, k) + 1]
      BY <2>1, <3>1, <3>2
    <3> QED
      BY <2>3, <2>4, <3>1, <3>2, <3>3
  <2>6. Sum(r, 2 ^ k) = Sum(even, 2 ^ k)
    BY <1>2, <2>3, <2>5
  <2>7. Sum(late, 2 ^ k) = Sum(odd, 2 ^ k)
    BY <1>2, <2>3, <2>4, <2>5
  <2>8. Sum(r, 2 ^ k + 2 ^ k) = Sum(r, 2 ^ k) + Sum(late, 2 ^ k)
    BY <2>2, <2>4, SumSplits
  <2>9. Sum(f, 2 ^ k + 2 ^ k) = Sum(even, 2 ^ k) + Sum(odd, 2 ^ k)
    <3>1. \A n \in Nat : Sum(f, n + n) = Sum(even, n) + Sum(odd, n)
      BY <2>3, SumPairs
    <3> QED
      BY <2>2, <3>1
  <2> QED
    BY <2>2, <2>6, <2>7, <2>8, <2>9
<1>3. \A k \in Nat : k \in S
  <2> HIDE DEF S
  <2> QED
    BY <1>1, <1>2, Induction
<1> QED
  BY <1>3
-----------------------------------------------------------------------------
(* Roots of unity.                                                         *)

\* The lengths of vectors that there is a code for.
CodeLength(n) == n \in Nat \ {0} /\ IsPowerOfTwo(n) /\ (MODULUS - 1) % n = 0

LEMMA ShapesAreCodeLengths ==
  ASSUME NEW shape \in Shapes
  PROVE  CodeLength(shape.enc) /\ shape.pre \in Nat \ {0} /\ shape.pre < shape.enc
BY ShapesAssumption, EncodingAssumption DEF CodeLength

LEMMA CodeLengthFits ==
  ASSUME NEW n, CodeLength(n)
  PROVE  /\ n \in Field /\ n # 0
         /\ \E q \in Nat \ {0} : q = (MODULUS - 1) \div n /\ q * n = MODULUS - 1
         /\ \E k \in Nat : n = 2 ^ k
<1>1. MODULUS \in Nat /\ MODULUS > 1 /\ n \in Nat \ {0}
  BY ModulusIsPositive DEF CodeLength
<1>2. PICK q \in Int : q = (MODULUS - 1) \div n /\ MODULUS - 1 = q * n + 0
  <2>1. MODULUS - 1 = ((MODULUS - 1) \div n) * n + ((MODULUS - 1) % n)
        /\ (MODULUS - 1) \div n \in Int
    BY <1>1, Division
  <2>2. (MODULUS - 1) % n = 0
    BY DEF CodeLength
  <2> QED
    BY <2>1, <2>2
<1>3. q >= 1
  <2>1. SUFFICES ASSUME q <= 0 PROVE FALSE
    BY <1>2
  <2>2. q * n <= 0 * n
    BY <1>1, <1>2, <2>1, MultiplesGrow
  <2> QED
    BY <1>1, <1>2, <2>2
<1>4. n <= MODULUS - 1
  <2>1. 1 * n <= q * n
    BY <1>1, <1>2, <1>3, MultiplesGrow
  <2> QED
    BY <1>1, <1>2, <2>1
<1>5. n \in Field
  BY <1>1, <1>4 DEF Field
<1>6. \E k \in Nat : n = 2 ^ k
  BY <1>1 DEF CodeLength, IsPowerOfTwo
<1>7. q * n = MODULUS - 1 /\ q \in Nat \ {0}
  BY <1>1, <1>2, <1>3
<1> QED
  BY <1>1, <1>2, <1>5, <1>6, <1>7

\* The root has order n.
LEMMA RootOrder ==
  ASSUME NEW n, CodeLength(n)
  PROVE  /\ RootOfUnity(n) \in Field /\ RootOfUnity(n) # 0
         /\ Power(RootOfUnity(n), n) = 1
         /\ \A k \in 1..n - 1 : Power(RootOfUnity(n), k) # 1
<1>1. PICK q \in Nat \ {0} : q = (MODULUS - 1) \div n /\ q * n = MODULUS - 1
  BY CodeLengthFits
<1>2. n \in Nat \ {0} /\ GENERATOR \in Field
  BY Generates DEF CodeLength
<1>3. RootOfUnity(n) = Power(GENERATOR, q)
  BY <1>1 DEF RootOfUnity
<1>4. RootOfUnity(n) \in Field /\ RootOfUnity(n) # 0
  <2>1. PICK h \in Field : Times(Power(GENERATOR, q), h) = 1
    BY PowersHaveInverses
  <2>2. Times(0, h) = 0
    BY TimesRules
  <2> QED
    BY <1>2, <1>3, <2>1, <2>2, PowerTimes
<1>5. \A k \in Nat : Power(RootOfUnity(n), k) = Power(GENERATOR, q * k)
  BY <1>2, <1>3, PowerOfPower
<1>6. ASSUME NEW k \in 1..n - 1 PROVE Power(RootOfUnity(n), k) # 1
  <2>1. MODULUS \in Nat /\ MODULUS > 1 /\ k \in Nat
    BY <1>2, ModulusIsPositive
  <2>2. q * k \in 0..MODULUS - 2 /\ q * k # 0
    <3>1. 1 * q <= k * q
      BY <1>2, <2>1, MultiplesGrow
    <3>2. k * q <= (n - 1) * q
      BY <1>2, <2>1, MultiplesGrow
    <3>3. (n - 1) * q = q * n - q /\ k * q = q * k /\ q * k \in Int
      BY <1>2, <2>1
    <3> QED
      BY <1>1, <1>2, <2>1, <3>1, <3>2, <3>3
  <2>3. Power(GENERATOR, 0) = 1 /\ 0 \in 0..MODULUS - 2
    BY <1>2, <2>1, PowerTimes
  <2> QED
    BY <1>5, <2>1, <2>2, <2>3, PowersDiffer
<1> QED
  BY <1>1, <1>2, <1>4, <1>5, <1>6, GeneratorOrder

\* The powers of an element.
PowersOf(z) == [i \in Nat |-> Power(z, i)]

LEMMA PowersOfTerms ==
  ASSUME NEW z \in Field
  PROVE  PowersOf(z) \in Terms /\ \A i \in Nat : PowersOf(z)[i] = Power(z, i) /\ Power(z, i) \in Int
<1>1. \A i \in Nat : Power(z, i) \in Int
  BY PowerTimes, Reduced
<1> QED
  BY <1>1 DEF PowersOf, Terms

\* The sum of a geometric series.
LEMMA GeometricSum ==
  ASSUME NEW z \in Field
  PROVE  \A n \in Nat : Same((z - 1) * Sum(PowersOf(z), n), Power(z, n) - 1)
<1> DEFINE p == PowersOf(z)
           S == {n \in Nat : Same((z - 1) * Sum(p, n), Power(z, n) - 1)}
<1>1. p \in Terms /\ \A i \in Nat : p[i] = Power(z, i) /\ Power(z, i) \in Int
  BY PowersOfTerms
<1>2. z \in Int
  BY Reduced
<1> HIDE DEF p
<1>3. 0 \in S
  <2>1. Sum(p, 0) = 0 /\ Power(z, 0) = 1
    BY <1>1, SumSteps, PowerTimes
  <2>2. (z - 1) * 0 = 0 /\ 1 - 1 = 0
    BY <1>2
  <2> QED
    BY <2>1, <2>2 DEF Same
<1>4. ASSUME NEW n \in Nat, n \in S PROVE n + 1 \in S
  <2>1. PICK s \in Int : s = Sum(p, n)
    BY <1>1, SumSteps
  <2>2. PICK y \in Int : y = Power(z, n)
    BY <1>1
  <2>3. Sum(p, n + 1) = s + y
    BY <1>1, <2>1, <2>2, SumSteps
  <2>4. Same(Power(z, n + 1), z * y)
    BY <1>2, <2>2, PowerSteps, Reduced
  <2>5. (z - 1) * (s + y) = (z - 1) * s + (z * y - y)
    BY <1>2
  <2>6. Same((z - 1) * s, y - 1)
    BY <1>4, <2>1, <2>2
  <2>7. (z - 1) * s \in Int /\ z * y - y \in Int /\ y - 1 \in Int
        /\ z * y \in Int /\ Power(z, n + 1) \in Int /\ 1 \in Int
    BY <1>1, <1>2
  <2>8. Same((z - 1) * s + (z * y - y), (y - 1) + (z * y - y))
    BY <2>6, <2>7, SameRules
  <2>9. (y - 1) + (z * y - y) = z * y - 1
    BY <2>7
  <2>10. Same(z * y - 1, Power(z, n + 1) - 1)
    BY <2>4, <2>7, SameRules
  <2> QED
    BY <2>3, <2>5, <2>8, <2>9, <2>10 DEF Same
<1>5. \A n \in Nat : n \in S
  <2> HIDE DEF S
  <2> QED
    BY <1>3, <1>4, Induction
<1> QED
  BY <1>5 DEF p

\* The powers of a root of unity that is not one add up to zero.
LEMMA RootsCancel ==
  ASSUME NEW z \in Field, z # 1, NEW n \in Nat, Power(z, n) = 1
  PROVE  Same(Sum(PowersOf(z), n), 0)
<1>1. PICK s \in Int : s = Sum(PowersOf(z), n)
  BY PowersOfTerms, SumSteps
<1>2. z \in Int /\ z - 1 \in Int /\ (z - 1) * s \in Int
  BY Reduced, <1>1
<1>3. Same((z - 1) * s, 0)
  BY <1>1, GeometricSum
<1> DEFINE a == (z - 1) % MODULUS
           b == s % MODULUS
<1>4. a \in Field /\ b \in Field /\ Same(a, z - 1) /\ Same(b, s) /\ a \in Int /\ b \in Int
  <2>1. \A y \in Int : y % MODULUS \in Field /\ Same(y % MODULUS, y) /\ y % MODULUS \in Int
    BY Reduced
  <2> QED
    BY <1>1, <1>2, <2>1
<1>5. a # 0
  <2>1. SUFFICES ASSUME a = 0 PROVE FALSE
    OBVIOUS
  <2>2. Same(z - 1, 0)
    BY <2>1, <1>4, SameRules, <1>2
  <2>3. Same((z - 1) + 1, 0 + 1)
    BY <1>2, <2>2, SameRules
  <2>4. (z - 1) + 1 = z /\ 0 + 1 = 1
    BY <1>2
  <2> QED
    BY <2>3, <2>4, SameRules, TimesRules
<1>6. Times(a, b) = 0
  <2>1. Same(a * b, (z - 1) * s)
    BY <1>2, <1>4, SameRules
  <2>2. 0 % MODULUS = 0
    BY Reduced, TimesRules
  <2> QED
    BY <1>3, <2>1, <2>2 DEF Times, Same
<1> HIDE DEF a, b
<1>7. b = 0
  BY <1>4, <1>5, <1>6, NoZeroDivisors
<1> QED
  BY <1>1, <1>2, <1>4, <1>7, SameRules
-----------------------------------------------------------------------------
(* Sums and products of vectors.                                           *)

\* FieldSum is the sum of the elements.
LEMMA FieldSumIsSum ==
  ASSUME NEW e, NEW n \in Nat, Len(e) = n, NEW t \in Terms,
         \A i \in 0..n - 1 : e[i + 1] \in Int /\ Same(t[i], e[i + 1])
  PROVE  FieldSum(e) = Sum(t, n) % MODULUS
<1> DEFINE is(p) == p = [k \in 0..n |-> IF k = 0 THEN 0 ELSE (p[k - 1] + e[k]) % MODULUS]
           p0 == [k \in 0..n |-> Sum(t, k) % MODULUS]
<1>1. Sum(t, 0) % MODULUS = 0
  <2>1. 0 % MODULUS = 0
    BY Reduced, TimesRules
  <2> QED
    BY <2>1, SumSteps
<1>2. ASSUME NEW k \in 0..n - 1
      PROVE  Sum(t, k + 1) % MODULUS = ((Sum(t, k) % MODULUS) + e[k + 1]) % MODULUS
  <2>1. k \in Nat
    OBVIOUS
  <2>2. PICK s \in Int : s = Sum(t, k)
    BY <2>1, SumSteps
  <2>3. PICK a \in Int : a = t[k]
    BY <2>1 DEF Terms
  <2>4. PICK b \in Int : b = e[k + 1] /\ Same(a, b)
    BY <2>3
  <2>5. Sum(t, k + 1) = s + a
    BY <2>1, <2>2, <2>3, SumSteps
  <2>6. PICK r \in Int : r = s % MODULUS /\ Same(r, s)
    BY Reduced
  <2>7. Same(r + b, s + a)
    BY <2>4, <2>6, SameRules
  <2> QED
    BY <2>2, <2>4, <2>5, <2>6, <2>7 DEF Same
<1>3. is(p0)
  <2>1. ASSUME NEW k \in 0..n
        PROVE  Sum(t, k) % MODULUS = IF k = 0 THEN 0 ELSE (p0[k - 1] + e[k]) % MODULUS
    <3>1. CASE k = 0
      BY <1>1, <3>1
    <3>2. CASE k # 0
      <4>1. k - 1 \in 0..n - 1 /\ k - 1 \in 0..n /\ (k - 1) + 1 = k
        BY <3>2
      <4>2. p0[k - 1] = Sum(t, k - 1) % MODULUS
        BY <4>1
      <4> HIDE DEF p0
      <4> QED
        BY <1>2, <3>2, <4>1, <4>2
    <3> QED
      BY <3>1, <3>2
  <2> QED
    BY <2>1
<1>4. PICK p : is(p) /\ FieldSum(e) = p[n]
  <2>1. FieldSum(e) = (CHOOSE p : is(p))[n]
    BY DEF FieldSum
  <2> HIDE DEF is, p0
  <2> QED
    BY <1>3, <2>1
<1> HIDE DEF p0
<1> DEFINE S == {k \in Nat : k <= n => p[k] = Sum(t, k) % MODULUS}
<1>5. 0 \in S
  BY <1>1, <1>4
<1>6. ASSUME NEW k \in Nat, k \in S PROVE k + 1 \in S
  <2>1. SUFFICES ASSUME k + 1 <= n PROVE p[k + 1] = Sum(t, k + 1) % MODULUS
    OBVIOUS
  <2>2. /\ k + 1 \in 0..n /\ k + 1 # 0 /\ (k + 1) - 1 = k /\ k \in 0..n - 1
        /\ p[k] = Sum(t, k) % MODULUS
    BY <1>6, <2>1
  <2>3. p[k + 1] = (p[k] + e[k + 1]) % MODULUS
    BY <1>4, <2>2
  <2> QED
    BY <1>2, <2>2, <2>3
<1>7. \A k \in Nat : k \in S
  <2> HIDE DEF S
  <2> QED
    BY <1>5, <1>6, Induction
<1> QED
  BY <1>4, <1>7

\* A product of two vectors, the shorter of which has n elements.
IsProduct(t, u, v, n) ==
  /\ Lesser(Len(u), Len(v)) = n
  /\ \A i \in 0..n - 1 : /\ u[i + 1] \in Int /\ v[i + 1] \in Int
                         /\ Same(t[i], u[i + 1] * v[i + 1])

LEMMA ProductIsSum ==
  ASSUME NEW u, NEW v, NEW n \in Nat, NEW t \in Terms, IsProduct(t, u, v, n)
  PROVE  VectorMultiply(u, v) = Sum(t, n) % MODULUS
<1> DEFINE e == [i \in 1..n |-> u[i] * v[i]]
<1>1. Len(e) = n
  BY DEF IsProduct
<1>2. ASSUME NEW i \in 0..n - 1 PROVE e[i + 1] \in Int /\ Same(t[i], e[i + 1])
  <2>1. e[i + 1] = u[i + 1] * v[i + 1]
    OBVIOUS
  <2>2. \A a, b \in Int : a * b \in Int
    OBVIOUS
  <2>3. u[i + 1] \in Int /\ v[i + 1] \in Int /\ Same(t[i], u[i + 1] * v[i + 1])
    BY DEF IsProduct
  <2> QED
    BY <2>1, <2>2, <2>3
<1>3. VectorMultiply(u, v) = FieldSum(e)
  BY DEF VectorMultiply, IsProduct
<1> HIDE DEF e
<1> QED
  BY <1>1, <1>2, <1>3, FieldSumIsSum

\* Terms of a product, so that ProductIsSum can be used.
Products(u, v, n) == [i \in Nat |-> IF i < n THEN u[i + 1] * v[i + 1] ELSE 0]

LEMMA ProductTerms ==
  ASSUME NEW n \in Nat, NEW u, NEW v,
         \A i \in 0..n - 1 : u[i + 1] \in Int /\ v[i + 1] \in Int
  PROVE  /\ Products(u, v, n) \in Terms
         /\ \A i \in 0..n - 1 : Products(u, v, n)[i] = u[i + 1] * v[i + 1]
<1>1. \A i \in Nat : i < n => i \in 0..n - 1
  OBVIOUS
<1>2. \A i \in 0..n - 1 : u[i + 1] * v[i + 1] \in Int
  OBVIOUS
<1>3. \A i \in Nat : (IF i < n THEN u[i + 1] * v[i + 1] ELSE 0) \in Int
  BY <1>1, <1>2
<1> QED
  BY <1>3 DEF Products, Terms

\* A vector of n elements.
Vector(v, n) == v \in [1..n -> Field]

LEMMA VectorElements ==
  ASSUME NEW n \in Nat, NEW v, Vector(v, n)
  PROVE  Len(v) = n /\ DOMAIN v = 1..n /\ \A i \in 0..n - 1 : v[i + 1] \in Field /\ v[i + 1] \in Int
<1>1. DOMAIN v = 1..n /\ Len(v) = n
  BY DEF Vector
<1>2. \A i \in 0..n - 1 : i + 1 \in 1..n
  OBVIOUS
<1> QED
  BY <1>1, <1>2, Reduced DEF Vector

\* The value of a polynomial, from a degree on.
LEMMA ValueIsSum ==
  ASSUME NEW n \in Nat, NEW v, Vector(v, n), NEW x \in Field, NEW d \in Nat, NEW t \in Terms,
         \A i \in 0..n - 1 : Same(t[i], v[i + 1] * Power(x, d + i))
  PROVE  EvaluateFrom(v, x, d) = Sum(t, n) % MODULUS
<1> DEFINE powers == [i \in DOMAIN v |-> Power(x, d + i - 1)]
<1>1. Len(v) = n /\ DOMAIN v = 1..n /\ \A i \in 0..n - 1 : v[i + 1] \in Int
  BY VectorElements
<1>2. Len(powers) = n /\ \A i \in 0..n - 1 : powers[i + 1] = Power(x, d + i)
  <2>1. \A i \in 0..n - 1 : i + 1 \in 1..n /\ d + (i + 1) - 1 = d + i
    OBVIOUS
  <2> QED
    BY <1>1, <2>1
<1>3. \A i \in 0..n - 1 : powers[i + 1] \in Int
  <2>1. \A i \in 0..n - 1 : d + i \in Nat
    OBVIOUS
  <2> QED
    BY <1>2, <2>1, PowerTimes, Reduced
<1>4. EvaluateFrom(v, x, d) = VectorMultiply(v, powers)
  BY DEF EvaluateFrom
<1>5. Lesser(n, n) = n
  BY DEF Lesser
<1> HIDE DEF powers
<1>6. \A i \in 0..n - 1 : Same(t[i], v[i + 1] * powers[i + 1])
  BY <1>2
<1> QED
  BY <1>1, <1>2, <1>3, <1>4, <1>5, <1>6, ProductIsSum DEF IsProduct

\* The value of a polynomial is an element.
LEMMA ValueInField ==
  ASSUME NEW n \in Nat, NEW v, Vector(v, n), NEW x \in Field, NEW d \in Nat
  PROVE  EvaluateFrom(v, x, d) \in Field
<1> DEFINE t == [i \in Nat |-> IF i < n THEN v[i + 1] * Power(x, d + i) ELSE 0]
<1>1. t \in Terms /\ \A i \in 0..n - 1 : t[i] = v[i + 1] * Power(x, d + i)
  <2>1. \A i \in Nat : i < n => i \in 0..n - 1 /\ d + i \in Nat
    OBVIOUS
  <2>2. \A i \in Nat : i < n => v[i + 1] \in Int /\ Power(x, d + i) \in Int
    <3>1. \A i \in 0..n - 1 : v[i + 1] \in Int
      BY VectorElements
    <3>2. \A k \in Nat : Power(x, k) \in Int
      BY PowerTimes, Reduced
    <3> QED
      BY <2>1, <3>1, <3>2
  <2>3. \A i \in Nat : (IF i < n THEN v[i + 1] * Power(x, d + i) ELSE 0) \in Int
    <3>1. \A a, b \in Int : a * b \in Int
      OBVIOUS
    <3> QED
      BY <2>2, <3>1
  <2> QED
    BY <2>3 DEF Terms
<1> HIDE DEF t
<1>2. EvaluateFrom(v, x, d) = Sum(t, n) % MODULUS
  BY <1>1, ValueIsSum DEF Same
<1>3. Sum(t, n) \in Int
  BY <1>1, SumSteps
<1> QED
  BY <1>2, <1>3, Reduced
-----------------------------------------------------------------------------
(* Encoding and decoding.                                                  *)

\* A row is encoded to its values at the roots of unity.
LEMMA EncodedVector ==
  ASSUME NEW n, CodeLength(n), NEW k \in Nat, n = 2 ^ k, NEW v, Vector(v, n)
  PROVE  /\ Vector(Encode(v), n)
         /\ \A j \in 0..n - 1 :
              /\ Reversed(j, k) \in 0..n - 1
              /\ Encode(v)[j + 1] = EvaluateFrom(v, Power(RootOfUnity(n), Reversed(j, k)), 0)
<1> DEFINE w == RootOfUnity(n)
           value(j) == EvaluateFrom(v, Power(w, BitReverse(j - 1, n)), 0)
<1>1. n \in Nat \ {0} /\ w \in Field
  BY RootOrder DEF CodeLength
<1>2. Encode(v) = [j \in 1..n |-> value(j)]
  <2>1. Len(v) = n
    BY <1>1, VectorElements
  <2> QED
    BY <2>1 DEF Encode, Evaluate
<1>3. ASSUME NEW j \in 0..n - 1
      PROVE  /\ j + 1 \in 1..n
             /\ Reversed(j, k) \in 0..n - 1
             /\ value(j + 1) = EvaluateFrom(v, Power(w, Reversed(j, k)), 0)
             /\ value(j + 1) \in Field
  <2>1. j \in Nat /\ j + 1 \in 1..n /\ (j + 1) - 1 = j
    BY <1>1
  <2>2. Reversed(j, k) \in 0..n - 1 /\ Reversed(j, k) \in Nat
    BY <2>1, ReversedIsIndex, ReversedSteps
  <2>3. BitReverse((j + 1) - 1, n) = Reversed(j, k)
    BY <2>1, BitReverses
  <2>4. Power(w, Reversed(j, k)) \in Field
    BY <1>1, <2>2, PowerTimes
  <2>5. EvaluateFrom(v, Power(w, Reversed(j, k)), 0) \in Field
    BY <1>1, <2>4, ValueInField
  <2> QED
    BY <2>1, <2>2, <2>3, <2>5
<1> HIDE DEF value, w
<1>4. \A j \in 1..n : value(j) \in Field
  <2>1. \A j \in 1..n : j - 1 \in 0..n - 1 /\ (j - 1) + 1 = j
    BY <1>1
  <2> QED
    BY <1>3, <2>1
<1>5. Vector(Encode(v), n)
  BY <1>2, <1>4 DEF Vector
<1>6. \A j \in 0..n - 1 : Encode(v)[j + 1] = EvaluateFrom(v, Power(w, Reversed(j, k)), 0)
  BY <1>2, <1>3
<1> QED
  BY <1>3, <1>5, <1>6 DEF w

\* The rows of the matrix that decodes, and those of the one that encodes.
LEMMA Orthogonal ==
  ASSUME NEW n, CodeLength(n), NEW r \in Field, Times(RootOfUnity(n), r) = 1,
         NEW t \in 0..n - 1, NEW a \in 0..n - 1,
         NEW z, z = Times(Power(RootOfUnity(n), t), Power(r, a))
  PROVE  /\ z \in Field
         /\ Same(Sum(PowersOf(z), n), IF t = a THEN n ELSE 0)
<1> DEFINE w == RootOfUnity(n)
<1>1. n \in Nat \ {0} /\ w \in Field /\ Power(w, n) = 1 /\ t \in Nat /\ a \in Nat
  BY RootOrder DEF CodeLength
<1>2. \A k \in 1..n - 1 : Power(w, k) # 1
  BY RootOrder
<1>3. Times(w, r) = 1
  OBVIOUS
<1>4. z = Times(Power(w, t), Power(r, a))
  OBVIOUS
<1> HIDE DEF w
<1>5. \A k \in Nat : Times(Power(w, k), Power(r, k)) = 1 /\ Power(w, k) \in Field /\ Power(r, k) \in Field
  <2>1. TAKE k \in Nat
  <2>2. Power(Times(w, r), k) = Times(Power(w, k), Power(r, k))
    BY <1>1, PowerOfProduct
  <2>3. Power(1, k) = 1 /\ Power(w, k) \in Field /\ Power(r, k) \in Field
    BY <1>1, PowerOfOne, PowerTimes
  <2> QED
    BY <1>3, <2>2, <2>3
<1>6. z \in Field
  BY <1>1, <1>4, <1>5, TimesRules
<1>7. CASE t = a
  <2>1. z = 1
    BY <1>1, <1>4, <1>5, <1>7
  <2> DEFINE p == PowersOf(z)
             S == {m \in Nat : Sum(p, m) = m}
  <2>2. p \in Terms /\ \A i \in Nat : p[i] = 1
    BY <1>6, <2>1, PowersOfTerms, PowerOfOne
  <2> HIDE DEF p
  <2>3. 0 \in S
    BY <2>2, SumSteps
  <2>4. ASSUME NEW m \in Nat, m \in S PROVE m + 1 \in S
    BY <2>2, <2>4, SumSteps
  <2>5. \A m \in Nat : m \in S
    <3> HIDE DEF S
    <3> QED
      BY <2>3, <2>4, Induction
  <2> QED
    BY <1>1, <1>6, <1>7, <2>5 DEF p, Same
<1>8. CASE t # a
  <2>1. z # 1
    <3>1. SUFFICES ASSUME z = 1 PROVE FALSE
      OBVIOUS
    <3>2. Power(w, t) = Power(w, a)
      <4>1. Times(z, Power(w, a)) = Times(Power(w, t), Times(Power(r, a), Power(w, a)))
        BY <1>1, <1>4, <1>5, TimesRules
      <4>2. Times(Power(r, a), Power(w, a)) = 1
        BY <1>1, <1>5, TimesRules
      <4> QED
        BY <1>1, <1>5, <3>1, <4>1, <4>2, TimesRules
    <3>3. ASSUME NEW i \in 0..n - 1, NEW j \in 0..n - 1, i < j, Power(w, i) = Power(w, j) PROVE FALSE
      <4>1. i \in Nat /\ j - i \in Nat /\ i + (j - i) = j /\ j - i \in 1..n - 1
        BY <1>1, <3>3
      <4>2. Times(Power(w, i), Power(w, j - i)) = Power(w, i)
        BY <1>1, <3>3, <4>1, PowerOfSum
      <4>3. /\ Power(w, i) \in Field /\ Power(r, i) \in Field /\ Power(w, j - i) \in Field
            /\ Times(Power(w, i), Power(r, i)) = 1
        BY <1>5, <4>1
      <4>4. Power(w, j - i) = 1
        BY <4>2, <4>3, Cancelled
      <4> QED
        BY <1>2, <4>1, <4>4
    <3>4. t < a \/ a < t
      BY <1>1, <1>8
    <3> QED
      BY <3>2, <3>3, <3>4
  <2>2. Power(z, n) = 1
    <3>1. Power(z, n) = Times(Power(Power(w, t), n), Power(Power(r, a), n))
      BY <1>1, <1>4, <1>5, PowerOfProduct
    <3>2. Power(Power(w, t), n) = 1
      <4>1. Power(Power(w, t), n) = Power(w, t * n) /\ Power(Power(w, n), t) = Power(w, n * t)
        BY <1>1, PowerOfPower
      <4>2. t * n = n * t
        BY <1>1
      <4> QED
        BY <1>1, <4>1, <4>2, PowerOfOne
    <3>3. Power(r, n) = 1
      BY <1>1, <1>5, TimesRules
    <3>4. Power(Power(r, a), n) = 1
      <4>1. Power(Power(r, a), n) = Power(r, a * n) /\ Power(Power(r, n), a) = Power(r, n * a)
        BY <1>1, PowerOfPower
      <4>2. a * n = n * a
        BY <1>1
      <4> QED
        BY <1>1, <3>3, <4>1, <4>2, PowerOfOne
    <3> QED
      BY <3>1, <3>2, <3>4, TimesRules
  <2> QED
    BY <1>1, <1>6, <1>8, <2>1, <2>2, RootsCancel
<1> QED
  BY <1>6, <1>7, <1>8
\* A product with zeros, and with one.
LEMMA Factors ==
  ASSUME NEW c \in Int, NEW s \in Int
  PROVE  /\ Same(s, 0) => Same(c * s, 0)
         /\ \A d \in Int : Same(s, d) => Same(c * s, c * d)
<1>1. Same(c, c) /\ c * 0 = 0 /\ 0 \in Int
  BY SameRules
<1> QED
  BY <1>1, SameOperations

\* One value of the encoding, times a power: what a term of the decoded sum is.
LEMMA DecodedTerm ==
  ASSUME NEW n \in Nat, NEW v, Vector(v, n), NEW w \in Field, NEW r \in Field, NEW a \in Nat,
         NEW b \in Nat, NEW h \in Terms,
         \A t \in 0..n - 1 : h[t] = v[t + 1] * Power(Times(Power(w, t), Power(r, a)), b)
  PROVE  Same(EvaluateFrom(v, Power(w, b), 0) * Power(Power(r, a), b), Sum(h, n))
<1> DEFINE x == Power(w, b)
           c == Power(Power(r, a), b)
           e == [t \in Nat |-> IF t < n THEN v[t + 1] * Power(x, t) ELSE 0]
           ce == [t \in Nat |-> c * e[t]]
<1>1. x \in Field /\ Power(r, a) \in Field /\ c \in Field /\ c \in Int
  <2>1. x \in Field /\ Power(r, a) \in Field
    BY PowerTimes
  <2>2. c \in Field
    BY <2>1, PowerTimes
  <2> QED
    BY <2>1, <2>2, Reduced
<1>2. \A t \in 0..n - 1 : v[t + 1] \in Int
  BY VectorElements
<1>3. \A t \in Nat : Power(x, t) \in Int
  BY <1>1, PowerTimes, Reduced
<1>4. \A p, q \in Int : p * q \in Int
  OBVIOUS
<1> HIDE DEF x, c
<1>5. /\ e \in Terms
      /\ \A t \in 0..n - 1 : e[t] = v[t + 1] * Power(x, t)
  <2>1. \A t \in Nat : t < n => t \in 0..n - 1
    OBVIOUS
  <2>2. \A t \in Nat : (IF t < n THEN v[t + 1] * Power(x, t) ELSE 0) \in Int
    BY <1>2, <1>3, <1>4, <2>1
  <2> QED
    BY <2>2 DEF Terms
<1> HIDE DEF e
<1>6. ce \in Terms /\ \A t \in Nat : ce[t] = c * e[t]
  <2>1. \A t \in Nat : c * e[t] \in Int
    BY <1>1, <1>5, <1>4 DEF Terms
  <2> QED
    BY <2>1 DEF Terms
<1> HIDE DEF ce
<1>7. Sum(ce, n) = c * Sum(e, n)
  BY <1>1, <1>5, <1>6, SumScales
<1>8. EvaluateFrom(v, x, 0) = Sum(e, n) % MODULUS
  <2>1. \A t \in 0..n - 1 : 0 + t = t
    OBVIOUS
  <2>2. \A t \in 0..n - 1 : Same(e[t], v[t + 1] * Power(x, 0 + t))
    BY <1>5, <2>1 DEF Same
  <2> QED
    BY <1>1, <1>5, <2>2, ValueIsSum
<1>9. ASSUME NEW t \in 0..n - 1 PROVE Same(ce[t], h[t])
  <2>1. t \in Nat
    OBVIOUS
  <2>2. Power(Times(Power(w, t), Power(r, a)), b) = Times(Power(x, t), c)
    <3>1. Power(w, t) \in Field
      BY <2>1, PowerTimes
    <3>2. Power(Times(Power(w, t), Power(r, a)), b) = Times(Power(Power(w, t), b), c)
      BY <1>1, <3>1, PowerOfProduct DEF c
    <3>3. Power(Power(w, t), b) = Power(w, t * b) /\ Power(x, t) = Power(w, b * t)
      BY <2>1, PowerOfPower DEF x
    <3>4. t * b = b * t
      BY <2>1
    <3> QED
      BY <3>2, <3>3, <3>4
  <2>3. PICK p \in Int : p = Power(x, t)
    BY <1>3, <2>1
  <2>4. PICK y \in Int : y = v[t + 1]
    BY <1>2
  <2>5. Same(Times(p, c), p * c) /\ Times(p, c) \in Int /\ p * c \in Int
    <3>1. PICK m \in Int : m = p * c
      BY <1>1
    <3>2. m % MODULUS \in Int /\ Same(m % MODULUS, m)
      BY Reduced
    <3> QED
      BY <3>1, <3>2 DEF Times
  <2>6. h[t] = y * Times(p, c) /\ ce[t] = c * (y * p)
    BY <1>5, <1>6, <2>1, <2>2, <2>3, <2>4
  <2>7. Same(y * Times(p, c), y * (p * c))
    BY <2>5, Factors
  <2>8. y * (p * c) = c * (y * p)
    BY <1>1
  <2> QED
    BY <2>6, <2>7, <2>8 DEF Same
<1>10. Same(Sum(ce, n), Sum(h, n))
  BY <1>6, <1>9, SumSame
<1>11. PICK s \in Int : s = Sum(e, n)
  BY <1>5, SumSteps
<1>12. PICK m \in Int : m = s % MODULUS /\ Same(m, s)
  BY Reduced
<1>13. Same(m * c, s * c)
  BY <1>1, <1>12, SameRules
<1>14. s * c = c * s
  BY <1>1
<1> QED
  BY <1>7, <1>8, <1>10, <1>11, <1>12, <1>13, <1>14 DEF Same, x, c

\* The sum that decodes one element of an encoded vector is that element, n times.
LEMMA DecodedSum ==
  ASSUME NEW n, CodeLength(n), NEW v, Vector(v, n), NEW r \in Field,
         Times(RootOfUnity(n), r) = 1, NEW a \in 0..n - 1
  PROVE  VectorMultiply(Encode(v), [j \in 1..n |-> Power(Power(r, a), BitReverse(j - 1, n))])
           = (v[a + 1] * n) % MODULUS
<1> DEFINE w == RootOfUnity(n)
           z(t) == Times(Power(w, t), Power(r, a))
           F == [b \in Nat |-> [t \in Nat |-> IF t < n THEN v[t + 1] * Power(z(t), b) ELSE 0]]
           G == [t \in Nat |-> [b \in Nat |-> F[b][t]]]
           H == [b \in Nat |-> Sum(F[b], n)]
           K == [t \in Nat |-> Sum(G[t], n)]
<1>1. PICK k \in Nat : n = 2 ^ k
  BY CodeLengthFits
<1>2. n \in Nat \ {0} /\ w \in Field /\ a \in Nat
  BY RootOrder DEF CodeLength
<1>3. \A t \in 0..n - 1 : v[t + 1] \in Int
  BY <1>2, VectorElements
<1>4. \A t \in Nat : z(t) \in Field
  BY <1>2, PowerTimes, TimesRules
<1>5. \A p, q \in Int : p * q \in Int
  OBVIOUS
<1>6. \A t \in Nat : t < n => t \in 0..n - 1
  BY <1>2
<1>7. \A t \in Nat : z(t) = Times(Power(w, t), Power(r, a))
  OBVIOUS
<1> HIDE DEF w, z
<1>8. /\ F \in [Nat -> Terms]
      /\ \A b, t \in Nat : F[b][t] = IF t < n THEN v[t + 1] * Power(z(t), b) ELSE 0
  <2>1. \A b, t \in Nat : Power(z(t), b) \in Int
    BY <1>4, PowerTimes, Reduced
  <2>2. \A b, t \in Nat : (IF t < n THEN v[t + 1] * Power(z(t), b) ELSE 0) \in Int
    BY <1>3, <1>5, <1>6, <2>1
  <2>3. \A b \in Nat : [t \in Nat |-> IF t < n THEN v[t + 1] * Power(z(t), b) ELSE 0] \in Terms
    BY <2>2 DEF Terms
  <2> QED
    BY <2>3
<1> HIDE DEF F
<1>9. G \in [Nat -> Terms] /\ \A b, t \in Nat : G[t][b] = F[b][t]
  <2>1. \A b, t \in Nat : F[b][t] \in Int
    BY <1>8 DEF Terms
  <2>2. \A t \in Nat : [b \in Nat |-> F[b][t]] \in Terms
    BY <2>1 DEF Terms
  <2> QED
    BY <2>2
<1> HIDE DEF G
<1>10. H \in Terms /\ \A b \in Nat : H[b] = Sum(F[b], n)
  <2>1. \A b \in Nat : Sum(F[b], n) \in Int
    BY <1>2, <1>8, SumSteps
  <2> QED
    BY <2>1 DEF Terms
<1>11. K \in Terms /\ \A t \in Nat : K[t] = Sum(G[t], n)
  <2>1. \A t \in Nat : Sum(G[t], n) \in Int
    BY <1>2, <1>9, SumSteps
  <2> QED
    BY <2>1 DEF Terms
<1> HIDE DEF H, K
<1>12. n \in Nat
  BY <1>2
<1>13. Sum(H, n) = Sum(K, n)
  <2>1. Transposed(F, G)
    BY <1>9 DEF Transposed
  <2>2. SumsOf(H, F, n) /\ SumsOf(K, G, n)
    BY <1>10, <1>11 DEF SumsOf
  <2> QED
    BY <1>12, <1>8, <1>9, <1>10, <1>11, <2>1, <2>2, SumExchange
<1>14. Same(Sum(K, n), v[a + 1] * n)
  <2> DEFINE L == [t \in Nat |-> IF t = a THEN v[a + 1] * n ELSE 0]
  <2>1. L \in Terms /\ L[a] = v[a + 1] * n /\ \A t \in 0..n - 1 : t # a => L[t] = 0
    <3>1. v[a + 1] * n \in Int
      BY <1>2, <1>3, <1>5
    <3> QED
      BY <1>2, <3>1 DEF Terms
  <2> HIDE DEF L
  <2>2. ASSUME NEW t \in 0..n - 1 PROVE Same(K[t], L[t])
    <3>1. t \in Nat /\ t < n
      BY <1>2
    <3>2. PICK s \in Int : s = Sum(PowersOf(z(t)), n)
      BY <1>2, <1>4, <3>1, PowersOfTerms, SumSteps
    <3>3. PICK y \in Int : y = v[t + 1]
      BY <1>3
    <3>4. K[t] = y * s
      <4> DEFINE row == G[t]
                 p == PowersOf(z(t))
      <4>1. row \in Terms /\ p \in Terms
        BY <1>4, <1>9, <3>1, PowersOfTerms
      <4>2. \A b \in Nat : row[b] = y * p[b]
        BY <1>4, <1>8, <1>9, <3>1, <3>3, PowersOfTerms
      <4> HIDE DEF row, p
      <4>3. \A m \in Nat : Sum(row, m) = y * Sum(p, m)
        BY <3>3, <4>1, <4>2, SumScales
      <4> QED
        BY <1>2, <1>11, <3>1, <3>2, <4>3 DEF row, p
    <3>5. Same(s, IF t = a THEN n ELSE 0)
      BY <1>7, <3>1, <3>2, Orthogonal DEF w
    <3>6. Same(y * s, IF t = a THEN y * n ELSE 0)
      <4>1. n \in Int
        BY <1>2
      <4> QED
        BY <3>5, <4>1, Factors
    <3> QED
      BY <2>1, <3>3, <3>4, <3>6
  <2>3. Same(Sum(K, n), Sum(L, n))
    BY <1>2, <1>11, <2>1, <2>2, SumSame
  <2>4. Sum(L, n) = v[a + 1] * n
    BY <1>2, <2>1, SumSingle
  <2> QED
    BY <2>3, <2>4
<1> DEFINE R == [j \in Nat |-> H[Reversed(j, k)]]
           q == [j \in 1..n |-> Power(Power(r, a), BitReverse(j - 1, n))]
<1>15. R \in Terms /\ \A j \in Nat : R[j] = H[Reversed(j, k)]
  <2>1. \A j \in Nat : H[Reversed(j, k)] \in Int
    BY <1>10, ReversedSteps DEF Terms
  <2> QED
    BY <2>1 DEF Terms
<1>16. \A j \in 0..n - 1 : q[j + 1] = Power(Power(r, a), Reversed(j, k)) /\ Reversed(j, k) \in Nat
  <2>1. TAKE j \in 0..n - 1
  <2>2. j \in Nat /\ j + 1 \in 1..n /\ (j + 1) - 1 = j
    BY <1>2
  <2>3. BitReverse(j, n) = Reversed(j, k) /\ Reversed(j, k) \in Nat
    BY <1>1, <2>2, BitReverses, ReversedSteps
  <2> QED
    BY <2>2, <2>3
<1>17. Len(q) = n
  BY <1>2
<1> HIDE DEF R, q
<1>18. Sum(R, n) = Sum(H, n)
  BY <1>1, <1>10, <1>15, SumReversed
<1>19. /\ Len(Encode(v)) = n
       /\ \A j \in 0..n - 1 : /\ Encode(v)[j + 1] \in Int
                              /\ Encode(v)[j + 1] = EvaluateFrom(v, Power(w, Reversed(j, k)), 0)
  <2>1. /\ Vector(Encode(v), n)
        /\ \A j \in 0..n - 1 :
             Encode(v)[j + 1] = EvaluateFrom(v, Power(RootOfUnity(n), Reversed(j, k)), 0)
    BY <1>1, EncodedVector
  <2>2. Len(Encode(v)) = n /\ \A j \in 0..n - 1 : Encode(v)[j + 1] \in Int
    BY <1>2, <2>1, VectorElements
  <2> QED
    BY <2>1, <2>2 DEF w
<1>20. ASSUME NEW j \in 0..n - 1
       PROVE  q[j + 1] \in Int /\ Same(R[j], Encode(v)[j + 1] * q[j + 1])
  <2> DEFINE b == Reversed(j, k)
             h == F[b]
  <2>1. b \in Nat /\ j \in Nat /\ q[j + 1] = Power(Power(r, a), b)
    BY <1>16
  <2>2. Power(r, a) \in Field
    BY <1>2, PowerTimes
  <2>3. q[j + 1] \in Int
    BY <2>1, <2>2, PowerTimes, Reduced
  <2>4. Encode(v)[j + 1] = EvaluateFrom(v, Power(w, b), 0)
    BY <1>19
  <2>5. R[j] = Sum(h, n)
    BY <1>10, <1>15, <2>1
  <2>6. h \in Terms /\ \A t \in 0..n - 1 : h[t] = v[t + 1] * Power(Times(Power(w, t), Power(r, a)), b)
    <3>1. \A t \in 0..n - 1 : t \in Nat /\ t < n
      BY <1>2
    <3> QED
      BY <1>8, <1>7, <2>1, <3>1
  <2> HIDE DEF h, b
  <2>7. Same(Encode(v)[j + 1] * q[j + 1], R[j])
    BY <1>2, <2>1, <2>4, <2>5, <2>6, DecodedTerm
  <2> QED
    BY <2>3, <2>7 DEF Same
<1>21. VectorMultiply(Encode(v), q) = Sum(R, n) % MODULUS
  <2> DEFINE u == Encode(v)
  <2>1. Lesser(Len(u), Len(q)) = n
    BY <1>2, <1>17, <1>19 DEF Lesser
  <2>2. \A j \in 0..n - 1 : /\ u[j + 1] \in Int /\ q[j + 1] \in Int
                             /\ Same(R[j], u[j + 1] * q[j + 1])
    BY <1>19, <1>20
  <2>3. IsProduct(R, u, q, n)
    BY <2>1, <2>2 DEF IsProduct
  <2> HIDE DEF u
  <2>4. R \in Terms
    BY <1>15
  <2>5. VectorMultiply(u, q) = Sum(R, n) % MODULUS
    BY <1>12, <2>4, <2>3, ProductIsSum
  <2> QED
    BY <2>5 DEF u
<1> QED
  BY <1>13, <1>14, <1>18, <1>21 DEF Same, q

\* Decoding undoes encoding: a row comes back, whatever it is.
THEOREM DecodingUndoesEncoding ==
  ASSUME NEW n, CodeLength(n), NEW v, Vector(v, n)
  PROVE  Decode(Encode(v)) = v
<1> DEFINE r == FieldInverse(RootOfUnity(n))
           scale == FieldInverse(n % MODULUS)
           sum(i) == VectorMultiply(Encode(v),
                       [j \in 1..n |-> Power(Power(r, i - 1), BitReverse(j - 1, n))])
<1>1. n \in Nat \ {0} /\ n \in Field /\ n # 0 /\ RootOfUnity(n) \in Field /\ RootOfUnity(n) # 0
  BY CodeLengthFits, RootOrder DEF CodeLength
<1>2. r \in Field /\ Times(RootOfUnity(n), r) = 1
  BY <1>1, Inverts, TimesRules
<1>3. scale \in Field /\ Times(scale, n) = 1
  BY <1>1, Reduced, Inverts
<1>4. Len(Encode(v)) = n
  <2>1. PICK k \in Nat : n = 2 ^ k
    BY CodeLengthFits
  <2>2. Vector(Encode(v), n)
    BY <2>1, EncodedVector
  <2> QED
    BY <1>1, <2>2, VectorElements
<1>5. Decode(Encode(v)) = [i \in 1..n |-> (scale * sum(i)) % MODULUS]
  BY <1>4 DEF Decode
<1>6. ASSUME NEW i \in 1..n PROVE (scale * sum(i)) % MODULUS = v[i]
  <2>1. i - 1 \in 0..n - 1 /\ (i - 1) + 1 = i
    BY <1>1
  <2>2. sum(i) = Times(v[i], n)
    BY <1>2, <2>1, DecodedSum DEF Times
  <2>3. v[i] \in Field
    BY DEF Vector
  <2> HIDE DEF scale, sum
  <2>4. Times(scale, Times(v[i], n)) = v[i]
    <3>1. Times(v[i], n) = Times(n, v[i])
      BY <1>1, <2>3, TimesRules
    <3>2. Times(scale, Times(n, v[i])) = Times(Times(scale, n), v[i])
      <4>1. \A a, b, c \in Field : Times(Times(a, b), c) = Times(a, Times(b, c))
        BY TimesRules
      <4> QED
        BY <1>1, <1>3, <2>3, <4>1
    <3> QED
      BY <1>3, <2>3, <3>1, <3>2, TimesRules
  <2> QED
    BY <2>2, <2>4 DEF Times
<1> HIDE DEF scale, sum
<1>7. v = [i \in 1..n |-> v[i]]
  BY DEF Vector
<1> QED
  BY <1>5, <1>6, <1>7
-----------------------------------------------------------------------------
(* Bytes and elements.                                                     *)

LEMMA PlaceSteps ==
  /\ BYTE_CAPACITY \in Nat \ {0} /\ RADIX \in Nat \ {0}
  /\ Place[0] = 1
  /\ \A k \in 0..BYTE_CAPACITY - 1 : Place[k + 1] = RADIX * Place[k]
  /\ \A k \in 0..BYTE_CAPACITY : Place[k] \in Nat \ {0}
<1> DEFINE step == [pair \in Nat \X (Nat \ {0}) |-> RADIX * pair[2]]
           is(p) == p = [k \in 0..BYTE_CAPACITY |-> IF k = 0 THEN 1 ELSE RADIX * p[k - 1]]
<1>1. BYTE_CAPACITY \in Nat \ {0} /\ RADIX \in Nat \ {0}
  BY CapacityAssumption, BytesAssumption
<1>2. step \in [Nat \X (Nat \ {0}) -> Nat \ {0}]
  <2>1. \A y \in Nat \ {0} : RADIX * y \in Nat \ {0}
    BY <1>1
  <2> QED
    BY <2>1
<1>3. \A n \in Nat, y \in Nat \ {0} : step[<<n, y>>] = RADIX * y
  OBVIOUS
<1> HIDE DEF step
<1>4. PICK f \in [Nat -> Nat \ {0}] : Runs(f, 1, step)
  <2>1. 1 \in Nat \ {0}
    OBVIOUS
  <2> QED
    BY <1>2, <2>1, Recursion
<1>5. f[0] = 1 /\ \A n \in Nat : f[n] \in Nat \ {0} /\ f[n + 1] = RADIX * f[n]
  BY <1>3, <1>4 DEF Runs
<1> DEFINE p0 == [k \in 0..BYTE_CAPACITY |-> f[k]]
<1>6. is(p0)
  <2>1. ASSUME NEW k \in 0..BYTE_CAPACITY
        PROVE  f[k] = IF k = 0 THEN 1 ELSE RADIX * p0[k - 1]
    <3>1. CASE k = 0
      BY <1>5, <3>1
    <3>2. CASE k # 0
      <4>1. k - 1 \in Nat /\ k - 1 \in 0..BYTE_CAPACITY /\ (k - 1) + 1 = k
        BY <1>1, <3>2
      <4>2. f[k] = RADIX * f[k - 1]
        BY <1>5, <4>1
      <4> QED
        BY <3>2, <4>1, <4>2
    <3> QED
      BY <3>1, <3>2
  <2> QED
    BY <2>1
<1>7. is(Place)
  <2>1. Place = CHOOSE p : is(p)
    BY DEF Place
  <2> HIDE DEF is, p0
  <2> QED
    BY <1>6, <2>1
<1> HIDE DEF p0
<1>8. Place[0] = 1 /\ \A k \in 0..BYTE_CAPACITY - 1 : Place[k + 1] = RADIX * Place[k]
  <2>1. 0 \in 0..BYTE_CAPACITY
    BY <1>1
  <2>2. Place[0] = 1
    BY <1>7, <2>1
  <2>3. ASSUME NEW k \in 0..BYTE_CAPACITY - 1 PROVE Place[k + 1] = RADIX * Place[k]
    <3>1. k + 1 \in 0..BYTE_CAPACITY /\ k + 1 # 0 /\ (k + 1) - 1 = k
      BY <1>1
    <3> QED
      BY <1>7, <3>1
  <2> QED
    BY <2>2, <2>3
<1> HIDE DEF is
<1> DEFINE S == {k \in Nat : k <= BYTE_CAPACITY => Place[k] \in Nat \ {0}}
<1>9. 0 \in S
  BY <1>8
<1>10. ASSUME NEW k \in Nat, k \in S PROVE k + 1 \in S
  <2>1. SUFFICES ASSUME k + 1 <= BYTE_CAPACITY PROVE Place[k + 1] \in Nat \ {0}
    OBVIOUS
  <2>2. k \in 0..BYTE_CAPACITY - 1 /\ Place[k] \in Nat \ {0}
    BY <1>1, <1>10, <2>1
  <2> QED
    BY <1>1, <1>8, <2>2
<1>11. \A k \in Nat : k \in S
  <2> HIDE DEF S
  <2> QED
    BY <1>9, <1>10, Induction
<1> QED
  BY <1>1, <1>8, <1>11

\* The bytes of an element.
IsChunk(chunk) == chunk \in [1..BYTE_CAPACITY -> Bytes]

\* What they count, the first the least.
Weights(chunk) == [i \in Nat |-> IF i < BYTE_CAPACITY THEN chunk[i + 1] * Place[i] ELSE 0]

\* The stored form of an element is a number of that many digits.
LEMMA WeightsCount ==
  ASSUME NEW chunk, IsChunk(chunk)
  PROVE  /\ Weights(chunk) \in Terms
         /\ \A i \in 0..BYTE_CAPACITY - 1 :
              /\ chunk[i + 1] \in 0..RADIX - 1
              /\ Weights(chunk)[i] = chunk[i + 1] * Place[i]
         /\ \A k \in 0..BYTE_CAPACITY : Sum(Weights(chunk), k) \in 0..Place[k] - 1
<1>1. \A i \in Nat : i < BYTE_CAPACITY => i + 1 \in 1..BYTE_CAPACITY /\ i \in 0..BYTE_CAPACITY
  BY PlaceSteps
<1>2. \A i \in Nat : i < BYTE_CAPACITY => chunk[i + 1] \in 0..RADIX - 1 /\ Place[i] \in Nat
  BY <1>1, PlaceSteps, BytesAssumption DEF IsChunk
<1>3. \A i \in Nat : (IF i < BYTE_CAPACITY THEN chunk[i + 1] * Place[i] ELSE 0) \in Int
  <2>1. \A a \in 0..RADIX - 1, b \in Nat : a * b \in Int
    BY PlaceSteps
  <2> QED
    BY <1>2, <2>1
<1>4. Weights(chunk) \in Terms
  BY <1>3 DEF Weights, Terms
<1>5. \A i \in 0..BYTE_CAPACITY - 1 :
        /\ chunk[i + 1] \in 0..RADIX - 1
        /\ Weights(chunk)[i] = chunk[i + 1] * Place[i]
  BY <1>2, PlaceSteps DEF Weights
<1> DEFINE S == {k \in Nat : k <= BYTE_CAPACITY => Sum(Weights(chunk), k) \in 0..Place[k] - 1}
<1>6. 0 \in S
  <2>1. Sum(Weights(chunk), 0) = 0
    BY <1>4, SumSteps
  <2> QED
    BY <2>1, PlaceSteps
<1>7. ASSUME NEW k \in Nat, k \in S PROVE k + 1 \in S
  <2>1. SUFFICES ASSUME k + 1 <= BYTE_CAPACITY
                 PROVE  Sum(Weights(chunk), k + 1) \in 0..Place[k + 1] - 1
    OBVIOUS
  <2>2. k \in 0..BYTE_CAPACITY - 1 /\ k \in 0..BYTE_CAPACITY
    BY <2>1, PlaceSteps
  <2>3. PICK p \in Nat : p = Place[k]
    BY <2>2, PlaceSteps
  <2>4. Sum(Weights(chunk), k) \in 0..Place[k] - 1
    <3>1. k <= BYTE_CAPACITY
      BY <2>2, PlaceSteps
    <3> QED
      BY <1>7, <3>1
  <2>5. PICK s \in 0..p - 1 : s = Sum(Weights(chunk), k)
    BY <2>4, <2>3
  <2>6. PICK b \in 0..RADIX - 1 : b = chunk[k + 1]
    BY <1>5, <2>2
  <2>7. Sum(Weights(chunk), k + 1) = s + b * p
    <3>1. Sum(Weights(chunk), k + 1) = Sum(Weights(chunk), k) + Weights(chunk)[k]
      BY <1>4, SumSteps
    <3> QED
      BY <1>5, <2>2, <2>3, <2>5, <2>6, <3>1
  <2>8. Place[k + 1] = RADIX * p
    BY <2>2, <2>3, PlaceSteps
  <2>9. s + b * p \in 0..RADIX * p - 1
    <3>1. PICK r \in Nat : r = RADIX
      BY PlaceSteps
    <3>2. b + 1 <= r /\ b \in Nat
      BY <2>6, <3>1
    <3>3. (b + 1) * p <= r * p
      BY <3>1, <3>2, MultiplesGrow
    <3>4. (b + 1) * p = b * p + p /\ b * p \in Nat
      BY <3>2
    <3>5. r * p \in Nat
      BY <3>1
    <3> QED
      BY <3>1, <3>3, <3>4, <3>5
  <2> QED
    BY <2>7, <2>8, <2>9
<1>8. \A k \in Nat : k \in S
  <2> HIDE DEF S
  <2> QED
    BY <1>6, <1>7, Induction
<1> QED
  BY <1>4, <1>5, <1>8, PlaceSteps

\* An element is its stored form, divided.
LEMMA ElementOfBytes ==
  ASSUME NEW chunk, IsChunk(chunk)
  PROVE  /\ Sum(Weights(chunk), BYTE_CAPACITY) \in Field
         /\ FieldInverse(LIMBS % MODULUS) \in Field
         /\ FromDataBytes(chunk)
              = Times(Sum(Weights(chunk), BYTE_CAPACITY), FieldInverse(LIMBS % MODULUS))
         /\ FromDataBytes(chunk) \in Field
<1> DEFINE n == BYTE_CAPACITY
           is(p) == p = [k \in 0..n |-> IF k = 0 THEN 0 ELSE p[k - 1] + chunk[k] * Place[k - 1]]
           w == Weights(chunk)
           p0 == [k \in 0..n |-> Sum(w, k)]
<1>1. n \in Nat \ {0} /\ w \in Terms /\ \A i \in 0..n - 1 : w[i] = chunk[i + 1] * Place[i]
  BY PlaceSteps, WeightsCount
<1>2. FromDataBytes(chunk) = ((CHOOSE p : is(p))[n] * FieldInverse(LIMBS % MODULUS)) % MODULUS
  BY DEF FromDataBytes
<1>3. Sum(w, n) \in 0..Place[n] - 1
  BY <1>1, WeightsCount
<1>4. Sum(w, n) \in Field
  <2>1. Place[n] <= MODULUS
    BY BytesAssumption
  <2>2. Place[n] \in Nat
    BY <1>1, PlaceSteps
  <2> QED
    BY <1>3, <2>1, <2>2, ModulusIsPositive DEF Field
<1> HIDE DEF n, w
<1>5. is(p0)
  <2>1. ASSUME NEW k \in 0..n
        PROVE  Sum(w, k) = IF k = 0 THEN 0 ELSE p0[k - 1] + chunk[k] * Place[k - 1]
    <3>1. CASE k = 0
      BY <1>1, <3>1, SumSteps
    <3>2. CASE k # 0
      <4>1. k - 1 \in Nat /\ k - 1 \in 0..n - 1 /\ k - 1 \in 0..n /\ (k - 1) + 1 = k
        BY <1>1, <3>2
      <4>2. Sum(w, (k - 1) + 1) = Sum(w, k - 1) + w[k - 1]
        BY <1>1, <4>1, SumSteps
      <4>3. p0[k - 1] = Sum(w, k - 1)
        BY <4>1
      <4> HIDE DEF p0
      <4> QED
        BY <1>1, <3>2, <4>1, <4>2, <4>3
    <3> QED
      BY <3>1, <3>2
  <2> QED
    BY <2>1
<1>6. PICK p : is(p) /\ p = CHOOSE q : is(q)
  <2> HIDE DEF is, p0
  <2> QED
    BY <1>5
<1> HIDE DEF p0
<1> DEFINE S == {k \in Nat : k <= n => p[k] = Sum(w, k)}
<1>7. 0 \in S
  BY <1>1, <1>6, SumSteps
<1>8. ASSUME NEW k \in Nat, k \in S PROVE k + 1 \in S
  <2>1. SUFFICES ASSUME k + 1 <= n PROVE p[k + 1] = Sum(w, k + 1)
    OBVIOUS
  <2>2. /\ k + 1 \in 0..n /\ k + 1 # 0 /\ (k + 1) - 1 = k /\ k \in 0..n - 1
        /\ p[k] = Sum(w, k)
    BY <1>1, <1>8, <2>1
  <2>3. p[k + 1] = p[k] + chunk[k + 1] * Place[k]
    BY <1>6, <2>2
  <2> QED
    BY <1>1, <2>2, <2>3, SumSteps
<1>9. \A k \in Nat : k \in S
  <2> HIDE DEF S
  <2> QED
    BY <1>7, <1>8, Induction
<1>10. p[n] = Sum(w, n)
  BY <1>1, <1>9
<1>11. LIMBS % MODULUS \in Field /\ LIMBS % MODULUS # 0
  <2>1. LIMBS \in Nat /\ LIMBS % MODULUS # 0
    BY FieldAssumption, Zenon
  <2> QED
    BY <2>1, Reduced
<1>12. FieldInverse(LIMBS % MODULUS) \in Field
  BY <1>11, Inverts
<1>13. FromDataBytes(chunk) = Times(Sum(w, n), FieldInverse(LIMBS % MODULUS))
  <2> HIDE DEF is
  <2> QED
    BY <1>2, <1>6, <1>10 DEF Times
<1> QED
  BY <1>4, <1>12, <1>13, TimesRules DEF n, w

\* A chunk with zeros behind it is one.
LEMMA PaddedIsChunk ==
  ASSUME NEW bytes \in Content
  PROVE  IsChunk(PaddedChunk(bytes))
<1>1. 0 \in Bytes
  BY BytesAssumption
<1>2. Len(bytes) \in Nat /\ \A i \in 1..Len(bytes) : bytes[i] \in Bytes
  BY DEF Content
<1> QED
  BY <1>1, <1>2, PlaceSteps DEF PaddedChunk, IsChunk

\* A file is a vector of elements.
LEMMA FileIsVector ==
  ASSUME NEW content \in Content
  PROVE  /\ FieldLen(content) \in Nat
         /\ Vector(FromByteVec(content), FieldLen(content))
         /\ Len(FromByteVec(content)) = FieldLen(content)
<1>1. Len(content) \in Nat /\ FieldLen(content) \in Nat
  BY CapacityAssumption, PiecesBegin DEF Content, FieldLen
<1>2. ASSUME NEW k \in 1..FieldLen(content)
      PROVE  FromDataBytes(PaddedChunk(SubSeq(content, (k - 1) * BYTE_CAPACITY + 1,
                                              Len(content)))) \in Field
  <2>1. (k - 1) * BYTE_CAPACITY \in Nat
    <3>1. k - 1 \in Nat
      BY <1>1
    <3> QED
      BY <3>1, PlaceSteps
  <2>2. SubSeq(content, (k - 1) * BYTE_CAPACITY + 1, Len(content)) \in Content
    BY <1>1, <2>1, Middle DEF Content
  <2> QED
    BY <2>2, PaddedIsChunk, ElementOfBytes
<1>3. Vector(FromByteVec(content), FieldLen(content))
  BY <1>2 DEF FromByteVec, Vector
<1> QED
  BY <1>1, <1>3, VectorElements
\* A row and its encoding are vectors of the encoded width.
LEMMA RowIsVector ==
  ASSUME NEW elements, NEW l \in Nat, Vector(elements, l), NEW shape \in Shapes,
         NEW r \in Nat \ {0}
  PROVE  /\ Vector(CoefficientRow(elements, shape, r), shape.enc)
         /\ Vector(Encode(CoefficientRow(elements, shape, r)), shape.enc)
<1>1. /\ CodeLength(shape.enc) /\ shape.pre \in Nat \ {0} /\ shape.enc \in Nat
      /\ \E k \in Nat : shape.enc = 2 ^ k
  BY ShapesAreCodeLengths, CodeLengthFits DEF CodeLength
<1>2. Len(elements) = l /\ 0 \in Field
  BY VectorElements, TimesRules
<1>3. ASSUME NEW c \in 1..shape.enc
      PROVE  (IF c <= shape.pre /\ (r - 1) * shape.pre + c <= Len(elements)
                THEN elements[(r - 1) * shape.pre + c] ELSE 0) \in Field
  <2>1. (r - 1) * shape.pre \in Nat
    <3>1. r - 1 \in Nat
      OBVIOUS
    <3> QED
      BY <1>1, <3>1
  <2>2. (r - 1) * shape.pre + c <= l => (r - 1) * shape.pre + c \in 1..l
    BY <1>1, <2>1
  <2> QED
    BY <1>2, <2>2 DEF Vector
<1>4. Vector(CoefficientRow(elements, shape, r), shape.enc)
  BY <1>3 DEF CoefficientRow, Vector
<1> QED
  BY <1>1, <1>4, EncodedVector
-----------------------------------------------------------------------------
(* Rows that are combined.                                                 *)

\* Two vectors whose shorter one has n elements.
AreFactors(p, q, n) ==
  /\ Lesser(Len(p), Len(q)) = n
  /\ \A i \in 0..n - 1 : p[i + 1] \in Int /\ q[i + 1] \in Int

LEMMA ProductOfFactors ==
  ASSUME NEW n \in Nat, NEW p, NEW q, AreFactors(p, q, n)
  PROVE  /\ Products(p, q, n) \in Terms
         /\ \A i \in 0..n - 1 : Products(p, q, n)[i] = p[i + 1] * q[i + 1]
         /\ VectorMultiply(p, q) = Sum(Products(p, q, n), n) % MODULUS
         /\ VectorMultiply(p, q) \in Field
<1> DEFINE t == Products(p, q, n)
<1>1. \A i \in 0..n - 1 : p[i + 1] \in Int /\ q[i + 1] \in Int
  BY DEF AreFactors
<1>2. t \in Terms /\ \A i \in 0..n - 1 : t[i] = p[i + 1] * q[i + 1]
  BY <1>1, ProductTerms
<1> HIDE DEF t
<1>3. IsProduct(t, p, q, n)
  BY <1>1, <1>2 DEF IsProduct, AreFactors, Same
<1>4. VectorMultiply(p, q) = Sum(t, n) % MODULUS
  BY <1>2, <1>3, ProductIsSum
<1>5. Sum(t, n) \in Int
  BY <1>2, SumSteps
<1> QED
  BY <1>2, <1>4, <1>5, Reduced DEF t

\* A multiple of a product, as a sum.
LEMMA ScaledProduct ==
  ASSUME NEW n \in Nat, NEW p, NEW q, AreFactors(p, q, n), NEW c \in Int, NEW h \in Terms,
         \A i \in 0..n - 1 : h[i] = c * (p[i + 1] * q[i + 1])
  PROVE  Same(Sum(h, n), c * VectorMultiply(p, q))
<1> DEFINE t == Products(p, q, n)
           ct == [i \in Nat |-> c * t[i]]
<1>1. /\ t \in Terms
      /\ \A i \in 0..n - 1 : t[i] = p[i + 1] * q[i + 1]
      /\ VectorMultiply(p, q) = Sum(t, n) % MODULUS
  BY ProductOfFactors
<1> HIDE DEF t
<1>2. ct \in Terms /\ \A i \in Nat : ct[i] = c * t[i]
  <2>1. \A a \in Int : c * a \in Int
    OBVIOUS
  <2> QED
    BY <1>1, <2>1 DEF Terms
<1> HIDE DEF ct
<1>3. Sum(ct, n) = c * Sum(t, n)
  BY <1>1, <1>2, SumScales
<1>4. Sum(ct, n) = Sum(h, n)
  <2>1. \A i \in 0..n - 1 : ct[i] = h[i]
    BY <1>1, <1>2
  <2> QED
    BY <1>2, <2>1, SumEqual
<1>5. PICK s \in Int : s = Sum(t, n)
  BY <1>1, SumSteps
<1>6. PICK m \in Int : m = s % MODULUS /\ Same(m, s)
  BY Reduced
<1>7. Same(c * m, c * s)
  BY <1>6, Factors
<1> QED
  BY <1>1, <1>3, <1>4, <1>5, <1>6, <1>7 DEF Same

\* A matrix of n rows of e elements.
IsRows(A, n, e) == A \in [1..n -> [1..e -> Field]]

\* The rows, each taken as often as u says.
Combined(u, A, n, e) == [c \in 1..e |-> VectorMultiply(u, [r \in 1..n |-> A[r][c]])]

\* Combined rows are a vector.
LEMMA CombinedIsVector ==
  ASSUME NEW n \in Nat, NEW e \in Nat, NEW A, IsRows(A, n, e), NEW u, Vector(u, n)
  PROVE  /\ Vector(Combined(u, A, n, e), e)
         /\ \A c \in 1..e : AreFactors(u, [r \in 1..n |-> A[r][c]], n)
<1>1. Len(u) = n /\ \A i \in 0..n - 1 : u[i + 1] \in Int
  BY VectorElements
<1>2. ASSUME NEW c \in 1..e PROVE AreFactors(u, [r \in 1..n |-> A[r][c]], n)
  <2> DEFINE column == [r \in 1..n |-> A[r][c]]
  <2>1. Vector(column, n)
    BY DEF IsRows, Vector
  <2> HIDE DEF column
  <2>2. Len(column) = n /\ \A i \in 0..n - 1 : column[i + 1] \in Int
    BY <2>1, VectorElements
  <2> QED
    BY <1>1, <2>2 DEF AreFactors, Lesser, column
<1>3. \A c \in 1..e : VectorMultiply(u, [r \in 1..n |-> A[r][c]]) \in Field
  <2>1. TAKE c \in 1..e
  <2> DEFINE column == [r \in 1..n |-> A[r][c]]
  <2>2. AreFactors(u, column, n)
    BY <1>2
  <2> HIDE DEF column
  <2>3. VectorMultiply(u, column) \in Field
    BY <2>2, ProductOfFactors
  <2> QED
    BY <2>3 DEF column
<1> QED
  BY <1>2, <1>3 DEF Combined, Vector

AreProducts(b, A, v, n) == b = [r \in 1..n |-> VectorMultiply(A[r], v)]

\* To combine rows and multiply is to multiply rows and combine.
LEMMA CombinedProduct ==
  ASSUME NEW n \in Nat, NEW e \in Nat, NEW A, IsRows(A, n, e), NEW u, Vector(u, n),
         NEW m \in 0..e, NEW v, Vector(v, m), NEW b, AreProducts(b, A, v, n)
  PROVE  /\ VectorMultiply(Combined(u, A, n, e), v) = VectorMultiply(u, b)
         /\ Vector(b, n)
<1> DEFINE F == [c \in Nat |-> [r \in Nat |->
                   IF c < m /\ r < n THEN u[r + 1] * A[r + 1][c + 1] * v[c + 1] ELSE 0]]
           G == [r \in Nat |-> [c \in Nat |-> F[c][r]]]
           f == [c \in Nat |-> Sum(F[c], n)]
           g == [r \in Nat |-> Sum(G[r], m)]
           w == Combined(u, A, n, e)
<1>1. \A x, y \in Int : x * y \in Int
  OBVIOUS
<1>2. /\ m \in Nat /\ m <= e
      /\ \A r \in 0..n - 1 : r \in Nat /\ r < n /\ r + 1 \in 1..n /\ u[r + 1] \in Int
      /\ \A c \in 0..m - 1 : c \in Nat /\ c < m /\ c + 1 \in 1..e /\ v[c + 1] \in Int
      /\ \A r \in Nat : r < n => r \in 0..n - 1
      /\ \A c \in Nat : c < m => c \in 0..m - 1
  <2>1. \A r \in 0..n - 1 : u[r + 1] \in Int
    BY VectorElements
  <2>2. \A c \in 0..m - 1 : v[c + 1] \in Int
    BY VectorElements
  <2> QED
    BY <2>1, <2>2
<1>3. \A r \in 0..n - 1, c \in 0..m - 1 : A[r + 1][c + 1] \in Int
  BY <1>2, Reduced DEF IsRows
<1>4. /\ F \in [Nat -> Terms]
      /\ \A c \in 0..m - 1, r \in 0..n - 1 : F[c][r] = u[r + 1] * A[r + 1][c + 1] * v[c + 1]
  <2>1. ASSUME NEW c \in Nat, NEW r \in Nat
        PROVE  (IF c < m /\ r < n THEN u[r + 1] * A[r + 1][c + 1] * v[c + 1] ELSE 0) \in Int
    <3>1. CASE c < m /\ r < n
      <4>1. c \in 0..m - 1 /\ r \in 0..n - 1
        BY <1>2, <3>1
      <4>2. u[r + 1] * A[r + 1][c + 1] \in Int
        BY <1>2, <1>3, <1>1, <4>1
      <4>3. u[r + 1] * A[r + 1][c + 1] * v[c + 1] \in Int
        BY <1>2, <1>1, <4>1, <4>2
      <4> QED
        BY <3>1, <4>3
    <3> QED
      BY <3>1
  <2>2. \A c \in Nat :
          [r \in Nat |-> IF c < m /\ r < n THEN u[r + 1] * A[r + 1][c + 1] * v[c + 1] ELSE 0]
            \in Terms
    BY <2>1 DEF Terms
  <2> QED
    BY <1>2, <2>2
<1> HIDE DEF F
<1>5. G \in [Nat -> Terms] /\ Transposed(F, G)
  <2>1. \A c, r \in Nat : F[c][r] \in Int
    BY <1>4 DEF Terms
  <2>2. \A r \in Nat : [c \in Nat |-> F[c][r]] \in Terms
    BY <2>1 DEF Terms
  <2> QED
    BY <2>2 DEF Transposed
<1> HIDE DEF G
<1>6. f \in Terms /\ SumsOf(f, F, n)
  <2>1. \A c \in Nat : Sum(F[c], n) \in Int
    BY <1>4, SumSteps
  <2> QED
    BY <2>1 DEF Terms, SumsOf
<1>7. g \in Terms /\ SumsOf(g, G, m)
  <2>1. \A r \in Nat : Sum(G[r], m) \in Int
    BY <1>2, <1>5, SumSteps
  <2> QED
    BY <2>1 DEF Terms, SumsOf
<1> HIDE DEF f, g
<1>8. Sum(f, m) = Sum(g, n)
  BY <1>2, <1>4, <1>5, <1>6, <1>7, SumExchange
<1>9. Vector(w, e) /\ \A c \in 1..e : AreFactors(u, [r \in 1..n |-> A[r][c]], n)
  BY CombinedIsVector
<1> HIDE DEF w
<1>10. VectorMultiply(w, v) = Sum(f, m) % MODULUS
  <2>1. Lesser(Len(w), Len(v)) = m
    <3>1. Len(w) = e /\ Len(v) = m
      BY <1>2, <1>9, VectorElements
    <3> QED
      BY <1>2, <3>1 DEF Lesser
  <2>2. ASSUME NEW c \in 0..m - 1
        PROVE  /\ w[c + 1] \in Int /\ v[c + 1] \in Int
               /\ Same(f[c], w[c + 1] * v[c + 1])
    <3> DEFINE column == [r \in 1..n |-> A[r][c + 1]]
               h == F[c]
    <3>1. c \in Nat /\ c + 1 \in 1..e
      BY <1>2
    <3>2. w[c + 1] = VectorMultiply(u, column) /\ AreFactors(u, column, n)
      BY <1>9, <3>1 DEF w, Combined
    <3>3. h \in Terms /\ f[c] = Sum(h, n)
      BY <1>4, <1>6, <3>1 DEF SumsOf
    <3>4. PICK z \in Int : z = v[c + 1]
      BY <1>2
    <3>5. \A r \in 0..n - 1 : h[r] = z * (u[r + 1] * column[r + 1])
      <4>1. TAKE r \in 0..n - 1
      <4>2. PICK x \in Int : x = u[r + 1]
        BY <1>2
      <4>3. PICK y \in Int : y = A[r + 1][c + 1]
        BY <1>3
      <4>4. column[r + 1] = y
        BY <1>2, <4>3
      <4>5. h[r] = x * y * z
        BY <1>4, <3>4, <4>2, <4>3
      <4>6. x * y * z = z * (x * y)
        OBVIOUS
      <4> QED
        BY <4>2, <4>4, <4>5, <4>6
    <3> HIDE DEF h, column
    <3>6. Same(Sum(h, n), z * VectorMultiply(u, column))
      BY <3>2, <3>3, <3>5, ScaledProduct
    <3>7. w[c + 1] \in Int
      BY <1>9, <3>1, Reduced DEF Vector
    <3>8. z * w[c + 1] = w[c + 1] * z
      BY <3>7
    <3> QED
      BY <3>2, <3>3, <3>4, <3>6, <3>7, <3>8 DEF Same
  <2>3. IsProduct(f, w, v, m)
    BY <2>1, <2>2 DEF IsProduct
  <2> QED
    BY <1>2, <1>6, <2>3, ProductIsSum
<1>11. ASSUME NEW r \in 1..n PROVE AreFactors(A[r], v, m) /\ b[r] = VectorMultiply(A[r], v)
  <2>1. Vector(A[r], e)
    BY DEF IsRows, Vector
  <2>2. Len(A[r]) = e /\ Len(v) = m
    BY <1>2, <2>1, VectorElements
  <2>3. \A c \in 0..m - 1 : A[r][c + 1] \in Int
    <3>1. \A i \in 0..e - 1 : A[r][i + 1] \in Int
      BY <2>1, VectorElements
    <3>2. \A c \in 0..m - 1 : c \in 0..e - 1
      BY <1>2
    <3> QED
      BY <3>1, <3>2
  <2> QED
    BY <1>2, <2>2, <2>3 DEF AreFactors, Lesser, AreProducts
<1>12. Vector(b, n)
  <2>1. \A r \in 1..n : VectorMultiply(A[r], v) \in Field
    BY <1>2, <1>11, ProductOfFactors
  <2> QED
    BY <2>1 DEF Vector, AreProducts
<1>13. VectorMultiply(u, b) = Sum(g, n) % MODULUS
  <2>1. Lesser(Len(u), Len(b)) = n
    <3>1. Len(u) = n /\ Len(b) = n
      BY <1>12, VectorElements
    <3> QED
      BY <3>1 DEF Lesser
  <2>2. ASSUME NEW r \in 0..n - 1
        PROVE  /\ u[r + 1] \in Int /\ b[r + 1] \in Int
               /\ Same(g[r], u[r + 1] * b[r + 1])
    <3> DEFINE row == A[r + 1]
               h == G[r]
    <3>1. r \in Nat /\ r + 1 \in 1..n
      BY <1>2
    <3>2. b[r + 1] = VectorMultiply(row, v) /\ AreFactors(row, v, m)
      BY <1>11, <3>1
    <3>3. h \in Terms /\ g[r] = Sum(h, m)
      BY <1>5, <1>7, <3>1 DEF SumsOf
    <3>4. PICK x \in Int : x = u[r + 1]
      BY <1>2
    <3>5. \A c \in 0..m - 1 : h[c] = x * (row[c + 1] * v[c + 1])
      <4>1. TAKE c \in 0..m - 1
      <4>2. PICK y \in Int : y = row[c + 1]
        BY <1>3
      <4>3. PICK z \in Int : z = v[c + 1]
        BY <1>2
      <4>4. h[c] = F[c][r]
        BY <1>2, <1>5, <3>1 DEF Transposed
      <4>5. F[c][r] = x * y * z
        BY <1>4, <3>4, <4>2, <4>3
      <4>6. x * y * z = x * (y * z)
        OBVIOUS
      <4> QED
        BY <4>2, <4>3, <4>4, <4>5, <4>6
    <3> HIDE DEF h, row
    <3>6. Same(Sum(h, m), x * VectorMultiply(row, v))
      BY <1>2, <3>2, <3>3, <3>5, ScaledProduct
    <3>7. b[r + 1] \in Int
      BY <1>12, <3>1, Reduced DEF Vector
    <3> QED
      BY <3>2, <3>3, <3>4, <3>6, <3>7
  <2>3. IsProduct(g, u, b, n)
    BY <2>1, <2>2 DEF IsProduct
  <2> QED
    BY <1>7, <2>3, ProductIsSum
<1> QED
  BY <1>8, <1>10, <1>12, <1>13 DEF w
\* The value of a polynomial is a product with the powers of the point.
LEMMA ValueIsProduct ==
  ASSUME NEW e \in Nat, NEW v, Vector(v, e), NEW x \in Field
  PROVE  /\ EvaluateFrom(v, x, 0) = VectorMultiply(v, RightVector(x, e))
         /\ Vector(RightVector(x, e), e)
<1>1. DOMAIN v = 1..e
  BY VectorElements
<1>2. \A i \in 1..e : 0 + i - 1 = i - 1 /\ i - 1 \in Nat
  OBVIOUS
<1>3. [i \in DOMAIN v |-> Power(x, 0 + i - 1)] = RightVector(x, e)
  BY <1>1, <1>2 DEF RightVector
<1>4. Vector(RightVector(x, e), e)
  BY <1>2, PowerTimes DEF RightVector, Vector
<1> QED
  BY <1>3, <1>4 DEF EvaluateFrom

\* The encoding of combined rows is the combination of their encodings.
LEMMA CombinedEncodes ==
  ASSUME NEW e, CodeLength(e), NEW n \in Nat, NEW A, IsRows(A, n, e), NEW u, Vector(u, n),
         NEW B, B = [r \in 1..n |-> Encode(A[r])]
  PROVE  /\ Encode(Combined(u, A, n, e)) = Combined(u, B, n, e)
         /\ IsRows(B, n, e)
<1> DEFINE w == Combined(u, A, n, e)
           x(j) == Power(RootOfUnity(e), BitReverse(j - 1, e))
<1>1. e \in Nat /\ RootOfUnity(e) \in Field
  BY RootOrder DEF CodeLength
<1>2. PICK k \in Nat : e = 2 ^ k
  BY CodeLengthFits
<1>3. ASSUME NEW j \in 1..e PROVE x(j) \in Field
  <2>1. j - 1 \in Nat
    BY <1>1
  <2>2. BitReverse(j - 1, e) \in Nat
    BY <1>2, <2>1, BitReverses, ReversedSteps
  <2> QED
    BY <1>1, <2>2, PowerTimes
<1>4. ASSUME NEW v, Vector(v, e) PROVE Encode(v) = [j \in 1..e |-> EvaluateFrom(v, x(j), 0)]
  <2>1. Len(v) = e
    BY <1>1, <1>4, VectorElements
  <2> QED
    BY <2>1 DEF Encode, Evaluate
<1> HIDE DEF x
<1>5. Vector(w, e)
  BY <1>1, CombinedIsVector
<1>6. ASSUME NEW r \in 1..n PROVE Vector(A[r], e) /\ Vector(B[r], e)
  <2>1. Vector(A[r], e)
    BY DEF IsRows, Vector
  <2>2. Vector(Encode(A[r]), e)
    BY <1>2, <2>1, EncodedVector
  <2> QED
    BY <2>1, <2>2
<1>7. IsRows(B, n, e)
  BY <1>6 DEF IsRows, Vector
<1> HIDE DEF w
<1>8. ASSUME NEW j \in 1..e
      PROVE  EvaluateFrom(w, x(j), 0) = VectorMultiply(u, [r \in 1..n |-> B[r][j]])
  <2> DEFINE v == RightVector(x(j), e)
             b == [r \in 1..n |-> VectorMultiply(A[r], v)]
  <2>1. x(j) \in Field
    BY <1>3
  <2>2. EvaluateFrom(w, x(j), 0) = VectorMultiply(w, v) /\ Vector(v, e)
    BY <1>1, <1>5, <2>1, ValueIsProduct
  <2>3. b = [r \in 1..n |-> B[r][j]]
    <3>1. ASSUME NEW r \in 1..n PROVE VectorMultiply(A[r], v) = B[r][j]
      <4>1. Vector(A[r], e)
        BY <1>6
      <4>2. VectorMultiply(A[r], v) = EvaluateFrom(A[r], x(j), 0)
        BY <1>1, <2>1, <4>1, ValueIsProduct
      <4>3. B[r] = [i \in 1..e |-> EvaluateFrom(A[r], x(i), 0)]
        BY <1>4, <4>1
      <4> QED
        BY <4>2, <4>3
    <3> HIDE DEF v
    <3> QED
      BY <3>1
  <2>4. AreProducts(b, A, v, n)
    BY DEF AreProducts
  <2>5. VectorMultiply(w, v) = VectorMultiply(u, b)
    <3>1. e \in 0..e
      BY <1>1
    <3> HIDE DEF v, b
    <3>2. VectorMultiply(Combined(u, A, n, e), v) = VectorMultiply(u, b)
      BY <1>1, <2>2, <2>4, <3>1, CombinedProduct
    <3> QED
      BY <3>2 DEF w
  <2> QED
    BY <2>2, <2>3, <2>5
<1>9. Encode(w) = [j \in 1..e |-> VectorMultiply(u, [r \in 1..n |-> B[r][j]])]
  <2>1. Encode(w) = [j \in 1..e |-> EvaluateFrom(w, x(j), 0)]
    BY <1>4, <1>5
  <2> QED
    BY <1>8, <2>1
<1> QED
  BY <1>7, <1>9 DEF Combined, w

\* A sum in blocks.
Blocks(f, m) == [r \in Nat |-> [c \in Nat |-> f[r * m + c]]]

LEMMA SumBlocks ==
  ASSUME NEW m \in Nat, NEW f \in Terms, NEW g \in Terms, SumsOf(g, Blocks(f, m), m)
  PROVE  \A n \in Nat : Sum(f, n * m) = Sum(g, n)
<1> DEFINE S == {n \in Nat : Sum(f, n * m) = Sum(g, n)}
<1>1. 0 \in S
  <2>1. 0 * m = 0
    OBVIOUS
  <2> QED
    BY <2>1, SumSteps
<1>2. ASSUME NEW n \in Nat, n \in S PROVE n + 1 \in S
  <2> DEFINE h == [c \in Nat |-> f[n * m + c]]
  <2>1. n * m \in Nat /\ (n + 1) * m = n * m + m
    OBVIOUS
  <2>2. h \in Terms /\ \A c \in Nat : h[c] = f[n * m + c]
    <3>1. \A c \in Nat : n * m + c \in Nat
      BY <2>1
    <3> QED
      BY <3>1 DEF Terms
  <2>3. g[n] = Sum(h, m)
    BY DEF SumsOf, Blocks
  <2> HIDE DEF h
  <2>4. Sum(f, n * m + m) = Sum(f, n * m) + Sum(h, m)
    <3>1. PICK k \in Nat : k = n * m
      BY <2>1
    <3>2. \A l \in Nat : Sum(f, k + l) = Sum(f, k) + Sum(h, l)
      BY <2>2, <3>1, SumSplits
    <3> QED
      BY <3>1, <3>2
  <2>5. Sum(g, n + 1) = Sum(g, n) + g[n]
    BY SumSteps
  <2> QED
    BY <1>2, <2>1, <2>3, <2>4, <2>5
<1>3. \A n \in Nat : n \in S
  <2> HIDE DEF S
  <2> QED
    BY <1>1, <1>2, Induction
<1> QED
  BY <1>3

\* A sum of zeros at the end.
LEMMA SumTail ==
  ASSUME NEW f \in Terms, NEW l \in Nat, NEW n \in Nat, l <= n, \A i \in l..n - 1 : f[i] = 0
  PROVE  Sum(f, n) = Sum(f, l)
<1> DEFINE h == [i \in Nat |-> f[l + i]]
<1>1. h \in Terms /\ \A i \in Nat : h[i] = f[l + i]
  BY DEF Terms
<1> HIDE DEF h
<1>2. Sum(f, l + (n - l)) = Sum(f, l) + Sum(h, n - l)
  <2>1. \A k \in Nat : Sum(f, l + k) = Sum(f, l) + Sum(h, k)
    BY <1>1, SumSplits
  <2>2. n - l \in Nat
    OBVIOUS
  <2> QED
    BY <2>1, <2>2
<1>3. Sum(h, n - l) = 0
  <2>1. \A i \in 0..(n - l) - 1 : l + i \in l..n - 1 /\ i \in Nat
    OBVIOUS
  <2>2. \A i \in 0..(n - l) - 1 : h[i] = 0
    BY <1>1, <2>1
  <2>3. n - l \in Nat
    OBVIOUS
  <2> QED
    BY <1>1, <2>2, <2>3, SumZero
<1>4. l + (n - l) = n /\ Sum(f, l) \in Int
  BY SumSteps
<1> QED
  BY <1>2, <1>3, <1>4
\* The powers that rows are combined with.
LEMMA LeftIsVector ==
  ASSUME NEW x \in Field, NEW n \in Nat, NEW m \in Nat
  PROVE  Vector(LeftVector(x, n, m), n)
<1>1. \A r \in 1..n : m * (r - 1) \in Nat
  <2>1. \A r \in 1..n : r - 1 \in Nat
    OBVIOUS
  <2>2. \A k \in Nat : m * k \in Nat
    OBVIOUS
  <2> QED
    BY <2>1, <2>2
<1> QED
  BY <1>1, PowerTimes DEF LeftVector, Vector

\* The values of the rows, combined, are the value of the polynomial.
LEMMA RowsEvaluate ==
  ASSUME NEW elements, NEW l \in Nat, Vector(elements, l), NEW shape \in Shapes, NEW x \in Field,
         NEW n \in Nat, n = CeilDiv(l, shape.pre), NEW b, Vector(b, n),
         \A r \in 1..n : b[r] = VectorMultiply(CoefficientRow(elements, shape, r),
                                               RightVector(x, shape.pre))
  PROVE  VectorMultiply(LeftVector(x, n, shape.pre), b) = Evaluate(elements, x)
<1> DEFINE m == shape.pre
           f == [i \in Nat |-> IF i < l THEN elements[i + 1] * Power(x, i) ELSE 0]
           F == Blocks(f, m)
           g == [r \in Nat |-> Sum(F[r], m)]
           left == LeftVector(x, n, m)
<1>1. \A y, z \in Int : y * z \in Int
  OBVIOUS
<1>2. /\ m \in Nat \ {0} /\ m < shape.enc /\ shape.enc \in Nat
      /\ \A k \in Nat : k < n <=> k * m < l
  BY ShapesAreCodeLengths, PiecesBegin DEF CodeLength
<1>3. \A i \in 0..l - 1 : i \in Nat /\ i < l /\ elements[i + 1] \in Int
  BY VectorElements
<1>4. \A i \in Nat : Power(x, i) \in Field /\ Power(x, i) \in Int
  <2>1. \A i \in Nat : Power(x, i) \in Field
    BY PowerTimes
  <2> QED
    BY <2>1, Reduced
<1>5. /\ f \in Terms
      /\ \A i \in Nat : f[i] = IF i < l THEN elements[i + 1] * Power(x, i) ELSE 0
  <2>1. \A i \in Nat : i < l => i \in 0..l - 1
    OBVIOUS
  <2>2. \A i \in Nat : (IF i < l THEN elements[i + 1] * Power(x, i) ELSE 0) \in Int
    BY <1>3, <1>4, <1>1, <2>1
  <2> QED
    BY <2>2 DEF Terms
<1> HIDE DEF f, m
<1>6. F \in [Nat -> Terms] /\ \A r, c \in Nat : r * m \in Nat /\ F[r][c] = f[r * m + c]
  <2>1. \A r \in Nat : r * m \in Nat
    BY <1>2
  <2>2. \A k, c \in Nat : f[k + c] \in Int
    BY <1>5 DEF Terms
  <2>3. \A r \in Nat : [c \in Nat |-> f[r * m + c]] \in Terms
    BY <2>1, <2>2 DEF Terms
  <2> QED
    BY <2>1, <2>3 DEF Blocks
<1> HIDE DEF F
<1>7. g \in Terms /\ SumsOf(g, F, m)
  <2>1. \A r \in Nat : Sum(F[r], m) \in Int
    BY <1>2, <1>6, SumSteps
  <2> QED
    BY <2>1 DEF Terms, SumsOf
<1> HIDE DEF g
<1>8. Evaluate(elements, x) = Sum(f, l) % MODULUS
  <2>1. \A i \in 0..l - 1 : Same(f[i], elements[i + 1] * Power(x, 0 + i))
    <3>1. \A i \in 0..l - 1 : 0 + i = i
      OBVIOUS
    <3> QED
      BY <1>3, <1>5, <3>1 DEF Same
  <2> QED
    BY <1>5, <2>1, ValueIsSum DEF Evaluate
<1>9. Sum(f, l) = Sum(g, n)
  <2>1. PICK k \in Nat : k = n * m
    BY <1>2
  <2>2. l <= k
    BY <1>2, <2>1
  <2>3. \A i \in l..k - 1 : f[i] = 0
    BY <1>5
  <2>4. Sum(f, k) = Sum(f, l)
    BY <1>5, <2>2, <2>3, SumTail
  <2>5. \A j \in Nat : Sum(f, j * m) = Sum(g, j)
    BY <1>2, <1>5, <1>7, SumBlocks DEF F
  <2> QED
    BY <2>1, <2>4, <2>5
<1>10. Vector(left, n) /\ \A r \in 0..n - 1 : r + 1 \in 1..n /\ left[r + 1] = Power(x, m * r)
  <2>1. Vector(left, n)
    BY <1>2, LeftIsVector
  <2>2. \A r \in 0..n - 1 : r + 1 \in 1..n /\ (r + 1) - 1 = r
    OBVIOUS
  <2> QED
    BY <2>1, <2>2 DEF LeftVector
<1> HIDE DEF left
<1>11. ASSUME NEW r \in 0..n - 1
       PROVE  /\ left[r + 1] \in Int /\ b[r + 1] \in Int
              /\ Same(g[r], left[r + 1] * b[r + 1])
  <2> DEFINE row == CoefficientRow(elements, shape, r + 1)
             right == RightVector(x, m)
             h == F[r]
             d == [c \in Nat |-> left[r + 1] * (IF c < m THEN row[c + 1] * right[c + 1] ELSE 0)]
  <2>1. r \in Nat /\ r + 1 \in Nat \ {0} /\ r + 1 \in 1..n
    OBVIOUS
  <2>2. /\ Vector(row, shape.enc)
        /\ \A c \in 0..m - 1 :
             row[c + 1] = IF r * m + (c + 1) <= l THEN elements[r * m + (c + 1)] ELSE 0
    <3>1. Vector(row, shape.enc)
      BY <2>1, RowIsVector
    <3>2. Len(elements) = l
      BY VectorElements
    <3>3. \A c \in 0..m - 1 : c + 1 \in 1..shape.enc /\ c + 1 <= m
      BY <1>2
    <3>4. (r + 1) - 1 = r
      OBVIOUS
    <3> QED
      BY <3>1, <3>2, <3>3, <3>4 DEF CoefficientRow, m
  <2>3. Vector(right, m) /\ \A c \in 0..m - 1 : right[c + 1] = Power(x, c)
    <3>1. \A c \in 0..m - 1 : c + 1 \in 1..m /\ (c + 1) - 1 = c
      BY <1>2
    <3>2. \A c \in 1..m : c - 1 \in Nat
      BY <1>2
    <3> QED
      BY <1>4, <3>1, <3>2 DEF RightVector, Vector
  <2> HIDE DEF row, right
  <2>4. AreFactors(row, right, m) /\ b[r + 1] = VectorMultiply(row, right)
    <3>1. Len(row) = shape.enc /\ Len(right) = m
      BY <1>2, <2>2, <2>3, VectorElements
    <3>2. /\ \A c \in 0..shape.enc - 1 : row[c + 1] \in Int
          /\ \A c \in 0..m - 1 : right[c + 1] \in Int
      BY <1>2, <2>2, <2>3, VectorElements
    <3>3. \A c \in 0..m - 1 : c \in 0..shape.enc - 1
      BY <1>2
    <3>4. Lesser(shape.enc, m) = m
      BY <1>2 DEF Lesser
    <3> QED
      BY <2>1, <3>1, <3>2, <3>3, <3>4 DEF AreFactors, row, right, m
  <2>5. PICK y \in Field : y = left[r + 1] /\ y = Power(x, r * m)
    <3>1. m * r = r * m /\ r * m \in Nat
      BY <1>2
    <3> QED
      BY <1>4, <1>10, <3>1
  <2>6. y \in Int
    BY Reduced
  <2>7. d \in Terms /\ \A c \in 0..m - 1 : d[c] = y * (row[c + 1] * right[c + 1])
    <3>1. \A c \in Nat : c < m => c \in 0..m - 1
      BY <1>2
    <3>2. \A c \in Nat : y * (IF c < m THEN row[c + 1] * right[c + 1] ELSE 0) \in Int
      BY <1>1, <2>4, <2>6, <3>1 DEF AreFactors
    <3>3. \A c \in 0..m - 1 : c \in Nat /\ c < m
      BY <1>2
    <3> QED
      BY <2>5, <3>2, <3>3 DEF Terms
  <2> HIDE DEF d
  <2>8. Same(Sum(d, m), y * VectorMultiply(row, right))
    BY <1>2, <2>4, <2>6, <2>7, ScaledProduct
  <2>9. h \in Terms /\ g[r] = Sum(h, m)
    BY <1>6, <1>7, <2>1 DEF SumsOf
  <2>10. \A c \in 0..m - 1 : Same(h[c], d[c])
    <3>1. TAKE c \in 0..m - 1
    <3>2. c \in Nat /\ h[c] = f[r * m + c] /\ r * m \in Nat
      BY <1>2, <1>6, <2>1
    <3>3. PICK k \in Nat : k = r * m
      BY <3>2
    <3>4. PICK z \in Field : z = right[c + 1] /\ z = Power(x, c) /\ z \in Int
      BY <1>4, <2>3, <3>2
    <3>5. CASE k + c < l
      <4>1. PICK e \in Int : e = elements[(k + c) + 1]
        <5>1. k + c \in 0..l - 1
          BY <3>2, <3>5
        <5> QED
          BY <1>3, <5>1
      <4>2. row[c + 1] = e
        <5>1. k + (c + 1) <= l /\ k + (c + 1) = (k + c) + 1
          BY <3>2, <3>5
        <5> QED
          BY <2>2, <3>3, <4>1, <5>1
      <4>3. h[c] = e * Times(y, z)
        <5>1. f[k + c] = e * Power(x, k + c)
          BY <1>5, <3>2, <3>5, <4>1
        <5>2. Power(x, k + c) = Times(Power(x, k), Power(x, c))
          BY <3>2, PowerOfSum
        <5> QED
          BY <2>5, <3>2, <3>3, <3>4, <5>1, <5>2
      <4>4. d[c] = y * (e * z)
        BY <2>7, <3>4, <4>2
      <4>5. Same(Times(y, z), y * z) /\ Times(y, z) \in Int /\ y * z \in Int
        <5>1. y * z \in Int
          BY <2>6, <3>4
        <5>2. (y * z) % MODULUS \in Int
          BY <5>1, Reduced
        <5> QED
          BY <5>1, <5>2, Reduced DEF Times
      <4>6. Same(e * Times(y, z), e * (y * z))
        BY <4>5, Factors
      <4>7. e * (y * z) = y * (e * z)
        BY <2>6, <3>4
      <4> QED
        BY <4>3, <4>4, <4>6, <4>7
    <3>6. CASE ~ (k + c < l)
      <4>1. f[k + c] = 0
        BY <1>5, <3>2, <3>6
      <4>2. row[c + 1] = 0
        <5>1. ~ (k + (c + 1) <= l)
          BY <3>2, <3>6
        <5> QED
          BY <2>2, <3>3, <5>1
      <4>3. d[c] = 0
        <5>1. 0 * z = 0 /\ y * 0 = 0
          BY <2>6, <3>4
        <5> QED
          BY <2>7, <3>4, <4>2, <5>1
      <4> QED
        BY <3>2, <3>3, <4>1, <4>3 DEF Same
    <3> QED
      BY <3>5, <3>6
  <2> HIDE DEF h
  <2>11. Same(Sum(h, m), Sum(d, m))
    BY <1>2, <2>7, <2>9, <2>10, SumSame
  <2>12. b[r + 1] \in Int
    BY VectorElements
  <2> QED
    BY <2>4, <2>5, <2>6, <2>8, <2>9, <2>11, <2>12 DEF Same
<1>12. IsProduct(g, left, b, n)
  <2>1. Len(left) = n /\ Len(b) = n
    BY <1>10, VectorElements
  <2> QED
    BY <1>11, <2>1 DEF IsProduct, Lesser
<1>13. VectorMultiply(left, b) = Sum(g, n) % MODULUS
  BY <1>7, <1>12, ProductIsSum
<1> QED
  BY <1>8, <1>9, <1>13 DEF left, m
-----------------------------------------------------------------------------
(* Columns in order.                                                       *)

AgreeBefore(s, t, k) == \A j \in 1..k - 1 : s[j] = t[j]

\* An ascending sequence of every element of a set starts as any other does.
LEMMA AscendingIsLeast ==
  ASSUME NEW n \in Nat, NEW S \in SUBSET Int, NEW s \in [1..n -> S], NEW t \in [1..n -> S],
         Ascending(s), Ascending(t), \A v \in S : \E j \in 1..n : t[j] = v,
         NEW k \in 1..n, AgreeBefore(s, t, k)
  PROVE  t[k] <= s[k]
<1>1. PICK j \in 1..n : t[j] = s[k]
  OBVIOUS
<1>2. s[k] \in Int /\ t[k] \in Int /\ DOMAIN s = 1..n /\ DOMAIN t = 1..n
  OBVIOUS
<1>3. CASE j < k
  <2>1. s[j] = t[j] /\ s[j] < s[k]
    BY <1>2, <1>3 DEF Ascending, AgreeBefore
  <2> QED
    BY <1>1, <1>2, <2>1
<1>4. CASE j = k
  BY <1>1, <1>2, <1>4
<1>5. CASE j > k
  <2>1. t[k] < t[j]
    BY <1>2, <1>5 DEF Ascending
  <2> QED
    BY <1>1, <1>2, <2>1
<1> QED
  BY <1>3, <1>4, <1>5

LEMMA AscendingOrder ==
  ASSUME NEW n \in Nat, NEW e \in Nat, NEW indices \in [1..n -> 0..e - 1], Ascending(indices)
  PROVE  InAscendingOrder({indices[i] : i \in 1..n}) = indices
<1> DEFINE S == {indices[i] : i \in 1..n}
<1>1. indices \in [1..n -> S] /\ S \subseteq Int /\ \A v \in S : \E j \in 1..n : indices[j] = v
  OBVIOUS
<1>2. IsFiniteSet(1..n) /\ Cardinality(1..n) = n
  BY FS_Interval
<1>3. IsFiniteSet(S) /\ Cardinality(S) = n
  <2>1. ExistsBijection(1..n, S)
    <3>1. \A i, j \in 1..n : indices[i] = indices[j] => i = j
      <4>1. \A i, j \in 1..n : i < j => indices[i] < indices[j]
        BY DEF Ascending
      <4>2. \A i, j \in 1..n : i < j \/ i = j \/ j < i
        OBVIOUS
      <4>3. \A i \in 1..n : indices[i] \in Int
        OBVIOUS
      <4> QED
        BY <4>1, <4>2, <4>3
    <3> HIDE DEF S
    <3>2. indices \in Injection(1..n, S) /\ indices \in Surjection(1..n, S)
      BY <1>1, <3>1 DEF Injection, IsInjective, Surjection
    <3> QED
      BY <3>2 DEF ExistsBijection, Bijection
  <2> HIDE DEF S
  <2> QED
    BY <1>2, <2>1, FS_Bijection
<1> HIDE DEF S
<1>4. PICK s \in [1..n -> S] : Ascending(s) /\ s = InAscendingOrder(S)
  BY <1>1, <1>3 DEF InAscendingOrder
<1>5. \A v \in S : \E j \in 1..n : s[j] = v
  <2>1. \A i, j \in 1..n : s[i] = s[j] => i = j
    <3>1. \A i, j \in 1..n : i < j => s[i] < s[j]
      BY <1>4 DEF Ascending
    <3>2. \A i, j \in 1..n : i < j \/ i = j \/ j < i
      OBVIOUS
    <3>3. \A i \in 1..n : s[i] \in Int
      BY <1>1
    <3> QED
      BY <3>1, <3>2, <3>3
  <2>2. s \in Injection(1..n, S)
    BY <2>1 DEF Injection, IsInjective
  <2>3. s \in Surjection(1..n, S)
    BY <1>2, <1>3, <2>2, FS_Injection
  <2> QED
    BY <2>3 DEF Surjection
<1> DEFINE T == {k \in Nat : \A j \in 1..k : j <= n => s[j] = indices[j]}
<1>6. 0 \in T
  OBVIOUS
<1>7. ASSUME NEW k \in Nat, k \in T PROVE k + 1 \in T
  <2>1. ASSUME k + 1 <= n PROVE s[k + 1] = indices[k + 1]
    <3>1. k + 1 \in 1..n /\ AgreeBefore(s, indices, k + 1) /\ AgreeBefore(indices, s, k + 1)
      BY <1>7, <2>1 DEF AgreeBefore
    <3>2. indices[k + 1] <= s[k + 1]
      BY <1>1, <1>4, <3>1, AscendingIsLeast
    <3>3. s[k + 1] <= indices[k + 1]
      BY <1>1, <1>4, <1>5, <3>1, AscendingIsLeast
    <3>4. s[k + 1] \in Int /\ indices[k + 1] \in Int
      BY <1>1, <3>1
    <3> QED
      BY <3>2, <3>3, <3>4
  <2>2. \A j \in 1..k + 1 : j \in 1..k \/ j = k + 1
    OBVIOUS
  <2> QED
    BY <1>7, <2>1, <2>2
<1>8. \A k \in Nat : k \in T
  <2> HIDE DEF T
  <2> QED
    BY <1>6, <1>7, Induction
<1>9. \A j \in 1..n : s[j] = indices[j]
  BY <1>8
<1>10. s = indices
  BY <1>1, <1>9
<1> QED
  BY <1>4, <1>10 DEF S

\* The values at the columns, if these are in order.
LEMMA ValuesAtColumns ==
  ASSUME NEW n \in Nat, NEW e \in Nat, NEW indices \in [1..n -> 0..e - 1], Ascending(indices),
         NEW result, Len(result) = e
  PROVE  ValuesOfColumns(result, indices) = [k \in 1..n |-> result[indices[k] + 1]]
<1>1. {i \in ToSet(indices) : i < Len(result)} = {indices[i] : i \in 1..n}
  BY DEF ToSet
<1>2. InAscendingOrder({indices[i] : i \in 1..n}) = indices
  BY AscendingOrder
<1> QED
  BY <1>1, <1>2 DEF ValuesOfColumns

\* An honest evaluation agrees with its own columns.
LEMMA HonestColumnsAgree ==
  ASSUME NEW n \in Nat, NEW commit, NEW e \in Nat, commit.dims.enc = e,
         NEW indices \in [1..n -> 0..e - 1], Ascending(indices), NEW left
  PROVE  PartialEvaluationOk(left, ResultVector(commit, left), indices,
                             RetrieveColumns(commit, indices))
<1> DEFINE result  == ResultVector(commit, left)
           columns == RetrieveColumns(commit, indices)
<1>1. result = [c \in 1..e |-> VectorMultiply(left, ColumnOf(commit.comm, c - 1))]
  BY DEF ResultVector
<1>2. columns = [i \in 1..n |-> OpenColumn(commit, indices[i])]
  BY DEF RetrieveColumns
<1>3. Len(result) = e /\ Len(columns) = n
  BY <1>1, <1>2
<1>4. ASSUME NEW i \in 1..n
      PROVE  VectorMultiply(left, columns[i].col) = result[indices[i] + 1]
  <2>1. indices[i] + 1 \in 1..e /\ (indices[i] + 1) - 1 = indices[i]
    OBVIOUS
  <2>2. columns[i].col = ColumnOf(commit.comm, indices[i])
    BY <1>2 DEF OpenColumn
  <2>3. result[indices[i] + 1] = VectorMultiply(left, ColumnOf(commit.comm, indices[i]))
    BY <1>1, <2>1
  <2> HIDE DEF result, columns
  <2> QED
    BY <2>2, <2>3
<1> HIDE DEF result, columns
<1>5. ValuesOfColumns(result, indices) = [k \in 1..n |-> result[indices[k] + 1]]
  BY <1>3, ValuesAtColumns
<1>6. \A i \in 1..Lesser(Len(ValuesOfColumns(result, indices)), Len(columns)) : i \in 1..n
  BY <1>3, <1>5 DEF Lesser
<1> QED
  BY <1>4, <1>5, <1>6 DEF PartialEvaluationOk, result, columns
-----------------------------------------------------------------------------
(* Elements know their bytes.                                              *)

\* A number of digits has no other digits.
LEMMA DigitsDiffer ==
  ASSUME NEW a, IsChunk(a), NEW b, IsChunk(b),
         Sum(Weights(a), BYTE_CAPACITY) = Sum(Weights(b), BYTE_CAPACITY)
  PROVE  a = b
<1> DEFINE n == BYTE_CAPACITY
           v == Weights(a)
           w == Weights(b)
<1>1. n \in Nat \ {0}
  BY PlaceSteps
<1>2. /\ v \in Terms /\ w \in Terms
      /\ \A i \in 0..n - 1 : /\ a[i + 1] \in 0..RADIX - 1 /\ b[i + 1] \in 0..RADIX - 1
                             /\ v[i] = a[i + 1] * Place[i] /\ w[i] = b[i + 1] * Place[i]
      /\ \A k \in 0..n : Sum(v, k) \in 0..Place[k] - 1 /\ Sum(w, k) \in 0..Place[k] - 1
  BY WeightsCount
<1>3. Sum(v, n) = Sum(w, n)
  OBVIOUS
<1> HIDE DEF v, w, n
<1>4. ASSUME NEW k \in 0..n - 1, Sum(v, k + 1) = Sum(w, k + 1)
      PROVE  Sum(v, k) = Sum(w, k) /\ a[k + 1] = b[k + 1]
  <2>1. k \in Nat /\ k \in 0..n
    BY <1>1
  <2>2. PICK p \in Nat \ {0} : p = Place[k]
    BY <2>1, PlaceSteps DEF n
  <2>3. PICK s \in 0..p - 1 : s = Sum(v, k)
    BY <1>2, <2>1, <2>2
  <2>4. PICK t \in 0..p - 1 : t = Sum(w, k)
    BY <1>2, <2>1, <2>2
  <2>5. PICK c \in Int : c = a[k + 1]
    BY <1>2, PlaceSteps
  <2>6. PICK d \in Int : d = b[k + 1]
    BY <1>2, PlaceSteps
  <2>7. Sum(v, k + 1) = c * p + s
    <3>1. Sum(v, k + 1) = Sum(v, k) + v[k]
      BY <1>2, <2>1, SumSteps
    <3>2. v[k] = c * p
      BY <1>2, <2>2, <2>5
    <3> QED
      BY <2>3, <3>1, <3>2
  <2>8. Sum(w, k + 1) = d * p + t
    <3>1. Sum(w, k + 1) = Sum(w, k) + w[k]
      BY <1>2, <2>1, SumSteps
    <3>2. w[k] = d * p
      BY <1>2, <2>2, <2>6
    <3> QED
      BY <2>4, <3>1, <3>2
  <2>9. c * p + s = d * p + t
    BY <1>4, <2>7, <2>8
  <2>10. /\ (c * p + s) \div p = c /\ (c * p + s) % p = s
         /\ (d * p + t) \div p = d /\ (d * p + t) % p = t
    BY DivisionUnique
  <2>11. c = d /\ s = t
    BY <2>9, <2>10
  <2> QED
    BY <2>3, <2>4, <2>5, <2>6, <2>11
<1> DEFINE S == {j \in Nat : j <= n => Sum(v, n - j) = Sum(w, n - j)}
<1>5. 0 \in S
  BY <1>1, <1>3
<1>6. ASSUME NEW j \in Nat, j \in S PROVE j + 1 \in S
  <2>1. SUFFICES ASSUME j + 1 <= n PROVE Sum(v, n - (j + 1)) = Sum(w, n - (j + 1))
    OBVIOUS
  <2>2. n - (j + 1) \in 0..n - 1 /\ (n - (j + 1)) + 1 = n - j /\ j <= n
    BY <1>1, <2>1
  <2>3. Sum(v, (n - (j + 1)) + 1) = Sum(w, (n - (j + 1)) + 1)
    BY <1>6, <2>2
  <2> QED
    BY <1>4, <2>2, <2>3
<1>7. \A j \in Nat : j \in S
  <2> HIDE DEF S
  <2> QED
    BY <1>5, <1>6, Induction
<1>8. ASSUME NEW i \in 1..n PROVE a[i] = b[i]
  <2>1. i - 1 \in 0..n - 1 /\ (i - 1) + 1 = i /\ n - i \in Nat /\ n - (n - i) = i /\ n - i <= n
    BY <1>1
  <2>2. Sum(v, i) = Sum(w, i)
    BY <1>7, <2>1
  <2> QED
    BY <1>4, <2>1, <2>2
<1>9. a \in [1..n -> Bytes] /\ b \in [1..n -> Bytes]
  BY DEF IsChunk, n
<1>10. a = [i \in 1..n |-> a[i]] /\ b = [i \in 1..n |-> b[i]]
  BY <1>9, Zenon
<1> QED
  BY <1>8, <1>10, Zenon

\* The Montgomery radix has an inverse.
LEMMA RadixInverts ==
  \E y \in Field : Times(FieldInverse(LIMBS % MODULUS), y) = 1
<1>1. LIMBS \in Nat /\ LIMBS % MODULUS # 0
  BY FieldAssumption, Zenon
<1>2. LIMBS % MODULUS \in Field
  BY <1>1, Reduced
<1> QED
  BY <1>1, <1>2, Inverts

\* Different bytes are different elements.
LEMMA ElementsDiffer ==
  ASSUME NEW a, IsChunk(a), NEW b, IsChunk(b), FromDataBytes(a) = FromDataBytes(b)
  PROVE  a = b
<1> DEFINE s == Sum(Weights(a), BYTE_CAPACITY)
           t == Sum(Weights(b), BYTE_CAPACITY)
           inv == FieldInverse(LIMBS % MODULUS)
<1>1. /\ s \in Field /\ t \in Field /\ inv \in Field
      /\ Times(s, inv) = Times(t, inv)
  BY ElementOfBytes
<1>2. PICK y \in Field : Times(inv, y) = 1
  BY RadixInverts
<1> HIDE DEF s, t, inv
<1>3. \A c \in Field : Times(Times(c, inv), y) = c
  <2>1. \A c, d, e \in Field : Times(Times(c, d), e) = Times(c, Times(d, e))
    BY TimesRules
  <2> QED
    BY <1>1, <1>2, <2>1, TimesRules
<1>4. s = t
  BY <1>1, <1>3
<1> QED
  BY <1>4, DigitsDiffer DEF s, t

-----------------------------------------------------------------------------
(* Elements of a file.                                                     *)

\* The bytes of the element behind k elements.
ChunkOf(content, k) ==
  PaddedChunk(SubSeq(content, k * BYTE_CAPACITY + 1, Len(content)))

LEMMA ChunksOfFile ==
  ASSUME NEW content \in Content
  PROVE  /\ Len(content) \in Nat
         /\ \A k \in Nat :
              /\ k * BYTE_CAPACITY \in Nat
              /\ IsChunk(ChunkOf(content, k))
              /\ \A j \in 0..BYTE_CAPACITY - 1 :
                   ChunkOf(content, k)[j + 1] =
                     IF k * BYTE_CAPACITY + j < Len(content)
                       THEN content[(k * BYTE_CAPACITY + j) + 1] ELSE 0
         /\ \A k \in 0..FieldLen(content) - 1 :
              FromByteVec(content)[k + 1] = FromDataBytes(ChunkOf(content, k))
<1>1. content \in Seq(Bytes) /\ Len(content) \in Nat
  BY DEF Content
<1>2. BYTE_CAPACITY \in Nat \ {0}
  BY PlaceSteps
<1>3. ASSUME NEW k \in Nat
      PROVE  /\ k * BYTE_CAPACITY \in Nat
             /\ IsChunk(ChunkOf(content, k))
             /\ \A j \in 0..BYTE_CAPACITY - 1 :
                  ChunkOf(content, k)[j + 1] =
                    IF k * BYTE_CAPACITY + j < Len(content)
                      THEN content[(k * BYTE_CAPACITY + j) + 1] ELSE 0
  <2>1. PICK m \in Nat : m = k * BYTE_CAPACITY
    BY <1>2
  <2> DEFINE rest == SubSeq(content, m + 1, Len(content))
  <2>2. /\ rest \in Seq(Bytes)
        /\ Len(rest) = IF m <= Len(content) THEN Len(content) - m ELSE 0
        /\ \A i \in 1..Len(content) - m : rest[i] = content[m + i]
    BY <1>1, Middle
  <2>3. ChunkOf(content, k) = PaddedChunk(rest)
    BY <2>1 DEF ChunkOf
  <2> HIDE DEF rest
  <2>4. IsChunk(PaddedChunk(rest))
    BY <2>2, PaddedIsChunk DEF Content
  <2>5. ASSUME NEW j \in 0..BYTE_CAPACITY - 1
        PROVE  PaddedChunk(rest)[j + 1] = IF m + j < Len(content) THEN content[(m + j) + 1] ELSE 0
    <3>1. j + 1 \in 1..BYTE_CAPACITY
      BY <1>2
    <3>2. PaddedChunk(rest)[j + 1] = IF j + 1 <= Len(rest) THEN rest[j + 1] ELSE 0
      BY <3>1 DEF PaddedChunk
    <3>3. CASE m + j < Len(content)
      <4>1. j + 1 \in 1..Len(content) - m /\ m <= Len(content) /\ m + (j + 1) = (m + j) + 1
        BY <1>1, <3>3
      <4>2. j + 1 <= Len(rest) /\ rest[j + 1] = content[(m + j) + 1]
        BY <1>1, <2>2, <4>1
      <4> QED
        BY <3>2, <3>3, <4>2
    <3>4. CASE ~ (m + j < Len(content))
      <4>1. ~ (j + 1 <= Len(rest))
        BY <1>1, <2>2, <3>4
      <4> QED
        BY <3>2, <3>4, <4>1
    <3> QED
      BY <3>3, <3>4
  <2> QED
    BY <2>1, <2>3, <2>4, <2>5
<1>4. FieldLen(content) \in Nat
  BY FileIsVector
<1>5. ASSUME NEW k \in 0..FieldLen(content) - 1
      PROVE  FromByteVec(content)[k + 1] = FromDataBytes(ChunkOf(content, k))
  <2>1. k + 1 \in 1..FieldLen(content) /\ (k + 1) - 1 = k
    BY <1>4
  <2> QED
    BY <2>1 DEF FromByteVec, ChunkOf
<1> QED
  BY <1>1, <1>3, <1>5

\* A number is so many whole pieces and a rest.
LEMMA Quotient ==
  ASSUME NEW i \in Nat, NEW m \in Nat \ {0}
  PROVE  /\ i \div m \in Nat
         /\ i % m \in 0..m - 1
         /\ i = (i \div m) * m + (i % m)
<1> DEFINE d == i \div m
           r == i % m
<1>1. d \in Int /\ r \in 0..m - 1 /\ i = d * m + r
  BY Division
<1> HIDE DEF d, r
<1>2. ASSUME d + 1 <= 0 PROVE FALSE
  <2>1. (d + 1) * m <= 0 * m
    BY <1>1, <1>2, MultiplesGrow
  <2>2. (d + 1) * m = d * m + m
    BY <1>1
  <2> QED
    BY <1>1, <2>1, <2>2
<1> QED
  BY <1>1, <1>2 DEF d, r

\* Where a byte is.
LEMMA PlaceOfByte ==
  ASSUME NEW i \in Nat
  PROVE  /\ i \div BYTE_CAPACITY \in Nat
         /\ i % BYTE_CAPACITY \in 0..BYTE_CAPACITY - 1
         /\ i = (i \div BYTE_CAPACITY) * BYTE_CAPACITY + (i % BYTE_CAPACITY)
<1>1. BYTE_CAPACITY \in Nat \ {0}
  BY PlaceSteps
<1> QED
  BY <1>1, Quotient

\* Files of the same length have the same elements only if they are the same.
LEMMA FilesDiffer ==
  ASSUME NEW a \in Content, NEW b \in Content, Len(a) = Len(b), FromByteVec(a) = FromByteVec(b)
  PROVE  a = b
<1>1. Len(a) \in Nat /\ FieldLen(a) = FieldLen(b) /\ BYTE_CAPACITY \in Nat \ {0}
  BY PlaceSteps DEF Content, FieldLen
<1>2. FieldLen(a) \in Nat /\ \A k \in Nat : k < FieldLen(a) <=> k * BYTE_CAPACITY < Len(a)
  BY <1>1, PiecesBegin DEF FieldLen
<1>3. ASSUME NEW i \in 0..Len(a) - 1 PROVE a[i + 1] = b[i + 1]
  <2> DEFINE k == i \div BYTE_CAPACITY
             j == i % BYTE_CAPACITY
  <2>0. i \in Nat
    BY <1>1
  <2>1. k \in Nat /\ j \in 0..BYTE_CAPACITY - 1 /\ i = k * BYTE_CAPACITY + j
    BY <2>0, PlaceOfByte
  <2> HIDE DEF k, j
  <2>2. k * BYTE_CAPACITY \in Nat /\ k * BYTE_CAPACITY < Len(a)
    BY <1>1, <2>1
  <2>3. k \in 0..FieldLen(a) - 1
    <3>1. k < FieldLen(a)
      BY <1>2, <2>1, <2>2
    <3> QED
      BY <1>2, <2>1, <3>1
  <2>4. FromDataBytes(ChunkOf(a, k)) = FromDataBytes(ChunkOf(b, k))
    BY <1>1, <2>3, ChunksOfFile
  <2>5. ChunkOf(a, k) = ChunkOf(b, k)
    <3>1. IsChunk(ChunkOf(a, k)) /\ IsChunk(ChunkOf(b, k))
      BY <2>1, ChunksOfFile, Zenon
    <3> QED
      BY <2>4, <3>1, ElementsDiffer, Zenon
  <2>6. ChunkOf(a, k)[j + 1] = a[i + 1] /\ ChunkOf(b, k)[j + 1] = b[i + 1]
    BY <1>1, <2>1, ChunksOfFile
  <2> QED
    BY <2>5, <2>6
<1>4. \A i \in 1..Len(a) : a[i] = b[i]
  <2>1. \A i \in 1..Len(a) : i - 1 \in 0..Len(a) - 1 /\ (i - 1) + 1 = i
    BY <1>1
  <2> QED
    BY <1>3, <2>1
<1> QED
  BY <1>1, <1>4 DEF Content
-----------------------------------------------------------------------------
(* Evaluations of commitments.                                             *)

\* The coefficients and the encoded rows of a commitment with n rows.
HasRows(commit, elements, shape, n) ==
  /\ commit.dims = shape
  /\ commit.coeffs = [r \in 1..n |-> CoefficientRow(elements, shape, r)]
  /\ commit.comm = [r \in 1..n |-> Encode(commit.coeffs[r])]
  /\ IsRows(commit.coeffs, n, shape.enc)
  /\ Len(commit.comm) = n /\ DOMAIN commit.comm = 1..n

LEMMA CommitmentRows ==
  ASSUME NEW elements, NEW l \in Nat, Vector(elements, l), NEW shape \in Shapes,
         NEW n \in Nat, n = CeilDiv(l, shape.pre)
  PROVE  HasRows(CommitTo(elements, shape), elements, shape, n)
<1> DEFINE A == [r \in 1..n |-> CoefficientRow(elements, shape, r)]
<1>1. CoefficientRows(elements, shape) = A
  BY VectorElements DEF CoefficientRows
<1>2. DOMAIN A = 1..n
  OBVIOUS
<1>3. IsRows(A, n, shape.enc)
  <2>1. \A r \in 1..n : r \in Nat \ {0}
    OBVIOUS
  <2>2. \A r \in 1..n : CoefficientRow(elements, shape, r) \in [1..shape.enc -> Field]
    BY <2>1, RowIsVector DEF Vector
  <2> QED
    BY <2>2 DEF IsRows
<1> HIDE DEF A
<1>4. /\ CommitTo(elements, shape).dims = shape
      /\ CommitTo(elements, shape).coeffs = A
      /\ CommitTo(elements, shape).comm = [r \in 1..n |-> Encode(A[r])]
  BY <1>1, <1>2 DEF CommitTo
<1> QED
  BY <1>3, <1>4 DEF A, HasRows

\* A result vector is the encoding of the combined coefficients.
LEMMA ResultIsCombined ==
  ASSUME NEW elements, NEW l \in Nat, Vector(elements, l), NEW shape \in Shapes,
         NEW n \in Nat, n = CeilDiv(l, shape.pre), NEW left, Vector(left, n)
  PROVE  LET commit == CommitTo(elements, shape)
             combined == Combined(left, commit.coeffs, n, shape.enc)
         IN  /\ ResultVector(commit, left) = Encode(combined)
             /\ Vector(combined, shape.enc)
             /\ Decode(ResultVector(commit, left)) = combined
<1> DEFINE commit == CommitTo(elements, shape)
           A == commit.coeffs
           B == commit.comm
           combined == Combined(left, A, n, shape.enc)
<1>1. /\ commit.dims = shape /\ IsRows(A, n, shape.enc)
      /\ B = [r \in 1..n |-> Encode(A[r])] /\ DOMAIN B = 1..n
  <2>1. HasRows(CommitTo(elements, shape), elements, shape, n)
    BY CommitmentRows
  <2> QED
    BY <2>1 DEF HasRows
<1>2. CodeLength(shape.enc) /\ shape.enc \in Nat
  BY ShapesAreCodeLengths DEF CodeLength
<1> HIDE DEF A, B
<1>3. Encode(combined) = Combined(left, B, n, shape.enc)
  BY <1>1, <1>2, CombinedEncodes
<1>4. ResultVector(commit, left) = Combined(left, B, n, shape.enc)
  <2>1. ASSUME NEW c \in 1..shape.enc
        PROVE  ColumnOf(B, c - 1) = [r \in 1..n |-> B[r][c]]
    <3>1. (c - 1) + 1 = c
      BY <1>2
    <3> QED
      BY <1>1, <3>1 DEF ColumnOf
  <2> QED
    BY <1>1, <2>1 DEF ResultVector, Combined, B
<1>5. Vector(combined, shape.enc)
  BY <1>1, <1>2, CombinedIsVector
<1> HIDE DEF combined, commit
<1>6. Decode(Encode(combined)) = combined
  BY <1>2, <1>5, DecodingUndoesEncoding
<1> QED
  BY <1>3, <1>4, <1>5, <1>6 DEF combined, commit, A

\* The combined coefficients have the value of the file's polynomial.
LEMMA CombinedEvaluates ==
  ASSUME NEW elements, NEW l \in Nat, Vector(elements, l), NEW shape \in Shapes,
         NEW n \in Nat, n = CeilDiv(l, shape.pre), NEW x \in Field
  PROVE  VectorMultiply(Combined(LeftVector(x, n, shape.pre), CommitTo(elements, shape).coeffs,
                                 n, shape.enc),
                        RightVector(x, shape.pre))
           = Evaluate(elements, x)
<1> DEFINE A == CommitTo(elements, shape).coeffs
           m == shape.pre
           left == LeftVector(x, n, m)
           right == RightVector(x, m)
           b == [r \in 1..n |-> VectorMultiply(A[r], right)]
<1>1. IsRows(A, n, shape.enc) /\ A = [r \in 1..n |-> CoefficientRow(elements, shape, r)]
  <2>1. HasRows(CommitTo(elements, shape), elements, shape, n)
    BY CommitmentRows
  <2> QED
    BY <2>1 DEF HasRows
<1>2. shape.enc \in Nat /\ m \in Nat \ {0} /\ m \in 0..shape.enc
  BY ShapesAreCodeLengths DEF CodeLength
<1>3. Vector(left, n)
  BY <1>2, LeftIsVector
<1>4. Vector(right, m)
  <2>1. \A c \in 1..m : c - 1 \in Nat
    BY <1>2
  <2> QED
    BY <2>1, PowerTimes DEF Vector, RightVector
<1>5. \A r \in 1..n : b[r] = VectorMultiply(CoefficientRow(elements, shape, r), right)
  BY <1>1
<1>6. AreProducts(b, A, right, n)
  BY DEF AreProducts
<1> HIDE DEF A, b, left, right, m
<1>7. VectorMultiply(Combined(left, A, n, shape.enc), right) = VectorMultiply(left, b) /\ Vector(b, n)
  BY <1>1, <1>2, <1>3, <1>4, <1>6, CombinedProduct
<1>8. VectorMultiply(LeftVector(x, n, shape.pre), b) = Evaluate(elements, x)
  BY <1>5, <1>7, RowsEvaluate DEF right, m
<1> QED
  BY <1>7, <1>8 DEF left, A, right, m

(* A decoded result vector has the value of the file's polynomial at the   *)
(* point, for every field, shape and file: encoding commutes with the      *)
(* combination of rows (verifiable_full_polynomial_evaluation).            *)
THEOREM CommitmentEvaluates ==
  ASSUME NEW elements, NEW l \in Nat, Vector(elements, l), NEW shape \in Shapes,
         NEW n \in Nat, n = CeilDiv(l, shape.pre), NEW x \in Field
  PROVE  VectorMultiply(Decode(ResultVector(CommitTo(elements, shape),
                                            LeftVector(x, n, shape.pre))),
                        RightVector(x, shape.pre))
           = Evaluate(elements, x)
<1>1. shape.pre \in Nat
  BY ShapesAreCodeLengths
<1>2. Vector(LeftVector(x, n, shape.pre), n)
  BY <1>1, LeftIsVector
<1> QED
  BY <1>2, ResultIsCombined, CombinedEvaluates
-----------------------------------------------------------------------------
(* The value of a file's polynomial as a sum over its bytes.               *)

\* What a byte counts with p bytes before it.
Counts(x, p) == Place[p % BYTE_CAPACITY] * Power(x, p \div BYTE_CAPACITY)

\* The bytes of content with p bytes before them.
AtBytes(content, x, p) ==
  [j \in Nat |-> IF j < Len(content) THEN content[j + 1] * Counts(x, p + j) ELSE 0]

BytesValue(content, x, p) == Sum(AtBytes(content, x, p), Len(content))

LEMMA CountsAreNumbers ==
  ASSUME NEW x \in Field, NEW p \in Nat
  PROVE  Counts(x, p) \in Int
<1>1. p \div BYTE_CAPACITY \in Nat /\ p % BYTE_CAPACITY \in 0..BYTE_CAPACITY - 1
  BY PlaceOfByte
<1>2. p % BYTE_CAPACITY \in 0..BYTE_CAPACITY
  BY <1>1, PlaceSteps
<1>3. Place[p % BYTE_CAPACITY] \in Int
  BY <1>2, PlaceSteps
<1>4. Power(x, p \div BYTE_CAPACITY) \in Int
  BY <1>1, PowerTimes, Reduced
<1> QED
  BY <1>3, <1>4 DEF Counts

LEMMA BytesAreTerms ==
  ASSUME NEW content \in Content, NEW x \in Field, NEW p \in Nat
  PROVE  /\ Len(content) \in Nat
         /\ AtBytes(content, x, p) \in Terms
         /\ BytesValue(content, x, p) \in Int
         /\ \A j \in 0..Len(content) - 1 :
              /\ content[j + 1] \in Int /\ Counts(x, p + j) \in Int
              /\ AtBytes(content, x, p)[j] = content[j + 1] * Counts(x, p + j)
         /\ \A j \in Nat : Len(content) <= j => AtBytes(content, x, p)[j] = 0
<1>1. /\ Len(content) \in Nat
      /\ \A j \in 0..Len(content) - 1 : content[j + 1] \in Bytes
  BY DEF Content
<1>2. \A byte \in Bytes : byte \in Int
  BY BytesAssumption
<1>3. ASSUME NEW j \in 0..Len(content) - 1
      PROVE  content[j + 1] \in Int /\ Counts(x, p + j) \in Int
  <2>1. p + j \in Nat
    BY <1>1
  <2> QED
    BY <1>1, <1>2, <2>1, CountsAreNumbers
<1>4. ASSUME NEW j \in Nat
      PROVE  (IF j < Len(content) THEN content[j + 1] * Counts(x, p + j) ELSE 0) \in Int
  <2>1. CASE j < Len(content)
    <3>1. j \in 0..Len(content) - 1
      BY <1>1, <2>1
    <3>2. content[j + 1] \in Int /\ Counts(x, p + j) \in Int
      BY <1>3, <3>1
    <3>3. \A a, b \in Int : a * b \in Int
      OBVIOUS
    <3> QED
      BY <2>1, <3>2, <3>3
  <2> QED
    BY <2>1
<1>5. AtBytes(content, x, p) \in Terms
  BY <1>4 DEF AtBytes, Terms
<1>6. \A j \in 0..Len(content) - 1 : j \in Nat /\ j < Len(content)
  BY <1>1
<1>7. \A j \in Nat : Len(content) <= j => ~ (j < Len(content))
  BY <1>1
<1>8. BytesValue(content, x, p) \in Int
  BY <1>1, <1>5, SumSteps DEF BytesValue
<1> QED
  BY <1>1, <1>3, <1>5, <1>6, <1>7, <1>8 DEF AtBytes

\* The terms of the sum over the bytes, by name.
CountBytes(f, content, x, p) ==
  f \in Terms /\ \A j \in 0..Len(content) - 1 : f[j] = content[j + 1] * Counts(x, p + j)

LEMMA BytesAreCounted ==
  ASSUME NEW content \in Content, NEW x \in Field, NEW p \in Nat
  PROVE  CountBytes(AtBytes(content, x, p), content, x, p)
BY BytesAreTerms DEF CountBytes

\* An evaluation counts the bytes.
LEMMA BytesEvaluate ==
  ASSUME NEW content \in Content, NEW x \in Field, NEW d \in Nat
  PROVE  /\ EvaluateFrom(FromByteVec(content), x, d) \in Field
         /\ EvaluateFrom(FromByteVec(content), x, d)
              = (FieldInverse(LIMBS % MODULUS) * BytesValue(content, x, d * BYTE_CAPACITY)) % MODULUS
<1> DEFINE m == BYTE_CAPACITY
           l == Len(content)
           n == FieldLen(content)
           v == FromByteVec(content)
           inv == FieldInverse(LIMBS % MODULUS)
           f == AtBytes(content, x, d * m)
           F == Blocks(f, m)
           g == [k \in Nat |-> Sum(F[k], m)]
           t == [k \in Nat |-> inv * g[k]]
<1>1. /\ m \in Nat \ {0} /\ l \in Nat /\ d * m \in Nat
      /\ \A k \in Nat : k * m \in Nat
  BY PlaceSteps, BytesAreTerms
<1>2. /\ n \in Nat /\ Vector(v, n)
      /\ \A k \in Nat : k < n <=> k * m < l
  <2>1. \A k \in Nat : k < CeilDiv(l, m) <=> k * m < l
    BY <1>1, PiecesBegin
  <2> QED
    BY <2>1, FileIsVector DEF FieldLen
<1>3. inv \in Field /\ inv \in Int
  BY RadixInverts, ElementOfBytes, ChunksOfFile, Reduced
<1>4. /\ f \in Terms
      /\ \A j \in 0..l - 1 : /\ content[j + 1] \in Int /\ Counts(x, d * m + j) \in Int
                             /\ f[j] = content[j + 1] * Counts(x, d * m + j)
      /\ \A j \in Nat : l <= j => f[j] = 0
  BY <1>1, BytesAreTerms
<1> HIDE DEF f, m, l, n, v, inv
<1>5. F \in [Nat -> Terms] /\ \A k, j \in Nat : F[k][j] = f[k * m + j]
  <2>1. \A i, j \in Nat : f[i + j] \in Int
    BY <1>4 DEF Terms
  <2>2. \A k \in Nat : [j \in Nat |-> f[k * m + j]] \in Terms
    BY <1>1, <2>1 DEF Terms
  <2> QED
    BY <2>2 DEF Blocks
<1>6. g \in Terms /\ SumsOf(g, F, m)
  <2> HIDE DEF F
  <2>1. \A k \in Nat : Sum(F[k], m) \in Int
    BY <1>1, <1>5, SumSteps
  <2> QED
    BY <2>1 DEF Terms, SumsOf
<1>7. Sum(f, l) = Sum(g, n)
  <2>1. PICK k \in Nat : k = n * m
    BY <1>1, <1>2
  <2>2. l <= k
    BY <1>1, <1>2, <2>1
  <2>3. \A j \in l..k - 1 : f[j] = 0
    BY <1>1, <1>4
  <2>4. Sum(f, k) = Sum(f, l)
    BY <1>1, <1>4, <2>2, <2>3, SumTail
  <2>5. \A j \in Nat : Sum(f, j * m) = Sum(g, j)
    <3> HIDE DEF g
    <3> QED
      BY <1>1, <1>4, <1>6, SumBlocks DEF F
  <2> QED
    BY <1>2, <2>1, <2>4, <2>5
<1> HIDE DEF F, g
<1>8. t \in Terms /\ \A k \in Nat : t[k] = inv * g[k]
  <2>1. \A a, b \in Int : a * b \in Int
    OBVIOUS
  <2>2. \A k \in Nat : g[k] \in Int
    BY <1>6 DEF Terms
  <2> QED
    BY <1>3, <2>1, <2>2 DEF Terms
<1> HIDE DEF t
<1>9. Sum(t, n) = inv * Sum(g, n)
  BY <1>2, <1>3, <1>6, <1>8, SumScales
<1>10. ASSUME NEW k \in 0..n - 1 PROVE Same(t[k], v[k + 1] * Power(x, d + k))
  <2> DEFINE chunk == ChunkOf(content, k)
             w == Weights(chunk)
             h == F[k]
             s == Sum(w, m)
             c == Power(x, d + k)
             u == [j \in Nat |-> c * w[j]]
  <2>1. k \in Nat /\ d + k \in Nat
    BY <1>2
  <2>2. IsChunk(chunk) /\ v[k + 1] = FromDataBytes(chunk)
    BY <2>1, ChunksOfFile DEF v, n
  <2>3. \A j \in 0..m - 1 :
          chunk[j + 1] = IF k * m + j < l THEN content[(k * m + j) + 1] ELSE 0
    BY <2>1, ChunksOfFile DEF m, l
  <2> HIDE DEF chunk
  <2>4. /\ w \in Terms
        /\ \A j \in 0..m - 1 : w[j] = chunk[j + 1] * Place[j] /\ Place[j] \in Int
    <3>1. \A j \in 0..m - 1 : j \in 0..BYTE_CAPACITY
      BY <1>1 DEF m
    <3> QED
      BY <2>2, <3>1, WeightsCount, PlaceSteps DEF m
  <2>5. s \in Field /\ v[k + 1] = Times(s, inv)
    BY <2>2, ElementOfBytes DEF m, inv
  <2>6. c \in Field /\ c \in Int
    <3>1. c \in Field
      BY <2>1, PowerTimes
    <3> QED
      BY <3>1, Reduced
  <2> HIDE DEF w, c
  <2>7. u \in Terms /\ \A j \in Nat : u[j] = c * w[j]
    <3>1. \A a, b \in Int : a * b \in Int
      OBVIOUS
    <3>2. \A j \in Nat : w[j] \in Int
      BY <2>4 DEF Terms
    <3> QED
      BY <2>6, <3>1, <3>2 DEF Terms
  <2> HIDE DEF u
  <2>8. Sum(u, m) = c * s
    BY <1>1, <2>4, <2>6, <2>7, SumScales
  <2>9. h \in Terms /\ \A j \in Nat : h[j] = f[k * m + j]
    BY <1>5, <2>1
  <2>10. \A j \in 0..m - 1 : h[j] = u[j]
    <3>1. TAKE j \in 0..m - 1
    <3>2. PICK i \in Nat : i = k * m + j
      BY <1>1, <2>1
    <3>3. j \in Nat /\ h[j] = f[i] /\ u[j] = c * (chunk[j + 1] * Place[j])
      BY <2>4, <2>7, <2>9, <3>2
    <3>4. CASE i < l
      <4>1. i \in 0..l - 1
        BY <1>1, <3>2, <3>4
      <4>2. PICK b \in Int : b = content[i + 1]
        BY <1>4, <4>1
      <4>3. chunk[j + 1] = b
        BY <2>3, <3>2, <3>4, <4>2
      <4>4. Counts(x, d * m + i) = Place[j] * c
        <5>1. d * m + i = (d + k) * m + j
          <6>1. (d + k) * m = d * m + k * m
            BY <1>1, <2>1
          <6> QED
            BY <1>1, <2>1, <3>2, <6>1
        <5>2. PICK q \in Nat : q = d + k
          BY <2>1
        <5>3. (q * m + j) \div m = q /\ (q * m + j) % m = j
          <6>1. m \in Nat \ {0} /\ q \in Int /\ j \in 0..m - 1
            BY <1>1, <5>2
          <6> QED
            BY <6>1, DivisionUnique, Zenon
        <5> QED
          BY <5>1, <5>2, <5>3 DEF Counts, c, m
      <4>5. PICK a \in Int : a = Place[j]
        BY <2>4
      <4>6. f[i] = b * (a * c)
        BY <1>4, <4>1, <4>2, <4>4, <4>5
      <4>7. b * (a * c) = c * (b * a)
        BY <2>6
      <4> QED
        BY <3>3, <4>3, <4>5, <4>6, <4>7
    <3>5. CASE ~ (i < l)
      <4>1. f[i] = 0
        BY <1>1, <1>4, <3>2, <3>5
      <4>2. chunk[j + 1] = 0
        BY <2>3, <3>2, <3>5
      <4>3. c * (0 * Place[j]) = 0
        BY <2>4, <2>6
      <4> QED
        BY <3>3, <4>1, <4>2, <4>3
    <3> QED
      BY <3>4, <3>5
  <2> HIDE DEF h
  <2>11. Sum(h, m) = Sum(u, m)
    BY <1>1, <2>7, <2>9, <2>10, SumEqual
  <2>12. g[k] = c * s
    BY <1>6, <2>1, <2>8, <2>11 DEF SumsOf, h
  <2> HIDE DEF s
  <2>13. s \in Int
    BY <2>5, Reduced
  <2>14. t[k] = inv * (c * s)
    BY <1>8, <2>1, <2>12
  <2>15. inv * (c * s) = c * (s * inv)
    BY <1>3, <2>6, <2>13
  <2>16. Same(c * Times(s, inv), c * (s * inv))
    <3>1. s * inv \in Int
      BY <1>3, <2>13
    <3>2. Times(s, inv) \in Int /\ Same(Times(s, inv), s * inv)
      BY <3>1, Reduced DEF Times
    <3> QED
      BY <2>6, <3>1, <3>2, Factors
  <2>17. Times(s, inv) * c = c * Times(s, inv)
    <3>1. Times(s, inv) \in Field
      BY <1>3, <2>5, TimesRules
    <3>2. Times(s, inv) \in Int
      BY <3>1, Reduced
    <3> QED
      BY <2>6, <3>2
  <2> QED
    BY <2>5, <2>14, <2>15, <2>16, <2>17 DEF Same, c
<1>11. EvaluateFrom(v, x, d) = Sum(t, n) % MODULUS
  BY <1>2, <1>8, <1>10, ValueIsSum
<1>12. EvaluateFrom(v, x, d) \in Field
  BY <1>2, ValueInField
<1> QED
  BY <1>7, <1>9, <1>11, <1>12 DEF BytesValue, f, l, v, inv, m
\* The value of content with other content behind it.
LEMMA ValueOfConcat ==
  ASSUME NEW a \in Content, NEW b \in Content, NEW x \in Field, NEW p \in Nat
  PROVE  /\ a \o b \in Content
         /\ Len(a \o b) = Len(a) + Len(b)
         /\ BytesValue(a \o b, x, p) = BytesValue(a, x, p) + BytesValue(b, x, p + Len(a))
<1> DEFINE c == a \o b
           m == Len(a)
           n == Len(b)
           f == AtBytes(c, x, p)
           h == [i \in Nat |-> f[m + i]]
           r == AtBytes(a, x, p)
           s == AtBytes(b, x, p + m)
<1>1. /\ c \in Content /\ m \in Nat /\ n \in Nat /\ Len(c) = m + n
      /\ \A j \in 0..m - 1 : c[j + 1] = a[j + 1]
      /\ \A j \in 0..n - 1 : c[(m + j) + 1] = b[j + 1]
  <2>1. a \in Seq(Bytes) /\ b \in Seq(Bytes)
    BY DEF Content
  <2>2. c \in Seq(Bytes) /\ m \in Nat /\ n \in Nat /\ Len(c) = m + n
    BY <2>1
  <2>3. \A i \in 1..m + n : c[i] = IF i <= m THEN a[i] ELSE b[i - m]
    BY <2>1
  <2>4. \A j \in 0..m - 1 : j + 1 \in 1..m + n /\ j + 1 <= m
    BY <2>2
  <2>5. \A j \in 0..n - 1 : (m + j) + 1 \in 1..m + n /\ ~ ((m + j) + 1 <= m) /\ ((m + j) + 1) - m = j + 1
    BY <2>2
  <2> QED
    BY <2>2, <2>3, <2>4, <2>5 DEF Content
<1> HIDE DEF c, m, n
<1>2. p + m \in Nat
  BY <1>1
<1>3. /\ f \in Terms
      /\ \A j \in 0..m + n - 1 : f[j] = c[j + 1] * Counts(x, p + j)
  <2>1. CountBytes(f, c, x, p)
    BY <1>1, BytesAreCounted
  <2> QED
    BY <1>1, <2>1 DEF CountBytes
<1>4. r \in Terms /\ \A j \in 0..m - 1 : r[j] = a[j + 1] * Counts(x, p + j)
  BY BytesAreTerms DEF m
<1>5. s \in Terms /\ \A j \in 0..n - 1 : s[j] = b[j + 1] * Counts(x, (p + m) + j)
  BY <1>2, BytesAreTerms DEF n
<1> HIDE DEF f, r, s
<1>6. h \in Terms /\ \A j \in Nat : h[j] = f[m + j]
  <2>1. \A j \in Nat : f[m + j] \in Int
    BY <1>1, <1>3 DEF Terms
  <2> QED
    BY <2>1 DEF Terms
<1> HIDE DEF h
<1>7. Sum(f, m + n) = Sum(f, m) + Sum(h, n)
  BY <1>1, <1>3, <1>6, SumSplits
<1>8. Sum(f, m) = Sum(r, m)
  <2>1. \A j \in 0..m - 1 : j \in 0..m + n - 1
    BY <1>1
  <2>2. \A j \in 0..m - 1 : f[j] = r[j]
    BY <1>1, <1>3, <1>4, <2>1
  <2> QED
    BY <1>1, <1>3, <1>4, <2>2, SumEqual
<1>9. Sum(h, n) = Sum(s, n)
  <2>1. \A j \in 0..n - 1 : m + j \in 0..m + n - 1 /\ j \in Nat /\ p + (m + j) = (p + m) + j
    BY <1>1
  <2>2. \A j \in 0..n - 1 : h[j] = s[j]
    BY <1>1, <1>3, <1>5, <1>6, <2>1
  <2> QED
    BY <1>1, <1>5, <1>6, <2>2, SumEqual
<1> QED
  BY <1>1, <1>7, <1>8, <1>9 DEF BytesValue, c, m, n, f, r, s

\* The k bytes behind the first f.
IsPart(part, content, f, k) ==
  /\ part \in Content /\ Len(part) = k
  /\ f + k <= Len(content)
  /\ \A j \in 0..k - 1 : part[j + 1] = content[(f + j) + 1]

\* The value of a part counts in that of the whole.
LEMMA ValueOfPart ==
  ASSUME NEW content \in Content, NEW x \in Field, NEW f \in Nat, NEW k \in Nat,
         NEW part, IsPart(part, content, f, k), NEW F, F = AtBytes(content, x, 0),
         NEW K \in Terms, \A i \in Nat : K[i] = F[(f + k) + i]
  PROVE  BytesValue(content, x, 0)
           = (Sum(F, f) + BytesValue(part, x, f)) + Sum(K, Len(content) - (f + k))
<1> DEFINE l == Len(content)
           h == [i \in Nat |-> F[f + i]]
           r == AtBytes(part, x, f)
<1>1. l \in Nat /\ f + k \in Nat /\ l - (f + k) \in Nat /\ (f + k) + (l - (f + k)) = l
  BY BytesAreTerms DEF IsPart
<1>2. F \in Terms /\ \A j \in 0..l - 1 : F[j] = content[j + 1] * Counts(x, 0 + j)
  <2>1. CountBytes(F, content, x, 0)
    BY BytesAreCounted
  <2> QED
    BY <2>1 DEF CountBytes
<1>3. r \in Terms /\ \A j \in 0..k - 1 : r[j] = part[j + 1] * Counts(x, f + j)
  BY BytesAreTerms DEF IsPart
<1>4. \A j \in 0..k - 1 : part[j + 1] = content[(f + j) + 1]
  BY DEF IsPart
<1> HIDE DEF l, r
<1>5. h \in Terms /\ \A j \in Nat : h[j] = F[f + j]
  <2>1. \A j \in Nat : F[f + j] \in Int
    BY <1>2 DEF Terms
  <2> QED
    BY <2>1 DEF Terms
<1> HIDE DEF h
<1>6. Sum(F, l) = Sum(F, f + k) + Sum(K, l - (f + k))
  BY <1>1, <1>2, SumSplits
<1>7. Sum(F, f + k) = Sum(F, f) + Sum(h, k)
  BY <1>2, <1>5, SumSplits
<1>8. Sum(h, k) = Sum(r, k)
  <2>1. \A j \in 0..k - 1 : j \in Nat /\ f + j \in 0..l - 1 /\ 0 + (f + j) = f + j
    BY <1>1
  <2>2. \A j \in 0..k - 1 : h[j] = r[j]
    BY <1>2, <1>3, <1>4, <1>5, <2>1
  <2> QED
    BY <1>3, <1>5, <2>2, SumEqual
<1> QED
  BY <1>6, <1>7, <1>8 DEF BytesValue, IsPart, l, r

\* Outside the k bytes behind the first f the two are the same.
SameOutside(a, b, f, k) ==
  /\ Len(a) = Len(b)
  /\ \A j \in 0..Len(a) - 1 : j < f \/ f + k <= j => a[j + 1] = b[j + 1]

\* Values differ by the values of the parts that do.
LEMMA ValueOfEdit ==
  ASSUME NEW a \in Content, NEW b \in Content, NEW x \in Field, NEW f \in Nat, NEW k \in Nat,
         SameOutside(a, b, f, k), NEW p, IsPart(p, a, f, k), NEW q, IsPart(q, b, f, k)
  PROVE  BytesValue(a, x, 0) - BytesValue(b, x, 0) = BytesValue(p, x, f) - BytesValue(q, x, f)
<1> DEFINE l == Len(a)
           F == AtBytes(a, x, 0)
           G == AtBytes(b, x, 0)
           M == [i \in Nat |-> F[(f + k) + i]]
           N == [i \in Nat |-> G[(f + k) + i]]
<1>1. /\ l \in Nat /\ Len(b) = l /\ f + k \in Nat /\ l - (f + k) \in Nat
      /\ \A j \in 0..l - 1 : j < f \/ f + k <= j => a[j + 1] = b[j + 1]
  BY BytesAreTerms DEF IsPart, SameOutside
<1>2. F \in Terms /\ \A j \in 0..l - 1 : F[j] = a[j + 1] * Counts(x, 0 + j)
  <2>1. CountBytes(F, a, x, 0)
    BY BytesAreCounted
  <2> QED
    BY <2>1 DEF CountBytes
<1>3. G \in Terms /\ \A j \in 0..l - 1 : G[j] = b[j + 1] * Counts(x, 0 + j)
  <2>1. CountBytes(G, b, x, 0)
    BY BytesAreCounted
  <2> QED
    BY <1>1, <2>1 DEF CountBytes
<1>4. /\ BytesValue(a, x, 0) \in Int /\ BytesValue(b, x, 0) \in Int
      /\ BytesValue(p, x, f) \in Int /\ BytesValue(q, x, f) \in Int
  BY BytesAreTerms DEF IsPart
<1> HIDE DEF l
<1>5. M \in Terms /\ \A i \in Nat : M[i] = F[(f + k) + i]
  <2> HIDE DEF F
  <2>1. \A i \in Nat : F[(f + k) + i] \in Int
    BY <1>1, <1>2 DEF Terms
  <2> QED
    BY <2>1 DEF Terms
<1>6. N \in Terms /\ \A i \in Nat : N[i] = G[(f + k) + i]
  <2> HIDE DEF G
  <2>1. \A i \in Nat : G[(f + k) + i] \in Int
    BY <1>1, <1>3 DEF Terms
  <2> QED
    BY <2>1 DEF Terms
<1> HIDE DEF M, N
<1>7. BytesValue(a, x, 0) = (Sum(F, f) + BytesValue(p, x, f)) + Sum(M, l - (f + k))
  BY <1>5, ValueOfPart DEF l
<1>8. BytesValue(b, x, 0) = (Sum(G, f) + BytesValue(q, x, f)) + Sum(N, l - (f + k))
  <2>1. BytesValue(b, x, 0) = (Sum(G, f) + BytesValue(q, x, f)) + Sum(N, Len(b) - (f + k))
    BY <1>6, ValueOfPart
  <2> QED
    BY <1>1, <2>1
<1> HIDE DEF F, G
<1>9. Sum(F, f) = Sum(G, f)
  <2>1. \A j \in 0..f - 1 : j \in 0..l - 1 /\ j < f
    BY <1>1
  <2>2. \A j \in 0..f - 1 : F[j] = G[j]
    BY <1>1, <1>2, <1>3, <2>1
  <2> QED
    BY <1>2, <1>3, <2>2, SumEqual
<1>10. Sum(M, l - (f + k)) = Sum(N, l - (f + k))
  <2>1. \A i \in 0..(l - (f + k)) - 1 :
          i \in Nat /\ (f + k) + i \in 0..l - 1 /\ f + k <= (f + k) + i
    BY <1>1
  <2>2. ASSUME NEW i \in 0..(l - (f + k)) - 1 PROVE M[i] = N[i]
    <3>1. PICK j \in 0..l - 1 : j = (f + k) + i /\ f + k <= j
      BY <2>1
    <3>2. M[i] = F[j] /\ N[i] = G[j]
      BY <1>5, <1>6, <2>1, <3>1
    <3>3. a[j + 1] = b[j + 1]
      BY <1>1, <3>1
    <3> QED
      BY <1>2, <1>3, <3>2, <3>3
  <2> QED
    BY <1>1, <1>5, <1>6, <2>2, SumEqual
<1>11. Sum(G, f) \in Int /\ Sum(N, l - (f + k)) \in Int
  BY <1>1, <1>3, <1>6, SumSteps
<1> QED
  BY <1>4, <1>7, <1>8, <1>9, <1>10, <1>11

\* The evaluations differ as the values of the bytes do.
LEMMA EvaluationsDiffer ==
  ASSUME NEW new \in Content, NEW old \in Content, NEW after \in Content, NEW before \in Content,
         NEW x \in Field, NEW d \in Nat,
         BytesValue(new, x, 0) - BytesValue(old, x, 0)
           = BytesValue(after, x, d * BYTE_CAPACITY) - BytesValue(before, x, d * BYTE_CAPACITY)
  PROVE  Evaluate(FromByteVec(new), x)
           = (Evaluate(FromByteVec(old), x)
                + (EvaluateFrom(FromByteVec(after), x, d) - EvaluateFrom(FromByteVec(before), x, d)))
               % MODULUS
<1> DEFINE P == d * BYTE_CAPACITY
<1>1. P \in Nat /\ 0 * BYTE_CAPACITY = 0
  BY PlaceSteps
<1>2. PICK inv \in Int : inv = FieldInverse(LIMBS % MODULUS)
  BY ElementOfBytes, ChunksOfFile, Reduced
<1>3. PICK p \in Int : p = BytesValue(new, x, 0)
  BY BytesAreTerms
<1>4. PICK q \in Int : q = BytesValue(old, x, 0)
  BY BytesAreTerms
<1>5. PICK r \in Int : r = BytesValue(after, x, P)
  BY <1>1, BytesAreTerms
<1>6. PICK s \in Int : s = BytesValue(before, x, P)
  BY <1>1, BytesAreTerms
<1>7. Evaluate(FromByteVec(new), x) = (inv * p) % MODULUS
  BY <1>1, <1>2, <1>3, BytesEvaluate DEF Evaluate
<1>8. Evaluate(FromByteVec(old), x) = (inv * q) % MODULUS
  BY <1>1, <1>2, <1>4, BytesEvaluate DEF Evaluate
<1>9. EvaluateFrom(FromByteVec(after), x, d) = (inv * r) % MODULUS
  BY <1>2, <1>5, BytesEvaluate
<1>10. EvaluateFrom(FromByteVec(before), x, d) = (inv * s) % MODULUS
  BY <1>2, <1>6, BytesEvaluate
<1>11. p = q + (r - s)
  BY <1>3, <1>4, <1>5, <1>6
<1>12. inv * p = inv * q + (inv * r - inv * s)
  BY <1>11
<1>13. PICK a \in Int : a = inv * q
  OBVIOUS
<1>14. PICK b \in Int : b = inv * r
  OBVIOUS
<1>15. PICK c \in Int : c = inv * s
  OBVIOUS
<1>16. /\ a % MODULUS \in Int /\ b % MODULUS \in Int /\ c % MODULUS \in Int
       /\ Same(a % MODULUS, a) /\ Same(b % MODULUS, b) /\ Same(c % MODULUS, c)
  <2>1. \A e \in Field : e \in Int
    BY Reduced
  <2> QED
    BY <2>1, Reduced
<1>17. PICK A \in Int : A = a % MODULUS
  BY <1>16
<1>18. PICK B \in Int : B = b % MODULUS
  BY <1>16
<1>19. PICK C \in Int : C = c % MODULUS
  BY <1>16
<1>20. Same(A, a) /\ Same(B, b) /\ Same(C, c)
  BY <1>16, <1>17, <1>18, <1>19
<1>21. B - C \in Int /\ b - c \in Int /\ Same(B - C, b - c)
  BY <1>20, SameOperations
<1>22. Same(A + (B - C), a + (b - c))
  BY <1>20, <1>21, SameOperations
<1>23. Evaluate(FromByteVec(new), x) = (a + (b - c)) % MODULUS
  BY <1>7, <1>12, <1>13, <1>14, <1>15
<1> QED
  BY <1>8, <1>9, <1>10, <1>13, <1>14, <1>15, <1>17, <1>18, <1>19, <1>22, <1>23 DEF Same
-----------------------------------------------------------------------------
(* Bytes appended and overwritten.                                         *)

LEMMA SplicedIsContent ==
  ASSUME NEW content \in Content, NEW patch \in Content, NEW start \in Nat
  PROVE  Splice(content, start, patch) \in Content
<1>1. /\ content \in [1..Len(content) -> Bytes] /\ Len(content) \in Nat
      /\ patch \in [1..Len(patch) -> Bytes] /\ Len(patch) \in Nat
  BY DEF Content
<1>2. ASSUME NEW i \in 1..Len(content), start < i, i <= start + Len(patch)
      PROVE  patch[i - start] \in Bytes
  <2>1. i - start \in 1..Len(patch)
    BY <1>1, <1>2
  <2> QED
    BY <1>1, <2>1
<1>3. Splice(content, start, patch) \in [1..Len(content) -> Bytes]
  BY <1>1, <1>2 DEF Splice
<1> QED
  BY <1>1, <1>3 DEF Content

\* What appended bytes add to the value, computed from the last element.
LEMMA AppendedValue ==
  ASSUME NEW content \in Content, NEW patch \in Content, NEW kept \in Content, NEW x \in Field,
         Len(kept) = Len(content) % BYTE_CAPACITY
  PROVE  LET d == Len(content) \div BYTE_CAPACITY
         IN  Evaluate(FromByteVec(content \o patch), x)
               = (Evaluate(FromByteVec(content), x)
                    + (EvaluateFrom(FromByteVec(kept \o patch), x, d)
                         - EvaluateFrom(FromByteVec(kept), x, d))) % MODULUS
<1> DEFINE d == Len(content) \div BYTE_CAPACITY
           P == d * BYTE_CAPACITY
<1>1. Len(content) \in Nat
  BY BytesAreTerms
<1>2. d \in Nat /\ Len(content) = P + Len(kept)
  BY <1>1, PlaceOfByte
<1> HIDE DEF d
<1>3. P \in Nat
  BY <1>2, PlaceSteps
<1>4. /\ content \o patch \in Content
      /\ BytesValue(content \o patch, x, 0)
           = BytesValue(content, x, 0) + BytesValue(patch, x, 0 + Len(content))
  BY ValueOfConcat
<1>5. /\ kept \o patch \in Content
      /\ BytesValue(kept \o patch, x, P) = BytesValue(kept, x, P) + BytesValue(patch, x, P + Len(kept))
  BY <1>3, ValueOfConcat
<1>6. 0 + Len(content) = Len(content)
  BY <1>1
<1>7. PICK a \in Int : a = BytesValue(patch, x, Len(content))
  BY <1>1, BytesAreTerms
<1>8. BytesValue(content, x, 0) \in Int /\ BytesValue(kept, x, P) \in Int
  BY <1>3, BytesAreTerms
<1>9. BytesValue(content \o patch, x, 0) - BytesValue(content, x, 0)
        = BytesValue(kept \o patch, x, P) - BytesValue(kept, x, P)
  BY <1>2, <1>4, <1>5, <1>6, <1>7, <1>8
<1> QED
  BY <1>2, <1>4, <1>5, <1>9, EvaluationsDiffer DEF d

\* A byte of a spliced file.
LEMMA SplicedByte ==
  ASSUME NEW content, Len(content) \in Nat, NEW patch, Len(patch) \in Nat, NEW start \in Nat,
         NEW j \in 0..Len(content) - 1
  PROVE  Splice(content, start, patch)[j + 1] =
           IF start <= j /\ j < start + Len(patch) THEN patch[(j + 1) - start] ELSE content[j + 1]
<1>1. j + 1 \in 1..Len(content)
  OBVIOUS
<1>2. (start < j + 1 /\ j + 1 <= start + Len(patch)) <=> (start <= j /\ j < start + Len(patch))
  OBVIOUS
<1> QED
  BY <1>1, <1>2 DEF Splice

\* Bytes overwritten inside a part of a file are overwritten in the part.
LEMMA SplicedPart ==
  ASSUME NEW content \in Content, NEW patch \in Content, NEW start \in Nat,
         NEW f \in Nat, NEW k \in Nat, f + k <= Len(content),
         f <= start, start + Len(patch) <= f + k,
         NEW part, part = SubSeq(content, f + 1, f + k)
  PROVE  /\ IsPart(part, content, f, k)
         /\ IsPart(Splice(part, start - f, patch), Splice(content, start, patch), f, k)
         /\ SameOutside(Splice(content, start, patch), content, f, k)
<1> DEFINE l == Len(content)
           spliced == Splice(content, start, patch)
           edited == Splice(part, start - f, patch)
<1>1. /\ content \in Seq(Bytes) /\ l \in Nat /\ Len(patch) \in Nat
      /\ f + k \in Nat /\ start - f \in Nat /\ (f + k) - f = k /\ f <= f + k
  BY DEF Content
<1>2. part \in Content /\ Len(part) = k /\ \A i \in 1..k : part[i] = content[f + i]
  <2>1. PICK g \in Nat : g = f + k
    BY <1>1
  <2>2. g <= Len(content) /\ f <= g /\ g - f = k /\ part = SubSeq(content, f + 1, g)
    BY <1>1, <2>1
  <2>3. /\ SubSeq(content, f + 1, g) \in Seq(Bytes)
        /\ Len(SubSeq(content, f + 1, g)) = IF f <= g THEN g - f ELSE 0
        /\ \A i \in 1..g - f : SubSeq(content, f + 1, g)[i] = content[f + i]
    BY <1>1, <2>2, Middle
  <2> QED
    BY <2>2, <2>3 DEF Content
<1>3. \A j \in 0..k - 1 : part[j + 1] = content[(f + j) + 1]
  <2>1. \A j \in 0..k - 1 : j + 1 \in 1..k /\ f + (j + 1) = (f + j) + 1
    OBVIOUS
  <2> QED
    BY <1>2, <2>1
<1>4. IsPart(part, content, f, k)
  BY <1>2, <1>3 DEF IsPart
<1>5. spliced \in Content /\ Len(spliced) = l
  <2>1. Len(spliced) = l
    BY <1>1 DEF Splice
  <2> QED
    BY <1>1, <2>1, SplicedIsContent
<1>6. edited \in Content /\ Len(edited) = k
  <2>1. Len(edited) = k
    BY <1>2 DEF Splice
  <2> QED
    BY <1>1, <1>2, <2>1, SplicedIsContent
<1>7. \A j \in 0..l - 1 :
        spliced[j + 1] = IF start <= j /\ j < start + Len(patch) THEN patch[(j + 1) - start]
                         ELSE content[j + 1]
  BY <1>1, SplicedByte
<1>8. \A j \in 0..k - 1 :
        edited[j + 1] = IF start - f <= j /\ j < (start - f) + Len(patch)
                        THEN patch[(j + 1) - (start - f)] ELSE part[j + 1]
  <2>1. PICK s \in Nat : s = start - f
    BY <1>1
  <2>2. \A j \in 0..Len(part) - 1 :
          Splice(part, s, patch)[j + 1] =
            IF s <= j /\ j < s + Len(patch) THEN patch[(j + 1) - s] ELSE part[j + 1]
    <3>1. Len(part) \in Nat /\ Len(patch) \in Nat
      BY <1>1, <1>2
    <3> QED
      BY <3>1, SplicedByte
  <2> QED
    BY <1>2, <2>1, <2>2
<1> HIDE DEF l, spliced, edited
<1>9. ASSUME NEW j \in 0..k - 1 PROVE edited[j + 1] = spliced[(f + j) + 1]
  <2>1. /\ f + j \in 0..l - 1
        /\ (start - f <= j) <=> (start <= f + j)
        /\ (j < (start - f) + Len(patch)) <=> (f + j < start + Len(patch))
        /\ (j + 1) - (start - f) = ((f + j) + 1) - start
    BY <1>1 DEF l
  <2> QED
    BY <1>3, <1>7, <1>8, <2>1
<1>10. f + k <= Len(spliced)
  BY <1>5 DEF l
<1>11. IsPart(edited, spliced, f, k)
  BY <1>6, <1>9, <1>10 DEF IsPart
<1>12. SameOutside(spliced, content, f, k)
  <2>1. ASSUME NEW j \in 0..l - 1, j < f \/ f + k <= j PROVE spliced[j + 1] = content[j + 1]
    <3>1. ~ (start <= j /\ j < start + Len(patch))
      BY <1>1, <2>1
    <3> QED
      BY <1>7, <3>1
  <2> QED
    BY <1>5, <2>1 DEF SameOutside, l
<1> QED
  BY <1>4, <1>11, <1>12 DEF spliced, edited

\* The evaluations of new and old content differ as those of the parts behind d elements do.
DifferAsParts(new, old, after, before, x, d) ==
  Evaluate(FromByteVec(new), x)
    = (Evaluate(FromByteVec(old), x)
         + (EvaluateFrom(FromByteVec(after), x, d) - EvaluateFrom(FromByteVec(before), x, d)))
        % MODULUS

\* k bytes of content behind d elements are part, which the patch at start turns into edited.
EditsPart(content, start, patch, d, k, f, part, edited) ==
  /\ f = d * BYTE_CAPACITY
  /\ f + k <= Len(content)
  /\ f <= start
  /\ start + Len(patch) <= f + k
  /\ part = SubSeq(content, f + 1, f + k)
  /\ edited = Splice(part, start - f, patch)

\* What overwritten bytes add to the value, computed from the part they are in.
LEMMA SplicedValue ==
  ASSUME NEW content \in Content, NEW patch \in Content, NEW start \in Nat, NEW x \in Field,
         NEW d \in Nat, NEW k \in Nat, NEW f, NEW part, NEW edited,
         EditsPart(content, start, patch, d, k, f, part, edited)
  PROVE  /\ DifferAsParts(Splice(content, start, patch), content, edited, part, x, d)
         /\ FromByteVec(edited) = FromByteVec(part) <=> Splice(content, start, patch) = content
<1> DEFINE spliced == Splice(content, start, patch)
<1>1. f \in Nat /\ f = d * BYTE_CAPACITY
  BY PlaceSteps DEF EditsPart
<1>2. /\ IsPart(part, content, f, k) /\ IsPart(edited, spliced, f, k)
      /\ SameOutside(spliced, content, f, k)
  BY <1>1, SplicedPart DEF EditsPart
<1>3. spliced \in Content
  BY SplicedIsContent
<1> HIDE DEF spliced
<1>4. BytesValue(spliced, x, 0) - BytesValue(content, x, 0)
        = BytesValue(edited, x, f) - BytesValue(part, x, f)
  BY <1>1, <1>2, <1>3, ValueOfEdit
<1>5. edited \in Content /\ part \in Content /\ Len(edited) = k /\ Len(part) = k
  BY <1>2 DEF IsPart
<1>6. DifferAsParts(spliced, content, edited, part, x, d)
  <2>1. BytesValue(spliced, x, 0) - BytesValue(content, x, 0)
          = BytesValue(edited, x, d * BYTE_CAPACITY) - BytesValue(part, x, d * BYTE_CAPACITY)
    BY <1>1, <1>4
  <2> QED
    BY <1>3, <1>5, <2>1, EvaluationsDiffer DEF DifferAsParts
<1>7. FromByteVec(edited) = FromByteVec(part) <=> edited = part
  BY <1>5, FilesDiffer
<1>8. ASSUME edited = part PROVE spliced = content
  <2>1. /\ Len(content) \in Nat /\ Len(spliced) = Len(content)
        /\ \A j \in 0..Len(content) - 1 : j < f \/ f + k <= j => spliced[j + 1] = content[j + 1]
    BY <1>2, BytesAreTerms DEF SameOutside
  <2>2. \A j \in 0..k - 1 : spliced[(f + j) + 1] = content[(f + j) + 1]
    BY <1>2, <1>8 DEF IsPart
  <2>3. ASSUME NEW i \in 1..Len(content) PROVE spliced[i] = content[i]
    <3>1. PICK j \in 0..Len(content) - 1 : j + 1 = i
      <4>1. i - 1 \in 0..Len(content) - 1 /\ (i - 1) + 1 = i
        BY <2>1
      <4> QED
        BY <4>1
    <3>2. CASE j < f \/ f + k <= j
      BY <2>1, <3>1, <3>2
    <3>3. CASE ~ (j < f \/ f + k <= j)
      <4>1. f \in Int /\ j \in Int /\ k \in Int
        BY <1>1, <2>1
      <4>2. j - f \in 0..k - 1 /\ f + (j - f) = j
        <5>1. \A a, b, c \in Int : ~ (a < b \/ b + c <= a) => a - b \in 0..c - 1 /\ b + (a - b) = a
          OBVIOUS
        <5> QED
          BY <3>3, <4>1, <5>1, Zenon
      <4> QED
        BY <2>2, <3>1, <4>2
    <3> QED
      BY <3>2, <3>3
  <2>4. content = [i \in 1..Len(content) |-> content[i]]
    BY DEF Content
  <2>5. spliced = [i \in 1..Len(content) |-> spliced[i]]
    BY <1>3, <2>1 DEF Content
  <2> QED
    BY <2>3, <2>4, <2>5, Zenon
<1>9. ASSUME spliced = content PROVE edited = part
  <2>1. \A j \in 0..k - 1 : edited[j + 1] = part[j + 1]
    BY <1>2, <1>9 DEF IsPart
  <2>2. ASSUME NEW i \in 1..k PROVE edited[i] = part[i]
    <3>1. i - 1 \in 0..k - 1 /\ (i - 1) + 1 = i
      OBVIOUS
    <3> QED
      BY <2>1, <3>1
  <2>3. edited = [i \in 1..k |-> edited[i]] /\ part = [i \in 1..k |-> part[i]]
    BY <1>5 DEF Content
  <2> QED
    BY <2>2, <2>3, Zenon
<1> QED
  BY <1>6, <1>7, <1>8, <1>9 DEF spliced

\* The bytes of one element that are kept.
LEMMA KeptBytes ==
  ASSUME NEW e \in Field, NEW offset \in 0..BYTE_CAPACITY
  PROVE  /\ ConvertToBytes(<<e>>, offset) \in Content
         /\ Len(ConvertToBytes(<<e>>, offset)) = offset
<1> DEFINE bytes == ToDataBytes(e)
<1>1. bytes \in Content /\ Len(bytes) = BYTE_CAPACITY
  <2>1. (e * LIMBS) % MODULUS \in Int
    <3>1. e \in Int /\ LIMBS \in Int
      BY FieldAssumption, Reduced
    <3>2. e * LIMBS \in Int
      BY <3>1
    <3>3. (e * LIMBS) % MODULUS \in Field
      BY <3>2, Reduced
    <3> QED
      BY <3>3, Reduced
  <2>2. PICK s \in Int : s = (e * LIMBS) % MODULUS
    BY <2>1
  <2>3. ASSUME NEW i \in 1..BYTE_CAPACITY PROVE (s \div Place[i - 1]) % RADIX \in Bytes
    <3>1. PICK p \in Nat \ {0} : p = Place[i - 1]
      <4>1. i - 1 \in 0..BYTE_CAPACITY
        BY PlaceSteps
      <4> QED
        BY <4>1, PlaceSteps
    <3>2. PICK q \in Int : q = s \div p
      BY Division
    <3>3. q % RADIX \in 0..RADIX - 1
      BY PlaceSteps, Division
    <3> QED
      BY <3>1, <3>2, <3>3, BytesAssumption
  <2>4. bytes = [i \in 1..BYTE_CAPACITY |-> (s \div Place[i - 1]) % RADIX]
    BY <2>2 DEF ToDataBytes
  <2>5. bytes \in [1..BYTE_CAPACITY -> Bytes]
    BY <2>3, <2>4
  <2> QED
    BY <2>5, PlaceSteps DEF Content
<1> HIDE DEF bytes
<1>2. FieldVecToByteVec(<<e>>) = bytes
  <2>1. [k \in DOMAIN <<e>> |-> ToDataBytes(<<e>>[k])] = <<bytes>>
    BY DEF bytes
  <2>2. PICK flat : IsFlattened(flat, <<bytes>>, 0 + 1) /\ FlattenSeq(<<bytes>>) = flat[0 + 1]
    <3>1. Len(<<bytes>>) = 0 + 1
      OBVIOUS
    <3> QED
      BY <3>1, Flattened
  <2>3. flat[1] = bytes
    BY <2>2 DEF IsFlattened
  <2> QED
    BY <2>1, <2>2, <2>3 DEF FieldVecToByteVec
<1>3. ConvertToBytes(<<e>>, offset) = SubSeq(bytes, 0 + 1, offset)
  <2>1. Lesser(offset, Len(bytes)) = offset
    BY <1>1 DEF Lesser
  <2> QED
    BY <1>2, <2>1 DEF ConvertToBytes
<1>4. offset \in Nat /\ offset <= Len(bytes) /\ bytes \in Seq(Bytes)
  BY <1>1 DEF Content
<1>5. SubSeq(bytes, 0 + 1, offset) \in Seq(Bytes) /\ Len(SubSeq(bytes, 0 + 1, offset)) = offset
  <2>1. (IF 0 <= offset THEN offset - 0 ELSE 0) = offset
    BY <1>4
  <2> QED
    BY <1>4, <2>1, Middle
<1> QED
  BY <1>3, <1>5 DEF Content
-----------------------------------------------------------------------------
(* The library's own proofs.                                               *)

\* A combination of the coefficients has zeros behind those of a row.
LEMMA CombinedEndsInZeros ==
  ASSUME NEW elements, NEW l \in Nat, Vector(elements, l), NEW shape \in Shapes,
         NEW n \in Nat, n = CeilDiv(l, shape.pre), NEW tensor, Vector(tensor, n),
         NEW c \in 1..shape.enc, shape.pre < c
  PROVE  Combined(tensor, CommitTo(elements, shape).coeffs, n, shape.enc)[c] = 0
<1> DEFINE A == CommitTo(elements, shape).coeffs
           column == [r \in 1..n |-> A[r][c]]
           t == [i \in Nat |-> 0]
<1>1. A = [r \in 1..n |-> CoefficientRow(elements, shape, r)] /\ IsRows(A, n, shape.enc)
  <2>1. HasRows(CommitTo(elements, shape), elements, shape, n)
    BY CommitmentRows
  <2> QED
    BY <2>1 DEF HasRows
<1>2. shape.pre \in Nat /\ shape.enc \in Nat
  BY ShapesAreCodeLengths DEF CodeLength
<1> HIDE DEF A
<1>3. ASSUME NEW r \in 1..n PROVE column[r] = 0
  <2>1. A[r] = CoefficientRow(elements, shape, r)
    BY <1>1
  <2>2. ~ (c <= shape.pre)
    BY <1>2
  <2>3. CoefficientRow(elements, shape, r)[c] = 0
    BY <2>2 DEF CoefficientRow
  <2> QED
    BY <2>1, <2>3
<1>4. t \in Terms /\ \A i \in 0..n - 1 : t[i] = 0
  BY DEF Terms
<1>5. Len(tensor) = n /\ \A i \in 0..n - 1 : tensor[i + 1] \in Int
  BY VectorElements
<1>6. IsProduct(t, tensor, column, n)
  <2>1. Len(column) = n
    OBVIOUS
  <2>2. Lesser(Len(tensor), Len(column)) = n
    BY <1>5, <2>1 DEF Lesser
  <2>3. ASSUME NEW i \in 0..n - 1
        PROVE  /\ tensor[i + 1] \in Int /\ column[i + 1] = 0
               /\ Same(t[i], tensor[i + 1] * column[i + 1])
    <3>1. i + 1 \in 1..n
      OBVIOUS
    <3>2. column[i + 1] = 0
      BY <1>3, <3>1
    <3>3. tensor[i + 1] * column[i + 1] = 0
      BY <1>5, <3>2
    <3> QED
      BY <1>4, <1>5, <3>2, <3>3 DEF Same
  <2> HIDE DEF column, t
  <2> QED
    BY <2>2, <2>3 DEF IsProduct
<1> HIDE DEF column, t
<1>7. VectorMultiply(tensor, column) = Sum(t, n) % MODULUS
  BY <1>4, <1>6, ProductIsSum
<1>8. Sum(t, n) = 0
  BY <1>4, SumZero
<1>9. VectorMultiply(tensor, column) = 0
  <2>1. 0 % MODULUS = 0
    BY TimesRules, Reduced
  <2> QED
    BY <1>7, <1>8, <2>1
<1> QED
  BY <1>9 DEF Combined, A, column

\* What a proof sends is encoded to the combination of the encoded rows.
LEMMA CollapsedEncodes ==
  ASSUME NEW elements, NEW l \in Nat, Vector(elements, l), NEW shape \in Shapes,
         NEW n \in Nat, n = CeilDiv(l, shape.pre), NEW tensor, Vector(tensor, n)
  PROVE  LET commit == CommitTo(elements, shape)
             combined == Combined(tensor, commit.coeffs, n, shape.enc)
         IN  /\ CollapseColumns(commit, tensor) = [c \in 1..shape.pre |-> combined[c]]
             /\ EncodeTo(CollapseColumns(commit, tensor), shape.enc) = ResultVector(commit, tensor)
<1> DEFINE commit == CommitTo(elements, shape)
           A == commit.coeffs
           combined == Combined(tensor, A, n, shape.enc)
           collapsed == CollapseColumns(commit, tensor)
<1>1. HasRows(commit, elements, shape, n)
  BY CommitmentRows
<1>2. commit.dims = shape /\ DOMAIN A = 1..n
  BY <1>1 DEF HasRows
<1>3. shape.pre \in Nat /\ shape.enc \in Nat /\ shape.pre < shape.enc
  BY ShapesAreCodeLengths DEF CodeLength
<1>4. ResultVector(commit, tensor) = Encode(combined)
  BY ResultIsCombined
<1>5. Vector(combined, shape.enc)
  BY ResultIsCombined
<1>6. \A c \in 1..shape.enc : shape.pre < c => combined[c] = 0
  BY CombinedEndsInZeros
<1> HIDE DEF commit
<1>7. ASSUME NEW c \in 1..shape.pre
      PROVE  VectorMultiply(tensor, ColumnOf(A, c - 1)) = combined[c]
  <2>1. (c - 1) + 1 = c /\ c \in 1..shape.enc
    BY <1>3
  <2>2. ColumnOf(A, c - 1) = [r \in 1..n |-> A[r][c]]
    BY <1>2, <2>1 DEF ColumnOf
  <2> QED
    BY <2>1, <2>2 DEF Combined
<1>8. collapsed = [c \in 1..shape.pre |-> combined[c]]
  BY <1>2, <1>7 DEF CollapseColumns
<1> HIDE DEF collapsed, combined
<1>9. [c \in 1..shape.enc |-> IF c <= Len(collapsed) THEN collapsed[c] ELSE 0] = combined
  <2>1. Len(collapsed) = shape.pre
    BY <1>3, <1>8
  <2>2. ASSUME NEW c \in 1..shape.enc
        PROVE  (IF c <= Len(collapsed) THEN collapsed[c] ELSE 0) = combined[c]
    <3>1. CASE c <= shape.pre
      <4>1. c \in 1..shape.pre
        BY <1>3, <3>1
      <4> QED
        BY <1>8, <2>1, <3>1, <4>1
    <3>2. CASE ~ (c <= shape.pre)
      <4>1. shape.pre < c
        BY <1>3, <3>2
      <4> QED
        BY <1>6, <2>1, <3>2, <4>1
    <3> QED
      BY <3>1, <3>2
  <2>3. combined = [c \in 1..shape.enc |-> combined[c]]
    BY <1>5 DEF Vector
  <2> QED
    BY <2>2, <2>3, Zenon
<1>10. EncodeTo(collapsed, shape.enc) = Encode(combined)
  BY <1>9 DEF EncodeTo
<1> QED
  BY <1>4, <1>8, <1>10 DEF collapsed, combined, commit

\* What a proof sends gives the value of the file's polynomial.
LEMMA CollapsedEvaluates ==
  ASSUME NEW elements, NEW l \in Nat, Vector(elements, l), NEW shape \in Shapes,
         NEW n \in Nat, n = CeilDiv(l, shape.pre), NEW x \in Field
  PROVE  VectorMultiply(RightVector(x, shape.pre),
                        CollapseColumns(CommitTo(elements, shape), LeftVector(x, n, shape.pre)))
           = Evaluate(elements, x)
<1> DEFINE m == shape.pre
           left == LeftVector(x, n, m)
           right == RightVector(x, m)
           combined == Combined(left, CommitTo(elements, shape).coeffs, n, shape.enc)
           collapsed == CollapseColumns(CommitTo(elements, shape), left)
<1>1. m \in Nat /\ shape.enc \in Nat /\ m < shape.enc
  BY ShapesAreCodeLengths DEF CodeLength
<1>2. Vector(left, n)
  BY <1>1, LeftIsVector
<1>3. Vector(right, m)
  <2>1. \A c \in 1..m : c - 1 \in Nat
    BY <1>1
  <2> QED
    BY <2>1, PowerTimes DEF Vector, RightVector
<1> HIDE DEF left
<1>4. Vector(combined, shape.enc) /\ collapsed = [c \in 1..m |-> combined[c]]
  BY <1>2, ResultIsCombined, CollapsedEncodes
<1>5. VectorMultiply(combined, right) = Evaluate(elements, x)
  BY CombinedEvaluates DEF left
<1> HIDE DEF right, combined, collapsed, m
<1>6. Lesser(Len(right), Len(collapsed)) = m /\ Lesser(Len(combined), Len(right)) = m
  <2>1. Len(right) = m /\ Len(combined) = shape.enc
    BY <1>1, <1>3, <1>4, VectorElements
  <2>2. Len(collapsed) = m
    BY <1>1, <1>4
  <2> QED
    BY <1>1, <2>1, <2>2 DEF Lesser
<1>7. ASSUME NEW i \in 1..m PROVE right[i] * collapsed[i] = combined[i] * right[i]
  <2>1. collapsed[i] = combined[i]
    BY <1>4
  <2>2. right[i] \in Field /\ combined[i] \in Field
    <3>1. i \in 1..shape.enc
      BY <1>1
    <3> QED
      BY <1>3, <1>4, <3>1 DEF Vector
  <2>3. right[i] \in Int /\ combined[i] \in Int
    BY <2>2, Reduced
  <2>4. \A a, b \in Int : a * b = b * a
    OBVIOUS
  <2> QED
    BY <2>1, <2>3, <2>4
<1>8. [i \in 1..m |-> right[i] * collapsed[i]] = [i \in 1..m |-> combined[i] * right[i]]
  BY <1>7
<1>9. VectorMultiply(right, collapsed) = VectorMultiply(combined, right)
  BY <1>6, <1>8 DEF VectorMultiply
<1> QED
  BY <1>5, <1>9 DEF right, collapsed, left, m

\* The encoded matrix determines the file.
LEMMA MatrixDeterminesFile ==
  ASSUME NEW shape \in Shapes, NEW a \in Content, NEW b \in Content, Len(a) = Len(b),
         CommitTo(FromByteVec(a), shape).comm = CommitTo(FromByteVec(b), shape).comm
  PROVE  a = b
<1> DEFINE l == FieldLen(a)
           n == CeilDiv(l, shape.pre)
           p == FromByteVec(a)
           q == FromByteVec(b)
           e == shape.enc
<1>1. l \in Nat /\ Vector(p, l) /\ Vector(q, l)
  BY FileIsVector DEF FieldLen
<1>2. shape.pre \in Nat \ {0} /\ e \in Nat /\ shape.pre < e /\ CodeLength(e)
  BY ShapesAreCodeLengths DEF CodeLength
<1>3. n \in Nat /\ \A k \in Nat : k < n <=> k * shape.pre < l
  BY <1>1, <1>2, PiecesBegin
<1> HIDE DEF l, n, p, q
<1>4. ASSUME NEW elements, Vector(elements, l)
      PROVE  /\ CommitTo(elements, shape).comm
                  = [r \in 1..n |-> Encode(CoefficientRow(elements, shape, r))]
             /\ \A r \in 1..n : Vector(CoefficientRow(elements, shape, r), e)
  <2>1. HasRows(CommitTo(elements, shape), elements, shape, n)
    BY <1>1, <1>3, <1>4, CommitmentRows DEF n
  <2>2. \A r \in 1..n : CommitTo(elements, shape).coeffs[r] = CoefficientRow(elements, shape, r)
    BY <2>1 DEF HasRows
  <2>3. CommitTo(elements, shape).comm
          = [r \in 1..n |-> Encode(CommitTo(elements, shape).coeffs[r])]
    BY <2>1 DEF HasRows
  <2>4. CommitTo(elements, shape).comm
          = [r \in 1..n |-> Encode(CoefficientRow(elements, shape, r))]
    BY <2>2, <2>3
  <2>5. \A r \in 1..n : r \in Nat \ {0}
    OBVIOUS
  <2>6. \A r \in 1..n : Vector(CoefficientRow(elements, shape, r), e)
    BY <1>1, <1>4, <2>5, RowIsVector
  <2> QED
    BY <2>4, <2>6
<1>5. ASSUME NEW r \in 1..n PROVE CoefficientRow(p, shape, r) = CoefficientRow(q, shape, r)
  <2>1. CommitTo(p, shape).comm = CommitTo(q, shape).comm
    BY DEF p, q
  <2>2. Encode(CoefficientRow(p, shape, r)) = Encode(CoefficientRow(q, shape, r))
    <3>1. /\ CommitTo(p, shape).comm[r] = Encode(CoefficientRow(p, shape, r))
          /\ CommitTo(q, shape).comm[r] = Encode(CoefficientRow(q, shape, r))
      BY <1>1, <1>4
    <3> QED
      BY <2>1, <3>1
  <2>3. Vector(CoefficientRow(p, shape, r), e) /\ Vector(CoefficientRow(q, shape, r), e)
    BY <1>1, <1>4
  <2>4. /\ Decode(Encode(CoefficientRow(p, shape, r))) = CoefficientRow(p, shape, r)
        /\ Decode(Encode(CoefficientRow(q, shape, r))) = CoefficientRow(q, shape, r)
    BY <1>2, <2>3, DecodingUndoesEncoding
  <2> QED
    BY <2>2, <2>4
<1>6. ASSUME NEW i \in 1..l PROVE p[i] = q[i]
  <2> DEFINE r == (i - 1) \div shape.pre
             c == (i - 1) % shape.pre
  <2>1. i - 1 \in Nat
    BY <1>1
  <2>2. r \in Nat /\ c \in 0..shape.pre - 1 /\ i - 1 = r * shape.pre + c
    <3>1. PICK j \in Nat : j = i - 1
      BY <2>1
    <3>2. PICK m \in Nat \ {0} : m = shape.pre
      BY <1>2
    <3>3. j \div m \in Nat /\ j % m \in 0..m - 1 /\ j = (j \div m) * m + (j % m)
      BY Quotient
    <3>4. r = j \div m /\ c = j % m
      BY <3>1, <3>2
    <3> HIDE DEF r, c
    <3>5. r \in Nat /\ c \in 0..m - 1 /\ j = r * m + c
      BY <3>3, <3>4
    <3> QED
      BY <3>1, <3>2, <3>5
  <2> HIDE DEF r, c
  <2>3. r * shape.pre \in Nat
    BY <1>2, <2>2
  <2>4. r * shape.pre < l
    BY <1>1, <2>2, <2>3
  <2>5. r + 1 \in 1..n
    <3>1. r < n
      BY <1>3, <2>2, <2>4
    <3> QED
      BY <1>3, <2>2, <3>1
  <2>6. CoefficientRow(p, shape, r + 1) = CoefficientRow(q, shape, r + 1)
    BY <1>5, <2>5
  <2>7. c + 1 \in 1..shape.enc /\ c + 1 <= shape.pre /\ ((r + 1) - 1) * shape.pre + (c + 1) = i
    <3>1. (r + 1) - 1 = r
      BY <2>2
    <3>2. r * shape.pre + (c + 1) = i
      BY <2>2, <2>3
    <3> QED
      BY <1>2, <2>2, <3>1, <3>2
  <2>8. ASSUME NEW elements, Vector(elements, l)
        PROVE  CoefficientRow(elements, shape, r + 1)[c + 1] = elements[i]
    <3>1. Len(elements) = l /\ i <= l
      BY <1>1, <2>8, VectorElements
    <3> QED
      BY <2>7, <3>1 DEF CoefficientRow
  <2> QED
    BY <1>1, <2>6, <2>8
<1>7. p = q
  <2>1. p = [i \in 1..l |-> p[i]] /\ q = [i \in 1..l |-> q[i]]
    BY <1>1 DEF Vector
  <2> QED
    BY <1>6, <2>1, Zenon
<1> QED
  BY <1>7, FilesDiffer DEF p, q
=============================================================================
