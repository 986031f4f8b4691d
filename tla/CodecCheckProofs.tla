-------------------------- MODULE CodecCheckProofs --------------------------
(***************************************************************************)
(* Proofs about the codec: what CodecCheck checks on small formats holds   *)
(* for every byte, every wire and native format that FormatAssumption      *)
(* admits, every pattern, and all the samples and calls their structs can  *)
(* hold.  The sums and powers of the codec are recursive functions on the  *)
(* naturals; what they compute is proved by induction over sets of         *)
(* naturals.                                                               *)
(***************************************************************************)
EXTENDS CodecCheck, TLAPS, WellFoundedInduction, FiniteSetTheorems, SequenceTheorems

----------------------------------------------------------------------------
(* Induction, powers of two and sums *)

\* A set that holds 0, and the successor of every number it holds, holds every number.
LEMMA InductionOverNat ==
  ASSUME NEW P, 0 \in P, \A n \in Nat : n \in P => n + 1 \in P
  PROVE  Nat \subseteq P
<1>. DEFINE T == {n \in Nat : n \notin P}
<1>1. SUFFICES ASSUME T # {} PROVE FALSE
  OBVIOUS
<1>2. PICK x \in T : \A y \in T : ~(<<y, x>> \in OpToRel(<, Nat))
  BY <1>1, NatLessThanWellFounded, WFMin
<1>3. /\ x # 0 /\ x \in Nat
      /\ x - 1 \in Nat /\ x - 1 < x /\ (x - 1) + 1 = x
  OBVIOUS
<1>4. <<x - 1, x>> \in OpToRel(<, Nat)
  BY <1>3 DEF OpToRel
<1>. QED
  BY <1>2, <1>3, <1>4

\* The functions on the naturals with this value at 0 and this step.
Recursive(S, c, g) ==
  {f \in [Nat -> S] : f[0] = c /\ \A n \in Nat : f[n + 1] = g[n][f[n]]}

\* Where a function is defined by its value at 0 and a step, there is one: what
\* the provers need to unfold a recursive definition.
LEMMA RecursiveFunctionExists ==
  ASSUME NEW S, NEW c, NEW g, c \in S, g \in [Nat -> [S -> S]]
  PROVE  Recursive(S, c, g) # {}
<1>. DEFINE Begins(p, n) ==
       /\ p \in [0 .. n -> S]
       /\ p[0] = c
       /\ \A i \in 0 .. n : i < n => p[i + 1] = g[i][p[i]]
<1>1. \A n \in Nat : \E p : Begins(p, n)
  <2>. DEFINE P == {n \in Nat : \E p : Begins(p, n)}
  <2>1. 0 \in P
    <3>1. Begins([i \in 0 .. 0 |-> c], 0)
      OBVIOUS
    <3>. QED  BY <3>1
  <2>2. ASSUME NEW n \in Nat, n \in P PROVE n + 1 \in P
    <3>1. PICK p : Begins(p, n)
      BY <2>2
    <3>. DEFINE q == [i \in 0 .. n + 1 |-> IF i <= n THEN p[i] ELSE g[n][p[n]]]
    <3>2. p[n] \in S /\ g[n][p[n]] \in S
      BY <3>1
    <3>3. q \in [0 .. n + 1 -> S] /\ q[0] = c
      BY <3>1, <3>2
    <3>4. ASSUME NEW i \in 0 .. n + 1, i < n + 1 PROVE q[i + 1] = g[i][q[i]]
      <4>1. CASE i < n
        BY <3>1, <3>4, <4>1
      <4>2. CASE i = n
        BY <3>1, <3>4, <4>2
      <4>. QED  BY <3>4, <4>1, <4>2
    <3>5. Begins(q, n + 1)
      BY <3>3, <3>4
    <3>. HIDE DEF q, Begins
    <3>6. (n + 1 \in Nat) /\ \E r : Begins(r, n + 1)
      BY <3>5
    <3>. QED  BY <3>6
  <2>. HIDE DEF P
  <2>3. Nat \subseteq P
    BY <2>1, <2>2, InductionOverNat
  <2>. QED  BY <2>3 DEF P
<1>2. ASSUME NEW n \in Nat, NEW m \in Nat, NEW p, NEW q, Begins(p, n), Begins(q, m)
      PROVE  \A i \in Nat : i <= n /\ i <= m => p[i] = q[i]
  <2>. DEFINE P == {i \in Nat : i <= n /\ i <= m => p[i] = q[i]}
  <2>1. 0 \in P
    BY <1>2
  <2>2. ASSUME NEW i \in Nat, i \in P PROVE i + 1 \in P
    <3>1. CASE i < n /\ i < m
      <4>1. i \in 0 .. n /\ i \in 0 .. m /\ p[i] = q[i]
        BY <2>2, <3>1
      <4>2. p[i + 1] = g[i][p[i]]
        BY <1>2, <3>1, <4>1
      <4>3. q[i + 1] = g[i][q[i]]
        BY <1>2, <3>1, <4>1
      <4>. QED  BY <4>1, <4>2, <4>3
    <3>2. CASE ~ (i < n /\ i < m)
      BY <3>2
    <3>. QED  BY <3>1, <3>2
  <2>. HIDE DEF P
  <2>3. Nat \subseteq P
    BY <2>1, <2>2, InductionOverNat
  <2>. QED  BY <2>3 DEF P
<1>. DEFINE p(n) == CHOOSE p : Begins(p, n)
            f == [n \in Nat |-> p(n)[n]]
<1>3. \A n \in Nat : Begins(p(n), n)
  BY <1>1
<1>. HIDE DEF p
<1>4. f \in [Nat -> S] /\ f[0] = c
  BY <1>3
<1>5. ASSUME NEW n \in Nat PROVE f[n + 1] = g[n][f[n]]
  <2>1. Begins(p(n), n) /\ Begins(p(n + 1), n + 1)
    BY <1>3
  <2>2. p(n)[n] = p(n + 1)[n]
    <3>1. n \in Nat /\ n + 1 \in Nat /\ n <= n /\ n <= n + 1
      OBVIOUS
    <3>. HIDE DEF Begins
    <3>. QED  BY <1>2, <2>1, <3>1
  <2>3. f[n + 1] = p(n + 1)[n + 1] /\ f[n] = p(n)[n] /\ n \in 0 .. n + 1
    OBVIOUS
  <2>4. ASSUME NEW q, Begins(q, n + 1) PROVE q[n + 1] = g[n][q[n]]
    BY <2>3, <2>4
  <2>5. p(n + 1)[n + 1] = g[n][p(n + 1)[n]]
    BY <2>1, <2>4
  <2>. QED  BY <2>2, <2>3, <2>5
<1>. HIDE DEF f
<1>6. f \in Recursive(S, c, g)
  BY <1>4, <1>5 DEF Recursive
<1>. QED
  BY <1>6

\* Pow2 at 0, and at a successor.
LEMMA Pow2Unfolds ==
  /\ Pow2 \in [Nat -> Nat]
  /\ Pow2[0] = 1
  /\ \A k \in Nat : Pow2[k + 1] = 2 * Pow2[k]
<1>. DEFINE g == [n \in Nat |-> [x \in Nat |-> 2 * x]]
            Fits(f) == f = [k \in Nat |-> IF k = 0 THEN 1 ELSE 2 * f[k - 1]]
<1>1. g \in [Nat -> [Nat -> Nat]]
  OBVIOUS
<1>. HIDE DEF g
<1>2. PICK f \in [Nat -> Nat] : f[0] = 1 /\ \A n \in Nat : f[n + 1] = g[n][f[n]]
  <2>1. Recursive(Nat, 1, g) # {}
    BY <1>1, RecursiveFunctionExists
  <2>. QED  BY <2>1 DEF Recursive
<1>3. \A n \in Nat : f[n + 1] = 2 * f[n]
  BY <1>2 DEF g
<1>4. ASSUME NEW k \in Nat PROVE f[k] = IF k = 0 THEN 1 ELSE 2 * f[k - 1]
  <2>1. CASE k = 0
    BY <1>2, <2>1
  <2>2. CASE k # 0
    <3>1. k - 1 \in Nat /\ (k - 1) + 1 = k
      BY <2>2
    <3>. QED  BY <1>3, <2>2, <3>1
  <2>. QED  BY <2>1, <2>2
<1>5. Fits(f)
  BY <1>4
<1>6. Pow2 = CHOOSE h : Fits(h)
  BY DEF Pow2
<1>. HIDE DEF Fits
<1>7. Fits(Pow2)
  BY <1>5, <1>6
<1>8. Pow2 = [k \in Nat |-> IF k = 0 THEN 1 ELSE 2 * Pow2[k - 1]]
  BY <1>7 DEF Fits
<1>9. Pow2[0] = 1 /\ \A k \in Nat : Pow2[k + 1] = 2 * Pow2[k]
  <2>1. Pow2[0] = 1
    BY <1>8
  <2>2. ASSUME NEW k \in Nat PROVE Pow2[k + 1] = 2 * Pow2[k]
    <3>1. k + 1 \in Nat /\ k + 1 # 0 /\ (k + 1) - 1 = k
      OBVIOUS
    <3>. QED  BY <1>8, <3>1
  <2>. QED  BY <2>1, <2>2
<1>10. \A k \in Nat : Pow2[k] \in Nat
  <2>. DEFINE P == {k \in Nat : Pow2[k] \in Nat}
  <2>1. 0 \in P
    BY <1>9
  <2>2. ASSUME NEW k \in Nat, k \in P PROVE k + 1 \in P
    BY <1>9, <2>2
  <2>. HIDE DEF P
  <2>3. Nat \subseteq P
    BY <2>1, <2>2, InductionOverNat
  <2>. QED  BY <2>3 DEF P
<1>. QED
  BY <1>8, <1>9, <1>10

\* Total is the last of the partial sums.
LEMMA PartialSums ==
  ASSUME NEW f, NEW n \in Nat, \A k \in 1 .. n : f[k] \in Nat
  PROVE  \E s \in [Nat -> Nat] :
           /\ s[0] = 0
           /\ \A k \in 0 .. n : k < n => s[k + 1] = s[k] + f[k + 1]
           /\ \A m \in 0 .. n : Total(f, m) = s[m]
<1>. DEFINE g == [k \in Nat |-> [x \in Nat |-> IF k < n THEN x + f[k + 1] ELSE 0]]
            Fits(h, m) == h = [k \in 0 .. m |-> IF k = 0 THEN 0 ELSE h[k - 1] + f[k]]
<1>1. g \in [Nat -> [Nat -> Nat]]
  OBVIOUS
<1>. HIDE DEF g
<1>2. Recursive(Nat, 0, g) # {}
  BY <1>1, RecursiveFunctionExists
<1>3. PICK s \in [Nat -> Nat] : s[0] = 0 /\ \A k \in Nat : s[k + 1] = g[k][s[k]]
  BY <1>2 DEF Recursive
<1>4. ASSUME NEW k \in 0 .. n, k < n PROVE s[k + 1] = s[k] + f[k + 1]
  <2>1. k \in Nat /\ s[k] \in Nat
    OBVIOUS
  <2>2. g[k][s[k]] = s[k] + f[k + 1]
    BY <1>4, <2>1 DEF g
  <2>. QED  BY <1>3, <2>1, <2>2
<1>5. ASSUME NEW m \in 0 .. n PROVE Total(f, m) = s[m]
  <2>. DEFINE r == [k \in 0 .. m |-> s[k]]
              h == CHOOSE h : Fits(h, m)
  <2>1. ASSUME NEW k \in 0 .. m PROVE r[k] = IF k = 0 THEN 0 ELSE r[k - 1] + f[k]
    <3>1. CASE k = 0
      BY <1>3, <3>1
    <3>2. CASE k # 0
      <4>1. k - 1 \in 0 .. n /\ k - 1 < n /\ (k - 1) + 1 = k /\ k - 1 \in 0 .. m
        BY <3>2
      <4>2. s[k] = s[k - 1] + f[k]
        BY <1>4, <4>1
      <4>. QED  BY <3>2, <4>1, <4>2
    <3>. QED  BY <3>1, <3>2
  <2>2. Fits(r, m)
    BY <2>1
  <2>3. Total(f, m) = h[m]
    BY DEF Total
  <2>. HIDE DEF r, Fits
  <2>4. Fits(h, m)
    BY <2>2
  <2>. HIDE DEF h
  <2>. USE DEF Fits
  <2>. DEFINE P == {k \in Nat : k <= m => h[k] = s[k]}
  <2>5. 0 \in P
    BY <1>3, <2>4
  <2>6. ASSUME NEW k \in Nat, k \in P PROVE k + 1 \in P
    <3>1. CASE k + 1 <= m
      <4>1. h[k + 1] = h[k] + f[k + 1]
        <5>1. k + 1 \in 0 .. m /\ k + 1 # 0 /\ (k + 1) - 1 = k
          BY <3>1
        <5>. QED  BY <2>4, <5>1
      <4>2. s[k + 1] = s[k] + f[k + 1]
        BY <1>4, <3>1
      <4>. QED  BY <2>6, <3>1, <4>1, <4>2
    <3>2. CASE ~ (k + 1 <= m)
      BY <3>2
    <3>. QED  BY <3>1, <3>2
  <2>. HIDE DEF P
  <2>7. Nat \subseteq P
    BY <2>5, <2>6, InductionOverNat
  <2>. QED  BY <2>3, <2>7 DEF P
<1>. QED
  BY <1>3, <1>4, <1>5

\* Total, one term more at a time.
LEMMA TotalStep ==
  ASSUME NEW f, NEW n \in Nat, \A k \in 1 .. n : f[k] \in Nat
  PROVE  /\ Total(f, 0) = 0
         /\ Total(f, n) \in Nat
         /\ \A k \in 0 .. n : k < n => Total(f, k + 1) = Total(f, k) + f[k + 1]
         /\ \A k \in 0 .. n : Total(f, k) \in Nat
<1>1. PICK s \in [Nat -> Nat] :
        /\ s[0] = 0
        /\ \A k \in 0 .. n : k < n => s[k + 1] = s[k] + f[k + 1]
        /\ \A m \in 0 .. n : Total(f, m) = s[m]
  BY PartialSums
<1>2. 0 \in 0 .. n /\ n \in 0 .. n /\ \A k \in 0 .. n : k \in Nat /\ (k < n => k + 1 \in 0 .. n)
  OBVIOUS
<1>. QED
  BY <1>1, <1>2

\* Sums of the same terms are the same.
LEMMA TotalSame ==
  ASSUME NEW f, NEW h, NEW n \in Nat,
         \A k \in 1 .. n : f[k] \in Nat /\ h[k] = f[k]
  PROVE  Total(f, n) = Total(h, n)
<1>. DEFINE P == {k \in Nat : k <= n => Total(f, k) = Total(h, k)}
<1>1. \A k \in 1 .. n : f[k] \in Nat /\ h[k] \in Nat
  OBVIOUS
<1>2. /\ Total(f, 0) = 0 /\ Total(h, 0) = 0
      /\ \A k \in 0 .. n : k < n =>
           /\ Total(f, k + 1) = Total(f, k) + f[k + 1]
           /\ Total(h, k + 1) = Total(h, k) + h[k + 1]
  BY <1>1, TotalStep
<1>3. 0 \in P
  BY <1>2
<1>4. ASSUME NEW k \in Nat, k \in P PROVE k + 1 \in P
  BY <1>2, <1>4
<1>. HIDE DEF P
<1>5. Nat \subseteq P
  BY <1>3, <1>4, InductionOverNat
<1>. QED
  BY <1>5 DEF P

----------------------------------------------------------------------------
(* Powers, quotients and remainders *)

\* Powers of two are positive, and at least one more than their exponent.
LEMMA Pow2Positive ==
  \A k \in Nat : Pow2[k] \in Nat /\ Pow2[k] > k
<1>. DEFINE P == {k \in Nat : Pow2[k] > k}
<1>1. 0 \in P
  BY Pow2Unfolds
<1>2. ASSUME NEW k \in Nat, k \in P PROVE k + 1 \in P
  BY <1>2, Pow2Unfolds
<1>. HIDE DEF P
<1>3. Nat \subseteq P
  BY <1>1, <1>2, InductionOverNat
<1>. QED
  BY <1>3, Pow2Unfolds DEF P

\* A product of powers of two adds the exponents.
LEMMA Pow2Sum ==
  ASSUME NEW a \in Nat, NEW b \in Nat
  PROVE  Pow2[a + b] = Pow2[a] * Pow2[b]
<1>. DEFINE P == {k \in Nat : Pow2[a + k] = Pow2[a] * Pow2[k]}
<1>1. 0 \in P
  BY Pow2Unfolds
<1>2. ASSUME NEW k \in Nat, k \in P PROVE k + 1 \in P
  <2>1. Pow2[a + (k + 1)] = 2 * Pow2[a + k]
    <3>1. a + k \in Nat /\ a + (k + 1) = (a + k) + 1
      OBVIOUS
    <3>. QED  BY <3>1, Pow2Unfolds
  <2>2. Pow2[k + 1] = 2 * Pow2[k] /\ Pow2[a] \in Nat /\ Pow2[k] \in Nat
    BY Pow2Unfolds
  <2>3. Pow2[a + k] = Pow2[a] * Pow2[k]
    BY <1>2
  <2>. QED  BY <2>1, <2>2, <2>3
<1>. HIDE DEF P
<1>3. Nat \subseteq P
  BY <1>1, <1>2, InductionOverNat
<1>. QED
  BY <1>3 DEF P

\* Powers of two grow with the exponent.
LEMMA Pow2Grows ==
  ASSUME NEW a \in Nat, NEW b \in Nat
  PROVE  /\ a < b => 2 * Pow2[a] <= Pow2[b]
         /\ a <= b => Pow2[a] <= Pow2[b]
         /\ a < b <=> Pow2[a] < Pow2[b]
<1>1. ASSUME NEW c \in Nat, NEW d \in Nat, c < d PROVE 2 * Pow2[c] <= Pow2[d]
  <2>1. /\ d - c - 1 \in Nat /\ d = (c + 1) + (d - c - 1)
        /\ Pow2[c + 1] = 2 * Pow2[c] /\ Pow2[c] \in Nat
        /\ Pow2[d - c - 1] >= 1 /\ Pow2[d - c - 1] \in Nat
    BY <1>1, Pow2Unfolds, Pow2Positive
  <2>2. Pow2[d] = Pow2[c + 1] * Pow2[d - c - 1]
    BY <2>1, Pow2Sum
  <2>. QED  BY <2>1, <2>2
<1>2. /\ Pow2[a] \in Nat /\ Pow2[a] >= 1 /\ Pow2[b] \in Nat /\ Pow2[b] >= 1
  BY Pow2Positive
<1>3. CASE a < b
  BY <1>1, <1>2, <1>3
<1>4. CASE a = b
  BY <1>2, <1>4
<1>5. CASE b < a
  <2>1. 2 * Pow2[b] <= Pow2[a]
    BY <1>1, <1>5
  <2>. QED  BY <1>2, <1>5, <2>1
<1>. QED
  BY <1>3, <1>4, <1>5

\* The difference of two exponents is a quotient of two powers.
LEMMA Pow2Difference ==
  ASSUME NEW a \in Nat, NEW b \in Nat, b <= a
  PROVE  Pow2[a - b] \in Nat \ {0} /\ Pow2[a] = Pow2[a - b] * Pow2[b]
<1>1. a - b \in Nat /\ a = (a - b) + b
  OBVIOUS
<1>2. Pow2[(a - b) + b] = Pow2[a - b] * Pow2[b]
  BY <1>1, Pow2Sum
<1>3. Pow2[a - b] \in Nat /\ Pow2[a - b] > a - b
  BY <1>1, Pow2Positive
<1>. QED
  BY <1>1, <1>2, <1>3

\* Quotient and remainder are what the division algorithm says.
LEMMA DivMod ==
  \A a \in Nat, b \in Nat \ {0} :
    /\ a \div b \in Nat /\ a % b \in Nat /\ a % b < b
    /\ a = (a \div b) * b + (a % b)
<1>1. \A a \in Nat, b \in Nat \ {0} : a = (a \div b) * b + (a % b) /\ 0 <= a % b /\ a % b < b
  OBVIOUS
<1>2. \A a \in Nat, b \in Nat \ {0} : a \div b \in Nat /\ a % b \in Nat
  OBVIOUS
<1>. QED
  BY <1>1, <1>2, Zenon

\* Quotient and remainder are the only ones.
LEMMA DivModUnique ==
  \A b \in Nat \ {0}, q, r \in Nat :
    r < b => (q * b + r) \div b = q /\ (q * b + r) % b = r
<1>1. \A b \in Nat \ {0}, q, r \in Nat : r < b => (q * b + r) \div b = q
  OBVIOUS
<1>2. \A b \in Nat \ {0}, q, r \in Nat : r < b => (q * b + r) % b = r
  OBVIOUS
<1>. QED
  BY <1>1, <1>2, Zenon

\* A remainder of a quotient next to the remainder of the number.
LEMMA NestedRemainders ==
  ASSUME NEW a \in Nat \ {0}, NEW b \in Nat \ {0}, NEW p \in Nat,
         NEW t \in Nat, t < b, NEW r \in Nat, r < a
  PROVE  /\ (p * b + t) * a + r = p * (a * b) + (t * a + r)
         /\ t * a + r \in Nat /\ t * a + r < a * b
<1>1. (p * b + t) * a + r = p * (a * b) + (t * a + r)
  OBVIOUS
<1>2. t <= b - 1 /\ t * a <= (b - 1) * a
  OBVIOUS
<1>3. (b - 1) * a = a * b - a
  OBVIOUS
<1>4. t * a \in Nat /\ a * b \in Nat
  OBVIOUS
<1>. QED
  BY <1>1, <1>2, <1>3, <1>4

\* Dividing by two numbers in turn divides by their product.
LEMMA DivDiv ==
  \A v \in Nat, a, b \in Nat \ {0} : (v \div a) \div b = v \div (a * b)
<1>. SUFFICES ASSUME NEW v \in Nat, NEW a \in Nat \ {0}, NEW b \in Nat \ {0}
              PROVE  (v \div a) \div b = v \div (a * b)
  OBVIOUS
<1>. DEFINE q == v \div a
            r == v % a
            p == q \div b
            t == q % b
<1>1. q \in Nat /\ r \in Nat /\ r < a /\ v = q * a + r
  BY DivMod, Zenon
<1>. HIDE DEF q, r
<1>2. p \in Nat /\ t \in Nat /\ t < b /\ q = p * b + t
  BY <1>1, DivMod, Zenon
<1>. HIDE DEF p, t
<1>3. a * b \in Nat \ {0}
  OBVIOUS
<1>4. v = p * (a * b) + (t * a + r) /\ t * a + r \in Nat /\ t * a + r < a * b
  BY <1>1, <1>2, NestedRemainders
<1>5. v \div (a * b) = p
  BY <1>2, <1>3, <1>4, DivModUnique
<1>. QED
  BY <1>5 DEF p, q

----------------------------------------------------------------------------
(* Bytes *)

\* Remainders modulo a product, taken one factor after the other.
LEMMA ModProduct ==
  \A v \in Nat, a, b \in Nat \ {0} : v % (a * b) = (v % a) + ((v \div a) % b) * a
<1>. SUFFICES ASSUME NEW v \in Nat, NEW a \in Nat \ {0}, NEW b \in Nat \ {0}
              PROVE  v % (a * b) = (v % a) + ((v \div a) % b) * a
  OBVIOUS
<1>. DEFINE q == v \div a
            r == v % a
            p == q \div b
            t == q % b
<1>1. q \in Nat /\ r \in Nat /\ r < a /\ v = q * a + r
  BY DivMod, Zenon
<1>. HIDE DEF q, r
<1>2. p \in Nat /\ t \in Nat /\ t < b /\ q = p * b + t
  BY <1>1, DivMod, Zenon
<1>. HIDE DEF p, t
<1>3. a * b \in Nat \ {0}
  OBVIOUS
<1>4. v = p * (a * b) + (t * a + r) /\ t * a + r \in Nat /\ t * a + r < a * b
  BY <1>1, <1>2, NestedRemainders
<1>5. v % (a * b) = t * a + r
  BY <1>2, <1>3, <1>4, DivModUnique
<1>6. t * a \in Nat
  BY <1>2
<1>. QED
  BY <1>1, <1>5, <1>6 DEF r, t, q

\* A byte has at least one bit.
LEMMA ByteFacts ==
  /\ ByteBits \in Nat \ {0} /\ ByteBase \in Nat \ {0} /\ ByteBase >= 2
  /\ \A k \in Nat : /\ ByteBits * k \in Nat
                    /\ Pow2[ByteBits * k] \in Nat \ {0}
                    /\ Pow2[ByteBits * (k + 1)] = Pow2[ByteBits * k] * ByteBase
<1>1. ByteBits \in Nat \ {0}
  BY FormatAssumption
<1>2. Pow2[ByteBits] \in Nat /\ Pow2[ByteBits] > ByteBits
  BY <1>1, Pow2Positive
<1>3. ASSUME NEW k \in Nat
      PROVE  /\ ByteBits * k \in Nat
             /\ Pow2[ByteBits * k] \in Nat \ {0}
             /\ Pow2[ByteBits * (k + 1)] = Pow2[ByteBits * k] * ByteBase
  <2>1. ByteBits * k \in Nat /\ ByteBits * (k + 1) = ByteBits * k + ByteBits
    BY <1>1
  <2>2. Pow2[ByteBits * k] \in Nat /\ Pow2[ByteBits * k] > ByteBits * k
    BY <2>1, Pow2Positive
  <2>3. Pow2[ByteBits * k + ByteBits] = Pow2[ByteBits * k] * Pow2[ByteBits]
    BY <1>1, <2>1, Pow2Sum
  <2>. QED  BY <2>1, <2>2, <2>3 DEF ByteBase
<1>. QED
  BY <1>1, <1>2, <1>3 DEF ByteBase

\* What writeUnsigned() writes is a byte.
LEMMA WrittenBytes ==
  ASSUME NEW value \in Nat, NEW size \in Nat, NEW i \in 0 .. size - 1
  PROVE  WriteUnsigned(value, size)[i] \in 0 .. ByteBase - 1
<1>0. i \in Nat
  OBVIOUS
<1>1. Pow2[ByteBits * i] \in Nat \ {0} /\ ByteBase \in Nat \ {0}
  BY <1>0, ByteFacts
<1>2. value \div Pow2[ByteBits * i] \in Nat
  BY <1>1, DivMod
<1>. DEFINE q == value \div Pow2[ByteBits * i]
<1>. HIDE DEF q
<1>3. q % ByteBase \in Nat /\ q % ByteBase < ByteBase
  BY <1>1, <1>2, DivMod DEF q
<1>4. WriteUnsigned(value, size)[i] = q % ByteBase
  BY DEF WriteUnsigned, q
<1>. QED
  BY <1>1, <1>3, <1>4

\* readUnsigned() takes back what writeUnsigned() wrote, wherever it stands.
LEMMA WrittenIsRead ==
  ASSUME NEW value \in Nat, NEW size \in Nat, NEW offset \in Nat, NEW data,
         value < Pow2[ByteBits * size],
         \A i \in 0 .. size - 1 : data[offset + i] = WriteUnsigned(value, size)[i]
  PROVE  ReadUnsigned(data, offset, size) = value
<1>. DEFINE f == [i \in 1 .. size |-> data[offset + i - 1] * Pow2[ByteBits * (i - 1)]]
            P == {k \in Nat : k <= size => Total(f, k) = value % Pow2[ByteBits * k]}
<1>1. ASSUME NEW k \in Nat, k < size
      PROVE  /\ f[k + 1] = ((value \div Pow2[ByteBits * k]) % ByteBase) * Pow2[ByteBits * k]
             /\ f[k + 1] \in Nat
  <2>1. k + 1 \in 1 .. size /\ k \in 0 .. size - 1 /\ (k + 1) - 1 = k
        /\ offset + (k + 1) - 1 = offset + k
    BY <1>1
  <2>2. f[k + 1] = data[offset + k] * Pow2[ByteBits * k]
    BY <2>1
  <2>3. data[offset + k] = WriteUnsigned(value, size)[k]
    BY <2>1
  <2>4. data[offset + k] \in 0 .. ByteBase - 1
    BY <2>1, <2>3, WrittenBytes
  <2>5. data[offset + k] = (value \div Pow2[ByteBits * k]) % ByteBase
    BY <2>1, <2>3 DEF WriteUnsigned
  <2>6. data[offset + k] * Pow2[ByteBits * k] \in Nat
    BY <2>4, ByteFacts
  <2>. QED  BY <2>2, <2>5, <2>6
<1>2. \A k \in 1 .. size : f[k] \in Nat
  <2>1. ASSUME NEW k \in 1 .. size PROVE f[k] \in Nat
    <3>1. k - 1 \in Nat /\ k - 1 < size /\ (k - 1) + 1 = k
      OBVIOUS
    <3>. HIDE DEF f
    <3>2. f[(k - 1) + 1] \in Nat
      BY <1>1, <3>1
    <3>. QED  BY <3>1, <3>2
  <2>. QED  BY <2>1
<1>3. ReadUnsigned(data, offset, size) = Total(f, size)
  BY DEF ReadUnsigned
<1>. HIDE DEF f
<1>4. /\ Total(f, 0) = 0
      /\ \A k \in 0 .. size : k < size => Total(f, k + 1) = Total(f, k) + f[k + 1]
  BY <1>2, TotalStep
<1>5. 0 \in P
  <2>1. ByteBits * 0 = 0 /\ Pow2[0] = 1
    BY ByteFacts, Pow2Unfolds
  <2>2. value % 1 = 0
    OBVIOUS
  <2>. QED  BY <1>4, <2>1, <2>2
<1>6. ASSUME NEW k \in Nat, k \in P PROVE k + 1 \in P
  <2>1. CASE k < size
    <3>. DEFINE a == Pow2[ByteBits * k]
    <3>1. a \in Nat \ {0} /\ Pow2[ByteBits * (k + 1)] = a * ByteBase /\ ByteBase \in Nat \ {0}
      BY ByteFacts, Zenon
    <3>2. Total(f, k + 1) = (value % a) + ((value \div a) % ByteBase) * a
      <4>1. k \in 0 .. size /\ k <= size /\ Total(f, k) = value % a
        BY <1>6, <2>1
      <4>2. Total(f, k + 1) = Total(f, k) + f[k + 1]
        BY <1>4, <2>1, <4>1
      <4>3. f[k + 1] = ((value \div a) % ByteBase) * a
        BY <1>1, <2>1
      <4>. QED  BY <4>1, <4>2, <4>3
    <3>. HIDE DEF a
    <3>3. value % (a * ByteBase) = (value % a) + ((value \div a) % ByteBase) * a
      BY <3>1, ModProduct
    <3>. QED  BY <3>1, <3>2, <3>3
  <2>2. CASE ~ (k < size)
    BY <2>2
  <2>. QED  BY <2>1, <2>2
<1>. HIDE DEF P
<1>7. Nat \subseteq P
  BY <1>5, <1>6, InductionOverNat
<1>8. Total(f, size) = value % Pow2[ByteBits * size]
  BY <1>7 DEF P
<1>9. value % Pow2[ByteBits * size] = value
  <2>. DEFINE a == Pow2[ByteBits * size]
  <2>1. a \in Nat \ {0} /\ value < a
    BY ByteFacts
  <2>. HIDE DEF a
  <2>2. value = 0 * a + value
    BY <2>1
  <2>3. (0 * a + value) % a = value
    BY <2>1, DivModUnique
  <2>4. value % a = value
    BY <2>2, <2>3
  <2>. QED  BY <2>4 DEF a
<1>. QED
  BY <1>3, <1>8, <1>9

\* readUnsigned() of equal bytes is equal.
LEMMA ReadSame ==
  ASSUME NEW data, NEW other, NEW size \in Nat, NEW offset \in Nat, NEW shifted \in Nat,
         \A i \in 0 .. size - 1 : data[offset + i] = other[shifted + i]
  PROVE  ReadUnsigned(data, offset, size) = ReadUnsigned(other, shifted, size)
<1>1. \A i \in 1 .. size : data[offset + i - 1] = other[shifted + i - 1]
  <2>1. ASSUME NEW i \in 1 .. size PROVE data[offset + i - 1] = other[shifted + i - 1]
    <3>1. i - 1 \in 0 .. size - 1 /\ offset + (i - 1) = offset + i - 1
          /\ shifted + (i - 1) = shifted + i - 1
      OBVIOUS
    <3>. QED  BY <3>1
  <2>. QED  BY <2>1
<1>2. [i \in 1 .. size |-> data[offset + i - 1] * Pow2[ByteBits * (i - 1)]]
        = [i \in 1 .. size |-> other[shifted + i - 1] * Pow2[ByteBits * (i - 1)]]
  BY <1>1
<1>. QED
  BY <1>2 DEF ReadUnsigned

\* A single byte is read as it is.
LEMMA ReadByte ==
  ASSUME NEW data, NEW offset \in Nat, data[offset] \in Nat
  PROVE  ReadUnsigned(data, offset, 1) = data[offset]
<1>. DEFINE f == [i \in 1 .. 1 |-> data[offset + i - 1] * Pow2[ByteBits * (i - 1)]]
<1>1. f[1] = data[offset]
  <2>1. ByteBits * (1 - 1) = 0 /\ offset + 1 - 1 = offset /\ 1 \in 1 .. 1
    BY ByteFacts
  <2>2. f[1] = data[offset] * Pow2[0]
    BY <2>1
  <2>. QED  BY <2>2, Pow2Unfolds
<1>2. ReadUnsigned(data, offset, 1) = Total(f, 1)
  BY DEF ReadUnsigned
<1>. HIDE DEF f
<1>3. /\ Total(f, 0) = 0
      /\ \A k \in 0 .. 1 : k < 1 => Total(f, k + 1) = Total(f, k) + f[k + 1]
  <2>1. \A k \in 1 .. 1 : f[k] \in Nat
    BY <1>1
  <2>2. 1 \in Nat
    OBVIOUS
  <2>. QED  BY <2>1, <2>2, TotalStep
<1>4. Total(f, 0 + 1) = Total(f, 0) + f[0 + 1]
  BY <1>3
<1>. QED
  BY <1>1, <1>2, <1>3, <1>4

----------------------------------------------------------------------------
(* Numbers *)

\* A set of numbers up to n that is not empty has a largest member, and Max is it.
LEMMA MaxOfBounded ==
  ASSUME NEW n \in Nat, NEW S \in SUBSET (0 .. n), S # {}
  PROVE  Max(S) \in S /\ \A y \in S : y <= Max(S)
<1>. DEFINE T == {n - y : y \in S}
<1>1. T \subseteq Nat /\ T # {}
  <2>1. PICK y \in S : TRUE
    OBVIOUS
  <2>2. n - y \in T
    OBVIOUS
  <2>. QED  BY <2>2
<1>. HIDE DEF T
<1>2. PICK d \in T : \A c \in T : ~(<<c, d>> \in OpToRel(<, Nat))
  BY <1>1, NatLessThanWellFounded, WFMin
<1>3. \A c \in T : ~(c < d)
  BY <1>1, <1>2 DEF OpToRel
<1>4. PICK x \in S : d = n - x
  BY <1>2 DEF T
<1>5. ASSUME NEW y \in S PROVE x >= y
  <2>1. n - y \in T
    BY DEF T
  <2>2. ~(n - y < n - x)
    BY <1>3, <1>4, <2>1
  <2>. QED  BY <2>2
<1>6. \E z \in S : \A y \in S : z >= y
  BY <1>5
<1>7. Max(S) \in S /\ \A y \in S : Max(S) >= y
  BY <1>6, Zenon DEF Max
<1>. QED
  BY <1>7

\* Of two numbers, the larger one.
LEMMA MaxOfTwo ==
  ASSUME NEW a \in Int, NEW b \in Int
  PROVE  Max({a, b}) = IF a >= b THEN a ELSE b
<1>. DEFINE m == IF a >= b THEN a ELSE b
<1>1. m \in {a, b} /\ \A y \in {a, b} : m >= y
  OBVIOUS
<1>2. \A z \in {a, b} : (\A y \in {a, b} : z >= y) => z = m
  OBVIOUS
<1>3. Max({a, b}) \in {a, b} /\ \A y \in {a, b} : Max({a, b}) >= y
  <2>1. \E z \in {a, b} : \A y \in {a, b} : z >= y
    BY <1>1
  <2>. QED  BY <2>1, Zenon DEF Max
<1>. QED
  BY <1>2, <1>3

\* The sizes of the two formats, and how they lie to each other.
LEMMA FormatFacts ==
  /\ WireFractionBits \in Nat /\ FractionBits \in Nat
  /\ WireExponentBits \in Nat \ {0} /\ ExponentBits \in Nat \ {0}
  /\ FractionBits >= 1 /\ FractionBits < WireFractionBits
  /\ Bias(ExponentBits) \in Nat /\ Bias(WireExponentBits) \in Nat
  /\ WireFractionBits + 2 <= Bias(ExponentBits)
  /\ Bias(ExponentBits) + FractionBits <= Bias(WireExponentBits)
  /\ Pow2[WireExponentBits] = 2 * Bias(WireExponentBits) + 2
<1>1. /\ WireFractionBits \in Nat \ {0} /\ FractionBits \in Nat \ {0}
      /\ WireExponentBits \in Nat \ {0} /\ ExponentBits \in Nat \ {0}
      /\ Pow2[ExponentBits - 1] + FractionBits <= Pow2[WireExponentBits - 1]
      /\ FractionBits < WireFractionBits
      /\ WireFractionBits < Pow2[ExponentBits - 1] - 2
  BY FormatAssumption
<1>2. /\ ExponentBits - 1 \in Nat /\ WireExponentBits - 1 \in Nat
      /\ (WireExponentBits - 1) + 1 = WireExponentBits
  BY <1>1
<1>3. /\ Pow2[ExponentBits - 1] \in Nat /\ Pow2[WireExponentBits - 1] \in Nat
      /\ Pow2[WireExponentBits - 1] >= 1
      /\ Pow2[WireExponentBits] = 2 * Pow2[WireExponentBits - 1]
  <2>1. Pow2[(WireExponentBits - 1) + 1] = 2 * Pow2[WireExponentBits - 1]
    BY <1>2, Pow2Unfolds
  <2>. QED  BY <1>2, <2>1, Pow2Positive
<1>. QED
  BY <1>1, <1>3 DEF Bias

\* Significands are less than this.
Wide == Pow2[WireFractionBits + 2]

\* The leading one of a number.
LEMMA LeadingOne ==
  ASSUME NEW m \in Nat \ {0}, m < Wide
  PROVE  /\ Leading(m) \in 0 .. WireFractionBits + 1
         /\ Pow2[Leading(m)] <= m
         /\ m < Pow2[Leading(m) + 1]
<1>. DEFINE S == {k \in 0 .. WireFractionBits + 1 : Pow2[k] <= m}
<1>1. WireFractionBits + 1 \in Nat /\ S \in SUBSET (0 .. WireFractionBits + 1) /\ 0 \in S
  BY FormatFacts, Pow2Unfolds
<1>2. Leading(m) = Max(S)
  BY DEF Leading
<1>. HIDE DEF S
<1>3. Max(S) \in S /\ \A y \in S : y <= Max(S)
  BY <1>1, MaxOfBounded
<1>4. Max(S) \in 0 .. WireFractionBits + 1 /\ Pow2[Max(S)] <= m
  BY <1>3 DEF S
<1>5. m < Pow2[Max(S) + 1]
  <2>1. CASE Max(S) = WireFractionBits + 1
    <3>1. Max(S) + 1 = WireFractionBits + 2
      BY <2>1, FormatFacts
    <3>. QED  BY <3>1 DEF Wide
  <2>2. CASE Max(S) # WireFractionBits + 1
    <3>1. Max(S) + 1 \in 0 .. WireFractionBits + 1 /\ Max(S) + 1 \in Nat
      BY <1>4, <2>2, FormatFacts
    <3>2. Max(S) + 1 \notin S
      BY <1>3, <1>4
    <3>3. Pow2[Max(S) + 1] \in Nat /\ ~(Pow2[Max(S) + 1] <= m)
      BY <3>1, <3>2, Pow2Positive DEF S
    <3>. QED  BY <3>3
  <2>. QED  BY <2>1, <2>2
<1>. QED
  BY <1>2, <1>4, <1>5

\* A number lies between one pair of powers of two only.
LEMMA LeadingUnique ==
  ASSUME NEW m \in Nat \ {0}, NEW k \in Nat, NEW l \in Nat,
         Pow2[k] <= m, m < Pow2[k + 1], Pow2[l] <= m, m < Pow2[l + 1]
  PROVE  k = l
<1>1. ASSUME NEW a \in Nat, NEW b \in Nat, Pow2[a] <= m, m < Pow2[b + 1], a > b PROVE FALSE
  <2>1. Pow2[b + 1] <= Pow2[a]
    BY <1>1, Pow2Grows
  <2>. QED  BY <1>1, <2>1, Pow2Positive
<1>. QED
  BY <1>1

\* Leading is the highest power of two that fits.
LEMMA LeadingIs ==
  ASSUME NEW m \in Nat \ {0}, NEW k \in Nat, Pow2[k] <= m, m < Pow2[k + 1],
         k <= WireFractionBits + 1
  PROVE  Leading(m) = k /\ m < Wide
<1>1. m < Wide
  <2>1. k + 1 \in Nat /\ WireFractionBits + 2 \in Nat /\ k + 1 <= WireFractionBits + 2
    BY FormatFacts
  <2>2. Pow2[k + 1] <= Wide
    BY <2>1, Pow2Grows DEF Wide
  <2>. QED  BY <2>1, <2>2, Pow2Positive DEF Wide
<1>2. Leading(m) \in Nat /\ Pow2[Leading(m)] <= m /\ m < Pow2[Leading(m) + 1]
  BY <1>1, LeadingOne, FormatFacts
<1>. QED
  BY <1>1, <1>2, LeadingUnique

\* An odd number times a power of two is no multiple of a larger power.
LEMMA OddPartFull ==
  ASSUME NEW a \in Nat, NEW b \in Nat, NEW c \in Nat, NEW d \in Nat,
         a % 2 = 1, a * Pow2[c] = b * Pow2[d]
  PROVE  d <= c
<1>. SUFFICES ASSUME c < d PROVE FALSE
  OBVIOUS
<1>. DEFINE w == Pow2[c]
            u == Pow2[d - c - 1]
<1>1. d - c - 1 \in Nat /\ d = (d - c - 1) + (c + 1) /\ c + 1 \in Nat
  OBVIOUS
<1>2. w \in Nat /\ w >= 1 /\ u \in Nat /\ Pow2[c + 1] = 2 * w
  BY <1>1, Pow2Positive, Pow2Unfolds
<1>3. Pow2[d] = u * (2 * w)
  BY <1>1, <1>2, Pow2Sum
<1>. HIDE DEF w, u
<1>4. a * w = (2 * (b * u)) * w
  BY <1>2, <1>3 DEF w
<1>5. b * u \in Nat
  BY <1>2
<1>. DEFINE t == b * u
<1>. HIDE DEF t
<1>6. a = 2 * t
  BY <1>2, <1>4, <1>5 DEF t
<1>. QED
  BY <1>5, <1>6 DEF t

\* The finite number m * 2^e that is not negative.
Fin(m, e) == [kind |-> "finite", negative |-> FALSE, m |-> m, e |-> e]

\* Number takes the powers of two out of a significand.
LEMMA NumberForm ==
  ASSUME NEW m \in Nat \ {0}, m < Wide, NEW e \in Int
  PROVE  \E q, k \in Nat :
           q % 2 = 1 /\ m = q * Pow2[k] /\ Number(m, e) = Fin(q, e + k)
<1>. DEFINE S == {j \in 0 .. WireFractionBits + 1 : m % Pow2[j] = 0}
            k == Max(S)
            q == m \div Pow2[k]
<1>1. WireFractionBits + 1 \in Nat /\ S \in SUBSET (0 .. WireFractionBits + 1) /\ 0 \in S
  <2>1. m % 1 = 0
    OBVIOUS
  <2>. QED  BY <2>1, FormatFacts, Pow2Unfolds
<1>2. Number(m, e) = Fin(q, e + k)
  BY DEF Number, Fin
<1>. HIDE DEF S
<1>3. k \in S /\ \A y \in S : y <= k
  BY <1>1, MaxOfBounded
<1>. HIDE DEF k
<1>4. k \in 0 .. WireFractionBits + 1 /\ k \in Nat /\ m % Pow2[k] = 0
  BY <1>3, FormatFacts DEF S
<1>5. Pow2[k] \in Nat \ {0}
  BY <1>4, Pow2Positive
<1>6. q \in Nat /\ m = q * Pow2[k] + (m % Pow2[k])
  BY <1>5, DivMod
<1>. HIDE DEF q
<1>7. m = q * Pow2[k]
  BY <1>4, <1>5, <1>6
<1>8. q % 2 = 1
  <2>. SUFFICES ASSUME q % 2 = 0 PROVE FALSE
    BY <1>6
  <2>. DEFINE c == q \div 2
  <2>1. c \in Nat /\ q = 2 * c
    BY <1>6
  <2>. HIDE DEF c
  <2>2. Pow2[k + 1] = 2 * Pow2[k] /\ Pow2[k + 1] \in Nat \ {0}
    BY <1>4, <1>5, Pow2Unfolds
  <2>3. m = c * Pow2[k + 1]
    BY <1>5, <1>7, <2>1, <2>2
  <2>4. CASE k = WireFractionBits + 1
    <3>1. Pow2[k + 1] = Wide
      <4>1. k + 1 = WireFractionBits + 2
        BY <2>4, FormatFacts
      <4>. QED  BY <4>1 DEF Wide
    <3>. DEFINE w == Wide
    <3>2. w \in Nat \ {0} /\ m = c * w /\ m < w
      BY <2>2, <2>3, <3>1
    <3>. HIDE DEF w
    <3>3. c = 0
      BY <2>1, <3>2
    <3>. QED  BY <3>2, <3>3
  <2>5. CASE k # WireFractionBits + 1
    <3>1. k + 1 \in 0 .. WireFractionBits + 1
      BY <1>4, <2>5, FormatFacts
    <3>. DEFINE w == Pow2[k + 1]
    <3>2. w \in Nat \ {0} /\ m = c * w + 0
      BY <2>1, <2>2, <2>3
    <3>. HIDE DEF w
    <3>3. m % w = 0
      BY <2>1, <3>2, DivModUnique
    <3>4. k + 1 \in S
      BY <3>1, <3>3 DEF S, w
    <3>. QED  BY <1>3, <1>4, <3>4
  <2>. QED  BY <2>4, <2>5
<1>. QED
  BY <1>2, <1>4, <1>6, <1>7, <1>8

\* An odd number times a power of two is so in one way.
LEMMA OddPartUnique ==
  ASSUME NEW q \in Nat, NEW p \in Nat, NEW k \in Nat, NEW l \in Nat,
         q % 2 = 1, p % 2 = 1, q * Pow2[k] = p * Pow2[l]
  PROVE  q = p /\ k = l
<1>1. k <= l
  BY OddPartFull
<1>2. l <= k
  BY OddPartFull
<1>. DEFINE w == Pow2[k]
<1>3. k = l /\ w \in Nat /\ w > k /\ q * w = p * w
  BY <1>1, <1>2, Pow2Positive
<1>. HIDE DEF w
<1>4. q = p
  BY <1>3
<1>. QED
  BY <1>3, <1>4

\* The powers of two that are taken out do not matter.
LEMMA NumberIs ==
  ASSUME NEW q \in Nat, NEW k \in Nat, NEW e \in Int, q % 2 = 1, q * Pow2[k] < Wide
  PROVE  Number(q * Pow2[k], e) = Fin(q, e + k)
<1>. DEFINE m == q * Pow2[k]
<1>1. m \in Nat \ {0}
  <2>1. Pow2[k] \in Nat \ {0} /\ q # 0
    BY Pow2Positive
  <2>. QED  BY <2>1
<1>2. PICK p \in Nat, l \in Nat : p % 2 = 1 /\ m = p * Pow2[l] /\ Number(m, e) = Fin(p, e + l)
  BY <1>1, NumberForm
<1>3. p = q /\ l = k
  BY <1>2, OddPartUnique
<1>. QED
  BY <1>2, <1>3

\* Zero has no significand and exponent 0.
LEMMA NumberZero ==
  ASSUME NEW e \in Int
  PROVE  Number(0, e) = Fin(0, 0)
<1>1. Pow2[0] = 1 /\ 0 \div 1 = 0
  BY Pow2Unfolds
<1>. QED
  BY <1>1 DEF Number, Fin

----------------------------------------------------------------------------
(* Rounding *)

\* v rounded to a multiple of g, ties to even.
Nearest(v, g) ==
  LET kept == v \div g
      rest == v % g
  IN (IF 2 * rest > g \/ (2 * rest = g /\ kept % 2 = 1) THEN kept + 1 ELSE kept) * g

\* Nearest by quotient and remainder: up past the middle, to even in it.
LEMMA NearestIs ==
  ASSUME NEW g \in Nat \ {0}, NEW q \in Nat, NEW r \in Nat, r < g
  PROVE  Nearest(q * g + r, g)
           = (IF 2 * r > g \/ (2 * r = g /\ q % 2 = 1) THEN q + 1 ELSE q) * g
<1>1. (q * g + r) \div g = q /\ (q * g + r) % g = r
  BY DivModUnique
<1>. QED
  BY <1>1 DEF Nearest

\* A multiple stays.
LEMMA NearestMultiple ==
  ASSUME NEW g \in Nat \ {0}, NEW q \in Nat
  PROVE  Nearest(q * g, g) = q * g
<1>1. q * g + 0 = q * g /\ 0 < g /\ 0 \in Nat /\ ~(2 * 0 > g) /\ 2 * 0 # g
  OBVIOUS
<1>2. Nearest(q * g + 0, g) = q * g
  BY <1>1, NearestIs
<1>. QED
  BY <1>1, <1>2

\* Rounding is a number, and never turns two numbers around.
LEMMA NearestMonotone ==
  ASSUME NEW g \in Nat \ {0}, NEW v \in Nat, NEW w \in Nat, v <= w
  PROVE  Nearest(v, g) \in Nat /\ Nearest(v, g) <= Nearest(w, g)
<1>. DEFINE q == v \div g
            r == v % g
            p == w \div g
            t == w % g
            a == IF 2 * r > g \/ (2 * r = g /\ q % 2 = 1) THEN q + 1 ELSE q
            b == IF 2 * t > g \/ (2 * t = g /\ p % 2 = 1) THEN p + 1 ELSE p
<1>1. Nearest(v, g) = a * g /\ Nearest(w, g) = b * g
  BY DEF Nearest
<1>2. q \in Nat /\ r \in Nat /\ r < g /\ v = q * g + r
  BY DivMod, Zenon
<1>3. p \in Nat /\ t \in Nat /\ t < g /\ w = p * g + t
  BY DivMod, Zenon
<1>. HIDE DEF q, r, p, t
<1>4. q <= p
  <2>. SUFFICES ASSUME p + 1 <= q PROVE FALSE
    BY <1>2, <1>3
  <2>1. (p + 1) * g <= q * g
    BY <1>2, <1>3
  <2>2. (p + 1) * g = p * g + g
    BY <1>3
  <2>. QED  BY <1>2, <1>3, <2>1, <2>2
<1>5. q = p => r <= t
  BY <1>2, <1>3
<1>6. a \in Nat /\ b \in Nat /\ a <= b
  BY <1>2, <1>3, <1>4, <1>5
<1>. HIDE DEF a, b
<1>7. a * g \in Nat /\ a * g <= b * g
  BY <1>6
<1>. QED
  BY <1>1, <1>7

\* Multiples bound what lies below and above them.
LEMMA NearestBounds ==
  ASSUME NEW g \in Nat \ {0}, NEW v \in Nat, NEW q \in Nat
  PROVE  /\ v <= q * g => Nearest(v, g) <= q * g
         /\ q * g <= v => q * g <= Nearest(v, g)
<1>1. q * g \in Nat
  OBVIOUS
<1>2. v <= q * g => Nearest(v, g) <= Nearest(q * g, g)
  BY <1>1, NearestMonotone
<1>3. q * g <= v => Nearest(q * g, g) <= Nearest(v, g)
  BY <1>1, NearestMonotone
<1>. QED
  BY <1>2, <1>3, NearestMultiple

\* Less than half a unit vanishes.
LEMMA NearestVanishes ==
  ASSUME NEW g \in Nat \ {0}, NEW v \in Nat, 2 * v < g
  PROVE  Nearest(v, g) = 0
<1>1. v < g /\ 0 * g + v = v /\ 0 \in Nat
  OBVIOUS
<1>2. Nearest(0 * g + v, g) = 0 * g
  BY <1>1, NearestIs
<1>. QED
  BY <1>1, <1>2

\* Rounding does not depend on the unit in which number and grid are counted.
LEMMA NearestScaled ==
  ASSUME NEW g \in Nat \ {0}, NEW v \in Nat, NEW s \in Nat \ {0}
  PROVE  Nearest(v * s, g * s) = Nearest(v, g) * s
<1>. DEFINE q == v \div g
            r == v % g
            a == IF 2 * r > g \/ (2 * r = g /\ q % 2 = 1) THEN q + 1 ELSE q
<1>1. Nearest(v, g) = a * g
  BY DEF Nearest
<1>2. q \in Nat /\ r \in Nat /\ r < g /\ v = q * g + r
  BY DivMod, Zenon
<1>. HIDE DEF q, r
<1>3. v * s = q * (g * s) + r * s
  <2>1. (q * g + r) * s = (q * g) * s + r * s /\ (q * g) * s = q * (g * s)
    BY <1>2
  <2>. QED  BY <1>2, <2>1
<1>4. g * s \in Nat \ {0} /\ r * s \in Nat /\ r * s < g * s
  BY <1>2
<1>5. (2 * (r * s) > g * s <=> 2 * r > g) /\ (2 * (r * s) = g * s <=> 2 * r = g)
  <2>1. 2 * (r * s) = (2 * r) * s
    BY <1>2
  <2>2. ASSUME NEW c \in Nat, NEW d \in Nat PROVE (c * s > d * s <=> c > d)
               /\ (c * s = d * s <=> c = d)
    <3>1. c > d => c * s > d * s
      OBVIOUS
    <3>2. c < d => c * s < d * s
      OBVIOUS
    <3>3. c * s \in Nat /\ d * s \in Nat
      OBVIOUS
    <3>. QED  BY <3>1, <3>2, <3>3
  <2>3. 2 * r \in Nat
    BY <1>2
  <2>4. ((2 * r) * s > g * s <=> 2 * r > g) /\ ((2 * r) * s = g * s <=> 2 * r = g)
    BY <2>2, <2>3
  <2>. QED  BY <2>1, <2>4
<1>6. Nearest(q * (g * s) + r * s, g * s) = a * (g * s)
  <2>1. Nearest(q * (g * s) + r * s, g * s)
          = (IF 2 * (r * s) > g * s \/ (2 * (r * s) = g * s /\ q % 2 = 1)
             THEN q + 1 ELSE q) * (g * s)
    BY <1>2, <1>4, NearestIs
  <2>. QED  BY <1>5, <2>1
<1>7. a \in Nat
  BY <1>2
<1>. HIDE DEF a
<1>8. a * (g * s) = (a * g) * s
  BY <1>7
<1>. QED
  BY <1>1, <1>3, <1>6, <1>8

\* Minus the exponent of the least number of the wire.
Scale == Bias(WireExponentBits) + WireFractionBits - 1

\* A number in units of the least number of the wire.
Val(x) == x.m * Pow2[x.e + Scale]

\* x is a finite number, not negative, with its powers of two in the exponent.
Plain(x) ==
  \E m \in Nat, e \in Int :
    /\ x = Fin(m, e) /\ m < Wide /\ e >= - Scale
    /\ m = 0 => e = 0
    /\ m # 0 => m % 2 = 1

\* The constants of the native format, in these units.
LEMMA ScaleFacts ==
  /\ Scale \in Nat /\ Scale \in Int /\ WireFractionBits <= Scale
  /\ Bias(ExponentBits) + FractionBits - 1 <= Scale
  /\ Wide \in Nat /\ Wide >= 4
<1>1. Pow2[WireFractionBits + 2] > WireFractionBits + 2 /\ Pow2[WireFractionBits + 2] \in Nat
  BY FormatFacts, Pow2Positive
<1>. QED
  BY <1>1, FormatFacts DEF Scale, Wide

\* What a plain number consists of.
LEMMA PlainFacts ==
  ASSUME NEW x, Plain(x)
  PROVE  /\ x.kind = "finite" /\ x.negative = FALSE /\ x.m \in Nat /\ x.m < Wide
         /\ x.e \in Int /\ x.e >= - Scale
         /\ x = Fin(x.m, x.e)
         /\ x.m = 0 => x.e = 0 /\ x = Fin(0, 0)
         /\ x.m # 0 => x.m % 2 = 1 /\ x.m >= 1
         /\ x.e + Scale \in Nat /\ Pow2[x.e + Scale] \in Nat \ {0} /\ Val(x) \in Nat
         /\ Val(x) = 0 <=> x.m = 0
<1>1. PICK m \in Nat, e \in Int :
        /\ x = Fin(m, e) /\ m < Wide /\ e >= - Scale
        /\ m = 0 => e = 0
        /\ m # 0 => m % 2 = 1
  BY DEF Plain
<1>2. x.kind = "finite" /\ x.negative = FALSE /\ x.m = m /\ x.e = e
  BY <1>1 DEF Fin
<1>3. e + Scale \in Nat
  BY <1>1, ScaleFacts
<1>4. Pow2[e + Scale] \in Nat \ {0}
  BY <1>3, Pow2Positive
<1>5. Val(x) = m * Pow2[e + Scale]
  BY <1>2 DEF Val
<1>. DEFINE w == Pow2[e + Scale]
<1>. HIDE DEF w
<1>6. m * w \in Nat /\ (m * w = 0 <=> m = 0)
  BY <1>4 DEF w
<1>. QED
  BY <1>1, <1>2, <1>3, <1>4, <1>5, <1>6 DEF w

\* When a significand and an exponent make a plain number.
LEMMA FinPlain ==
  ASSUME NEW m \in Nat, NEW e \in Int, m < Wide, e >= - Scale, m = 0 => e = 0, m # 0 => m % 2 = 1
  PROVE  Plain(Fin(m, e)) /\ Fin(m, e).m = m /\ Fin(m, e).e = e /\ Fin(m, e).kind = "finite"
BY DEF Plain, Fin

\* Number gives m * 2^e.
LEMMA NumberPlain ==
  ASSUME NEW m \in Nat, m < Wide, NEW e \in Int, e >= - Scale
  PROVE  /\ Plain(Number(m, e)) /\ Val(Number(m, e)) = m * Pow2[e + Scale]
         /\ Number(m, e).m \in Nat /\ Number(m, e).m <= m
         /\ m # 0 => Number(m, e).e >= e
<1>1. CASE m = 0
  <2>1. Number(m, e) = Fin(0, 0)
    BY <1>1, NumberZero
  <2>2. Plain(Fin(0, 0)) /\ Fin(0, 0).m = 0
    BY ScaleFacts, FinPlain
  <2>3. Val(Fin(0, 0)) = 0
    BY <2>2, PlainFacts
  <2>4. Pow2[e + Scale] \in Nat /\ 0 * Pow2[e + Scale] = 0
    BY ScaleFacts, Pow2Positive
  <2>. QED  BY <1>1, <2>1, <2>2, <2>3, <2>4
<1>2. CASE m # 0
  <2>1. PICK q \in Nat, k \in Nat : q % 2 = 1 /\ m = q * Pow2[k] /\ Number(m, e) = Fin(q, e + k)
    BY <1>2, NumberForm
  <2>2. Pow2[k] \in Nat /\ Pow2[k] >= 1
    BY Pow2Positive
  <2>3. q <= m /\ q # 0
    <3>. DEFINE w == Pow2[k]
    <3>. HIDE DEF w
    <3>1. w \in Nat /\ w >= 1 => q <= q * w
      OBVIOUS
    <3>. QED  BY <2>1, <2>2, <3>1 DEF w
  <2>4. Plain(Fin(q, e + k)) /\ Fin(q, e + k).m = q /\ Fin(q, e + k).e = e + k
    BY <2>1, <2>3, FinPlain, ScaleFacts
  <2>5. Pow2[e + k + Scale] = Pow2[k] * Pow2[e + Scale] /\ Pow2[e + Scale] \in Nat
    <3>1. e + Scale \in Nat /\ k + (e + Scale) = e + k + Scale
      BY ScaleFacts
    <3>2. Pow2[k + (e + Scale)] = Pow2[k] * Pow2[e + Scale]
      BY <3>1, Pow2Sum
    <3>. QED  BY <3>1, <3>2, Pow2Positive
  <2>6. Val(Fin(q, e + k)) = q * (Pow2[k] * Pow2[e + Scale])
    BY <2>4, <2>5 DEF Val
  <2>7. q * (Pow2[k] * Pow2[e + Scale]) = (q * Pow2[k]) * Pow2[e + Scale]
    BY <2>2, <2>5
  <2>. QED  BY <2>1, <2>3, <2>4, <2>6, <2>7
<1>. QED
  BY <1>1, <1>2

\* A number has one form.
LEMMA ValUnique ==
  ASSUME NEW x, NEW y, Plain(x), Plain(y), Val(x) = Val(y)
  PROVE  x = y
<1>0. (Val(x) = 0 <=> x.m = 0) /\ (Val(y) = 0 <=> y.m = 0)
  BY PlainFacts
<1>1. CASE x.m = 0
  <2>1. y.m = 0
    BY <1>0, <1>1
  <2>2. x = Fin(0, 0) /\ y = Fin(0, 0)
    BY <1>1, <2>1, PlainFacts
  <2>. QED  BY <2>2
<1>2. CASE x.m # 0
  <2>1. y.m # 0
    BY <1>0, <1>2
  <2>2. x.m = y.m /\ x.e + Scale = y.e + Scale
    <3>1. /\ x.m \in Nat /\ y.m \in Nat /\ x.m % 2 = 1 /\ y.m % 2 = 1
          /\ x.e + Scale \in Nat /\ y.e + Scale \in Nat
      BY <1>2, <2>1, PlainFacts
    <3>. QED  BY <3>1, OddPartUnique DEF Val
  <2>3. x.e \in Int /\ y.e \in Int /\ Scale \in Int
    BY PlainFacts, ScaleFacts, Zenon
  <2>4. x.e = y.e
    <3>1. \A a, b, c \in Int : a + c = b + c => a = b
      OBVIOUS
    <3>. QED  BY <2>2, <2>3, <3>1, Zenon
  <2>5. x = Fin(x.m, x.e) /\ y = Fin(y.m, y.e)
    BY PlainFacts
  <2>. QED  BY <2>2, <2>4, <2>5
<1>. QED
  BY <1>1, <1>2

\* The powers of two around a number.
LEMMA ValTop ==
  ASSUME NEW x, Plain(x), x.m # 0
  PROVE  /\ Leading(x.m) \in 0 .. WireFractionBits + 1 /\ Leading(x.m) \in Nat
         /\ Pow2[Leading(x.m)] <= x.m /\ x.m < Pow2[Leading(x.m) + 1]
         /\ Leading(x.m) + x.e + Scale \in Nat
         /\ Pow2[Leading(x.m) + x.e + Scale] <= Val(x)
         /\ Val(x) < Pow2[Leading(x.m) + x.e + Scale + 1]
<1>. DEFINE l == Leading(x.m)
            u == x.e + Scale
<1>1. x.m \in Nat \ {0} /\ x.m < Wide /\ u \in Nat /\ Pow2[u] \in Nat \ {0}
      /\ Val(x) = x.m * Pow2[u]
  BY PlainFacts DEF Val
<1>2. l \in 0 .. WireFractionBits + 1 /\ Pow2[l] <= x.m /\ x.m < Pow2[l + 1]
  BY <1>1, LeadingOne
<1>. HIDE DEF l
<1>3. l \in Nat /\ l + 1 \in Nat /\ Pow2[l] \in Nat /\ Pow2[l + 1] \in Nat
  BY <1>2, FormatFacts, Pow2Positive
<1>4. Pow2[l + u] = Pow2[l] * Pow2[u] /\ Pow2[(l + 1) + u] = Pow2[l + 1] * Pow2[u]
  BY <1>1, <1>3, Pow2Sum
<1>5. Pow2[l] * Pow2[u] <= x.m * Pow2[u] /\ x.m * Pow2[u] < Pow2[l + 1] * Pow2[u]
  <2>1. \A a, b \in Nat, c \in Nat \ {0} : (a <= b => a * c <= b * c) /\ (a < b => a * c < b * c)
    OBVIOUS
  <2>. QED  BY <1>1, <1>2, <1>3, <2>1
<1>6. l + u = l + x.e + Scale /\ (l + 1) + u = l + x.e + Scale + 1 /\ l + u \in Nat
  <2>1. x.e \in Int /\ Scale \in Int
    BY PlainFacts, ScaleFacts, Zenon
  <2>. QED  BY <1>1, <1>3, <2>1
<1>. QED
  BY <1>1, <1>2, <1>3, <1>4, <1>5, <1>6 DEF l

\* The exponent of the last place that a native number as large as x has.
Grid(x) == Max({Leading(x.m) + x.e, 1 - Bias(ExponentBits)}) - FractionBits

\* The least power of two that is out of the native range.
Top == Pow2[Bias(ExponentBits) + 1 + Scale]

\* x is a native number, not negative.
Held(x) == Plain(x) /\ Representable(x)

\* The grid of a number: normal numbers by their leading bit, subnormal ones by the format.
LEMMA GridFacts ==
  ASSUME NEW x, Plain(x), x.m # 0
  PROVE  /\ Grid(x) \in Int /\ Grid(x) + Scale \in Nat
         /\ Leading(x.m) \in Nat /\ x.e \in Int
         /\ Grid(x) = IF Leading(x.m) + x.e >= 1 - Bias(ExponentBits)
                      THEN (Leading(x.m) + x.e) - FractionBits
                      ELSE 1 - Bias(ExponentBits) - FractionBits
<1>1. Leading(x.m) \in Nat /\ x.e \in Int
  BY ValTop, PlainFacts, Zenon
<1>2. Leading(x.m) + x.e \in Int /\ 1 - Bias(ExponentBits) \in Int
  BY <1>1, FormatFacts
<1>3. Max({Leading(x.m) + x.e, 1 - Bias(ExponentBits)})
        = IF Leading(x.m) + x.e >= 1 - Bias(ExponentBits)
          THEN Leading(x.m) + x.e ELSE 1 - Bias(ExponentBits)
  BY <1>2, MaxOfTwo
<1>. QED
  BY <1>1, <1>2, <1>3, FormatFacts, ScaleFacts DEF Grid

\* A native number is not rounded.
LEMMA RoundedHeld ==
  ASSUME NEW x, Held(x)
  PROVE  Rounded(x) = x
<1>1. Plain(x) /\ x.kind = "finite"
  BY PlainFacts DEF Held
<1>2. CASE x.m = 0
  BY <1>2 DEF Rounded
<1>3. CASE x.m # 0
  <2>1. /\ x.e >= 1 - Bias(ExponentBits) - FractionBits
        /\ Leading(x.m) <= FractionBits
        /\ ~(Leading(x.m) + x.e > Bias(ExponentBits))
        /\ Leading(x.m) \in Nat /\ x.e \in Int
    <3>1. Leading(x.m) \in Nat /\ x.e \in Int
      BY <1>1, <1>3, GridFacts
    <3>. QED  BY <1>1, <1>3, <3>1, FormatFacts DEF Held, Representable
  <2>2. Grid(x) - x.e <= 0 /\ ~(Grid(x) - x.e > Leading(x.m) + 1)
    BY <1>1, <1>3, <2>1, GridFacts, FormatFacts
  <2>. QED  BY <1>1, <1>3, <2>1, <2>2 DEF Rounded, Grid
<1>. QED
  BY <1>2, <1>3

\* What a rounding gives, but for its range: a number of FractionBits places with
\* the value nearest to that of x.
LEMMA Unbounded ==
  ASSUME NEW x, Plain(x), x.m # 0
  PROVE  \E y : /\ Plain(y) /\ Val(y) = Nearest(Val(x), Pow2[Grid(x) + Scale])
                /\ Rounded(x) = IF y.m # 0 /\ Leading(y.m) + y.e > Bias(ExponentBits)
                                THEN Infinite ELSE y
                /\ y.m # 0 => /\ y.e >= 1 - Bias(ExponentBits) - FractionBits
                              /\ Leading(y.m) <= FractionBits
                              /\ y.e >= x.e
<1>. DEFINE l == Leading(x.m)
            u == x.e + Scale
            last == Grid(x)
            drop == last - x.e
            kept == x.m \div Pow2[drop]
            rest == x.m % Pow2[drop]
            up == 2 * rest > Pow2[drop] \/ (2 * rest = Pow2[drop] /\ kept % 2 = 1)
            y == CASE drop <= 0 -> x
                   [] drop > l + 1 -> Number(0, 0)
                   [] OTHER -> Number(IF up THEN kept + 1 ELSE kept, last)
<1>1. /\ x.kind = "finite" /\ x.m \in Nat \ {0} /\ x.m < Wide /\ x.e \in Int /\ x.e >= - Scale
      /\ u \in Nat /\ Pow2[u] \in Nat \ {0} /\ Val(x) = x.m * Pow2[u]
  BY PlainFacts DEF Val
<1>2. /\ l \in Nat /\ Pow2[l] <= x.m /\ x.m < Pow2[l + 1]
      /\ last \in Int /\ last + Scale \in Nat
      /\ last = IF l + x.e >= 1 - Bias(ExponentBits) THEN (l + x.e) - FractionBits
                ELSE 1 - Bias(ExponentBits) - FractionBits
  BY ValTop, GridFacts
<1>3. Rounded(x) = IF y.m # 0 /\ Leading(y.m) + y.e > Bias(ExponentBits) THEN Infinite ELSE y
  BY <1>1 DEF Rounded, Grid
<1>. HIDE DEF l, last
<1>. SUFFICES /\ Plain(y) /\ Val(y) = Nearest(Val(x), Pow2[last + Scale])
              /\ y.m # 0 => /\ y.e >= 1 - Bias(ExponentBits) - FractionBits
                            /\ Leading(y.m) <= FractionBits
                            /\ y.e >= x.e
  BY <1>3 DEF last
<1>4. CASE drop <= 0
  <2>1. y = x
    <3>1. ~(drop > l + 1)
      BY <1>1, <1>2, <1>4
    <3>. QED  BY <1>4, <3>1
  <2>2. Leading(y.m) <= FractionBits /\ y.e >= 1 - Bias(ExponentBits) - FractionBits
    <3>1. l <= FractionBits /\ x.e >= 1 - Bias(ExponentBits) - FractionBits
      BY <1>1, <1>2, <1>4, FormatFacts
    <3>. QED  BY <2>1, <3>1 DEF l
  <2>3. Nearest(Val(x), Pow2[last + Scale]) = Val(x)
    <3>. DEFINE g == Pow2[last + Scale]
                d == x.e - last
    <3>1. g \in Nat \ {0}
      BY <1>2, Pow2Positive
    <3>2. d \in Nat /\ u = d + (last + Scale)
      BY <1>1, <1>2, <1>4, ScaleFacts
    <3>3. Pow2[u] = Pow2[d] * g /\ Pow2[d] \in Nat
      BY <1>2, <3>2, Pow2Sum, Pow2Positive
    <3>. HIDE DEF g, d
    <3>4. x.m * Pow2[d] \in Nat /\ Val(x) = (x.m * Pow2[d]) * g
      BY <1>1, <3>1, <3>3
    <3>5. Nearest((x.m * Pow2[d]) * g, g) = (x.m * Pow2[d]) * g
      BY <3>1, <3>4, NearestMultiple
    <3>. QED  BY <3>4, <3>5 DEF g
  <2>. QED  BY <1>1, <2>1, <2>2, <2>3
<1>5. CASE drop > l + 1
  <2>1. y = Fin(0, 0)
    <3>1. ~(drop <= 0)
      BY <1>1, <1>2, <1>5
    <3>2. y = Number(0, 0)
      BY <1>5, <3>1
    <3>. QED  BY <3>2, NumberZero
  <2>2. Plain(Fin(0, 0)) /\ Fin(0, 0).m = 0
    BY ScaleFacts, FinPlain
  <2>3. Val(Fin(0, 0)) = 0
    BY <2>2, PlainFacts
  <2>4. Nearest(Val(x), Pow2[last + Scale]) = 0
    <3>1. Val(x) < Pow2[l + x.e + Scale + 1] /\ l + x.e + Scale \in Nat /\ Val(x) \in Nat
      BY ValTop, PlainFacts DEF l
    <3>2. l + x.e + Scale + 1 < last + Scale
      BY <1>1, <1>2, <1>5, ScaleFacts
    <3>3. 2 * Pow2[l + x.e + Scale + 1] <= Pow2[last + Scale]
      BY <1>2, <3>1, <3>2, Pow2Grows
    <3>4. Pow2[l + x.e + Scale + 1] \in Nat /\ Pow2[last + Scale] \in Nat \ {0}
      BY <1>2, <3>1, Pow2Positive
    <3>5. 2 * Val(x) < Pow2[last + Scale]
      BY <3>1, <3>3, <3>4
    <3>. QED  BY <3>1, <3>4, <3>5, NearestVanishes
  <2>. QED  BY <2>1, <2>2, <2>3, <2>4
<1>6. CASE drop > 0 /\ drop <= l + 1
  <2>. DEFINE g == Pow2[drop]
              k == IF up THEN kept + 1 ELSE kept
  <2>1. drop \in Nat /\ g \in Nat \ {0}
    BY <1>1, <1>2, <1>6, Pow2Positive
  <2>2. y = Number(k, last)
    BY <1>1, <1>2, <1>6
  <2>3. Nearest(x.m, g) = k * g
    BY DEF Nearest
  <2>4. kept \in Nat /\ rest \in Nat /\ rest < g /\ x.m = kept * g + rest
    BY <1>1, <2>1, DivMod, Zenon
  <2>5. k \in Nat /\ k <= kept + 1
    BY <2>4
  <2>6. kept < Pow2[FractionBits + 1]
    <3>. DEFINE d == l + 1 - drop
    <3>1. d \in Nat /\ d <= FractionBits + 1 /\ l + 1 = d + drop
      BY <1>1, <1>2, <1>6, FormatFacts
    <3>. HIDE DEF d, kept, rest
    <3>2. Pow2[l + 1] = Pow2[d] * g /\ Pow2[d] \in Nat
      BY <2>1, <3>1, Pow2Sum, Pow2Positive
    <3>. HIDE DEF g
    <3>3. kept < Pow2[d]
      <4>1. kept * g < Pow2[d] * g
        <5>1. kept * g \in Nat
          BY <2>1, <2>4
        <5>2. kept * g <= x.m
          BY <2>4, <5>1
        <5>3. x.m < Pow2[d] * g
          BY <1>2, <3>2, Zenon
        <5>4. x.m \in Nat /\ Pow2[d] * g \in Nat
          BY <1>1, <2>1, <3>2
        <5>. QED  BY <5>1, <5>2, <5>3, <5>4
      <4>2. \A a, b, c \in Nat : a * c < b * c => a < b
        <5>1. \A a, b, c \in Nat : b <= a => b * c <= a * c
          OBVIOUS
        <5>2. \A a, b \in Nat : a * b \in Nat
          OBVIOUS
        <5>. QED  BY <5>1, <5>2
      <4>. QED  BY <2>1, <2>4, <3>2, <4>1, <4>2
    <3>4. Pow2[d] <= Pow2[FractionBits + 1]
      BY <3>1, FormatFacts, Pow2Grows
    <3>5. Pow2[FractionBits + 1] \in Nat
      BY FormatFacts, Pow2Positive
    <3>. QED  BY <2>4, <3>2, <3>3, <3>4, <3>5
  <2>. HIDE DEF k, kept, rest, up
  <2>7. k <= Pow2[FractionBits + 1] /\ Pow2[FractionBits + 1] \in Nat
    <3>1. Pow2[FractionBits + 1] \in Nat
      BY FormatFacts, Pow2Positive
    <3>. QED  BY <2>4, <2>5, <2>6, <3>1
  <2>8. k < Wide
    <3>1. FractionBits + 1 < WireFractionBits + 2 /\ FractionBits + 1 \in Nat
          /\ WireFractionBits + 2 \in Nat
      BY FormatFacts
    <3>2. Pow2[FractionBits + 1] < Wide
      BY <3>1, Pow2Grows DEF Wide
    <3>. QED  BY <2>5, <2>7, <3>2, ScaleFacts
  <2>9. last >= - Scale /\ last > x.e
    BY <1>1, <1>2, <1>6, ScaleFacts
  <2>10. /\ Plain(y) /\ Val(y) = k * Pow2[last + Scale]
         /\ y.m \in Nat /\ y.m <= k /\ (y.m # 0 => k # 0) /\ (k # 0 => y.e >= last)
    BY <1>2, <2>2, <2>5, <2>8, <2>9, NumberPlain
  <2>. HIDE DEF y
  <2>11. Val(y) = Nearest(Val(x), Pow2[last + Scale])
    <3>1. last + Scale = drop + u
      BY <1>1, <1>2, ScaleFacts
    <3>2. Pow2[last + Scale] = g * Pow2[u]
      BY <1>1, <2>1, <3>1, Pow2Sum
    <3>3. Nearest(x.m * Pow2[u], g * Pow2[u]) = Nearest(x.m, g) * Pow2[u]
      BY <1>1, <2>1, NearestScaled
    <3>. HIDE DEF g
    <3>4. (k * g) * Pow2[u] = k * (g * Pow2[u])
      BY <1>1, <2>1, <2>5
    <3>. QED  BY <1>1, <2>3, <2>10, <3>2, <3>3, <3>4
  <2>12. ASSUME y.m # 0 PROVE Leading(y.m) <= FractionBits
    <3>0. y.m < Wide
      BY <2>10, PlainFacts, Zenon
    <3>1. y.m \in Nat \ {0} /\ y.m <= Pow2[FractionBits + 1] /\ y.m < Wide
      BY <2>5, <2>7, <2>10, <2>12, <3>0
    <3>2. Leading(y.m) \in Nat /\ Pow2[Leading(y.m)] <= y.m /\ Pow2[Leading(y.m)] \in Nat
      BY <3>1, LeadingOne, FormatFacts, Pow2Positive
    <3>3. CASE y.m < Pow2[FractionBits + 1]
      <4>1. Pow2[Leading(y.m)] < Pow2[FractionBits + 1]
        BY <2>7, <3>1, <3>2, <3>3
      <4>. QED  BY <3>2, <4>1, FormatFacts, Pow2Grows
    <3>4. CASE y.m = Pow2[FractionBits + 1]
      <4>1. Pow2[FractionBits + 1] = 2 * Pow2[FractionBits] /\ Pow2[FractionBits] \in Nat
        BY FormatFacts, Pow2Unfolds
      <4>2. y.m % 2 = 1
        BY <2>10, <2>12, PlainFacts
      <4>. QED  BY <3>4, <4>1, <4>2
    <3>. QED  BY <2>7, <3>1, <3>3, <3>4
  <2>13. y.m # 0 => y.e >= 1 - Bias(ExponentBits) - FractionBits /\ y.e >= x.e
    <3>0. y.e \in Int
      BY <2>10, PlainFacts, Zenon
    <3>1. last >= 1 - Bias(ExponentBits) - FractionBits /\ y.e \in Int
      BY <1>1, <1>2, <3>0, FormatFacts
    <3>. QED  BY <1>1, <1>2, <2>9, <2>10, <3>1, FormatFacts
  <2>. QED  BY <2>10, <2>11, <2>12, <2>13
<1>. QED
  <2>1. drop \in Int /\ l + 1 \in Int
    BY <1>1, <1>2
  <2>2. drop <= 0 \/ drop > l + 1 \/ (drop > 0 /\ drop <= l + 1)
    BY <2>1
  <2>. QED  BY <1>4, <1>5, <1>6, <2>2

\* A rounding gives the nearest native number, or infinity from half a place below
\* the first power of two out of range.
LEMMA RoundedValue ==
  ASSUME NEW x, Plain(x), x.m # 0
  PROVE  LET n == Nearest(Val(x), Pow2[Grid(x) + Scale])
         IN /\ n < Top => /\ Held(Rounded(x)) /\ Val(Rounded(x)) = n
                          /\ Rounded(x).m # 0 => Rounded(x).e >= x.e
            /\ n >= Top => Rounded(x) = Infinite
<1>. DEFINE n == Nearest(Val(x), Pow2[Grid(x) + Scale])
<1>1. PICK y : /\ Plain(y) /\ Val(y) = n
               /\ Rounded(x) = IF y.m # 0 /\ Leading(y.m) + y.e > Bias(ExponentBits)
                               THEN Infinite ELSE y
               /\ y.m # 0 => /\ y.e >= 1 - Bias(ExponentBits) - FractionBits
                             /\ Leading(y.m) <= FractionBits
                             /\ y.e >= x.e
  BY Unbounded
<1>. HIDE DEF n
<1>2. Bias(ExponentBits) + 1 + Scale \in Nat /\ Top \in Nat /\ Top > 0
  <2>1. Bias(ExponentBits) + 1 + Scale \in Nat
    BY FormatFacts, ScaleFacts
  <2>. QED  BY <2>1, Pow2Positive DEF Top
<1>3. CASE y.m = 0
  <2>1. Val(y) = 0
    BY <1>1, <1>3, PlainFacts
  <2>2. Rounded(x) = y /\ Held(y)
    BY <1>1, <1>3 DEF Held, Representable
  <2>. QED  BY <1>1, <1>2, <1>3, <2>1, <2>2 DEF n
<1>4. CASE y.m # 0
  <2>. DEFINE t == Leading(y.m) + y.e
  <2>1. /\ Leading(y.m) \in Nat /\ t + Scale \in Nat
        /\ Pow2[t + Scale] <= Val(y) /\ Val(y) < Pow2[t + Scale + 1]
    BY <1>1, <1>4, ValTop
  <2>2. y.e \in Int /\ Val(y) \in Nat
    BY <1>1, PlainFacts, Zenon
  <2>3. t \in Int /\ Bias(ExponentBits) \in Int /\ Scale \in Int
    BY <2>1, <2>2, FormatFacts, ScaleFacts
  <2>4. t + Scale + 1 \in Nat /\ Pow2[t + Scale + 1] \in Nat /\ Pow2[t + Scale] \in Nat
    BY <2>1, Pow2Positive
  <2>. HIDE DEF t
  <2>5. CASE t > Bias(ExponentBits)
    <3>1. Bias(ExponentBits) + 1 + Scale <= t + Scale
      BY <2>3, <2>5
    <3>2. Top <= Pow2[t + Scale]
      BY <1>2, <2>1, <3>1, Pow2Grows DEF Top
    <3>3. n >= Top
      BY <1>1, <1>2, <2>1, <2>2, <2>4, <3>2
    <3>4. Rounded(x) = Infinite
      BY <1>1, <1>4, <2>5 DEF t
    <3>5. ~(n < Top)
      BY <1>1, <1>2, <2>2, <3>3
    <3>. QED  BY <3>4, <3>5 DEF n
  <2>6. CASE ~(t > Bias(ExponentBits))
    <3>1. t + Scale + 1 <= Bias(ExponentBits) + 1 + Scale
      BY <2>3, <2>6
    <3>2. Pow2[t + Scale + 1] <= Top
      BY <1>2, <2>4, <3>1, Pow2Grows DEF Top
    <3>3. n < Top /\ ~(n >= Top)
      BY <1>1, <1>2, <2>1, <2>2, <2>4, <3>2
    <3>4. Rounded(x) = y
      BY <1>1, <2>6 DEF t
    <3>5. Held(y)
      BY <1>1, <2>3, <2>6 DEF Held, Representable, t
    <3>. QED  BY <1>1, <3>3, <3>4, <3>5 DEF n
  <2>. QED  BY <2>5, <2>6
<1>. QED
  BY <1>3, <1>4

\* Infinity is not a plain number.
LEMMA InfinitePlain ==
  ~ Plain(Infinite)
BY DEF Plain, Infinite, Fin

\* The result of a native operation is a native number or infinity.
LEMMA RoundedIs ==
  ASSUME NEW x, Plain(x)
  PROVE  /\ Held(Rounded(x)) \/ Rounded(x) = Infinite
         /\ x.m = 0 => Rounded(x) = x
         /\ Held(Rounded(x)) /\ Rounded(x).m # 0 => Rounded(x).e >= x.e
<1>1. CASE x.m = 0
  <2>1. Rounded(x) = x
    BY <1>1 DEF Rounded
  <2>2. Held(x)
    BY <1>1 DEF Held, Representable
  <2>. QED  BY <1>1, <2>1, <2>2
<1>2. CASE x.m # 0
  <2>. DEFINE n == Nearest(Val(x), Pow2[Grid(x) + Scale])
  <2>1. n \in Nat /\ Top \in Nat
    <3>1. Grid(x) + Scale \in Nat /\ Val(x) \in Nat
      BY <1>2, GridFacts, PlainFacts, Zenon
    <3>2. Pow2[Grid(x) + Scale] \in Nat \ {0}
      BY <3>1, Pow2Positive
    <3>3. Bias(ExponentBits) + 1 + Scale \in Nat
      BY FormatFacts, ScaleFacts
    <3>. QED  BY <3>1, <3>2, <3>3, NearestMonotone, Pow2Positive DEF Top
  <2>2. /\ n < Top => /\ Held(Rounded(x)) /\ Val(Rounded(x)) = n
                      /\ Rounded(x).m # 0 => Rounded(x).e >= x.e
        /\ n >= Top => Rounded(x) = Infinite
    BY <1>2, RoundedValue
  <2>. HIDE DEF n
  <2>3. n < Top \/ n >= Top
    BY <2>1
  <2>4. Held(Infinite) => FALSE
    BY InfinitePlain DEF Held
  <2>. QED  BY <1>2, <2>2, <2>3, <2>4
<1>. QED
  BY <1>1, <1>2

\* x is at most y, or y is infinite.
Below(x, y) == y = Infinite \/ (Plain(x) /\ Plain(y) /\ Val(x) <= Val(y))

\* A larger number does not have the smaller last place.
LEMMA GridGrows ==
  ASSUME NEW x, NEW y, Plain(x), Plain(y), x.m # 0, y.m # 0, Val(x) <= Val(y)
  PROVE  /\ Grid(x) <= Grid(y)
         /\ Grid(x) < Grid(y) =>
              LET p == Leading(y.m) + y.e + Scale
              IN /\ p \in Nat /\ Val(x) <= Pow2[p] /\ Pow2[p] <= Val(y)
                 /\ Grid(x) + Scale <= p /\ Grid(y) + Scale <= p
<1>. DEFINE s == Leading(x.m) + x.e
            t == Leading(y.m) + y.e
<1>1. /\ s + Scale \in Nat /\ Pow2[s + Scale] <= Val(x) /\ Val(x) < Pow2[s + Scale + 1]
      /\ t + Scale \in Nat /\ Pow2[t + Scale] <= Val(y) /\ Val(y) < Pow2[t + Scale + 1]
  BY ValTop
<1>2. /\ Grid(x) \in Int /\ s \in Int /\ Grid(y) \in Int /\ t \in Int
      /\ Grid(x) = IF s >= 1 - Bias(ExponentBits) THEN s - FractionBits
                   ELSE 1 - Bias(ExponentBits) - FractionBits
      /\ Grid(y) = IF t >= 1 - Bias(ExponentBits) THEN t - FractionBits
                   ELSE 1 - Bias(ExponentBits) - FractionBits
  <2>1. s \in Int /\ t \in Int
    <3>1. Leading(x.m) \in Nat /\ x.e \in Int /\ Leading(y.m) \in Nat /\ y.e \in Int
      BY GridFacts, Zenon
    <3>. QED  BY <3>1
  <2>2. /\ Grid(x) \in Int
        /\ Grid(x) = IF s >= 1 - Bias(ExponentBits) THEN s - FractionBits
                     ELSE 1 - Bias(ExponentBits) - FractionBits
    <3>1. Grid(x) \in Int
      BY GridFacts, Zenon
    <3>2. Grid(x) = IF s >= 1 - Bias(ExponentBits) THEN s - FractionBits
                    ELSE 1 - Bias(ExponentBits) - FractionBits
      BY GridFacts, Zenon
    <3>. QED  BY <3>1, <3>2, Zenon
  <2>3. /\ Grid(y) \in Int
        /\ Grid(y) = IF t >= 1 - Bias(ExponentBits) THEN t - FractionBits
                     ELSE 1 - Bias(ExponentBits) - FractionBits
    <3>1. Grid(y) \in Int
      BY GridFacts, Zenon
    <3>2. Grid(y) = IF t >= 1 - Bias(ExponentBits) THEN t - FractionBits
                    ELSE 1 - Bias(ExponentBits) - FractionBits
      BY GridFacts, Zenon
    <3>. QED  BY <3>1, <3>2, Zenon
  <2>. QED  BY <2>1, <2>2, <2>3
<1>3. Val(x) \in Nat /\ Val(y) \in Nat
  BY PlainFacts, Zenon
<1>. HIDE DEF s, t
<1>4. /\ Pow2[s + Scale] \in Nat /\ Pow2[s + Scale + 1] \in Nat /\ s + Scale + 1 \in Nat
      /\ Pow2[t + Scale] \in Nat /\ Pow2[t + Scale + 1] \in Nat /\ t + Scale + 1 \in Nat
  BY <1>1, Pow2Positive
<1>5. s <= t
  <2>. SUFFICES ASSUME t < s PROVE FALSE
    BY <1>2
  <2>1. t + Scale + 1 <= s + Scale
    BY <1>2, ScaleFacts
  <2>2. Pow2[t + Scale + 1] <= Pow2[s + Scale]
    BY <1>1, <1>4, <2>1, Pow2Grows
  <2>. QED  BY <1>1, <1>3, <1>4, <2>2
<1>6. Grid(x) <= Grid(y)
  BY <1>2, <1>5, FormatFacts
<1>7. ASSUME Grid(x) < Grid(y)
      PROVE  /\ Val(x) <= Pow2[t + Scale]
             /\ Grid(x) + Scale <= t + Scale /\ Grid(y) + Scale <= t + Scale
  <2>1. s < t /\ Grid(y) <= t
    BY <1>2, <1>7, FormatFacts
  <2>2. s + Scale + 1 <= t + Scale
    BY <1>2, <2>1, ScaleFacts
  <2>3. Pow2[s + Scale + 1] <= Pow2[t + Scale]
    BY <1>1, <1>4, <2>2, Pow2Grows
  <2>4. Grid(x) + Scale <= t + Scale /\ Grid(y) + Scale <= t + Scale
    BY <1>2, <1>7, <2>1, ScaleFacts
  <2>. QED  BY <1>1, <1>3, <1>4, <2>3, <2>4
<1>. QED
  BY <1>1, <1>6, <1>7 DEF s, t

\* A power of two bounds what is rounded to a smaller one.
LEMMA NearestPower ==
  ASSUME NEW v \in Nat, NEW g \in Nat, NEW p \in Nat, g <= p
  PROVE  /\ v <= Pow2[p] => Nearest(v, Pow2[g]) <= Pow2[p]
         /\ Pow2[p] <= v => Pow2[p] <= Nearest(v, Pow2[g])
<1>1. Pow2[p - g] \in Nat /\ Pow2[p] = Pow2[p - g] * Pow2[g]
  BY Pow2Difference
<1>2. Pow2[g] \in Nat \ {0}
  BY Pow2Positive
<1>. QED
  BY <1>1, <1>2, NearestBounds

\* Rounding never turns the order of two numbers around.
LEMMA RoundedMonotone ==
  ASSUME NEW x, NEW y, Plain(x), Plain(y), Val(x) <= Val(y)
  PROVE  Below(Rounded(x), Rounded(y))
<1>1. /\ Val(x) \in Nat /\ Val(y) \in Nat
      /\ (Val(x) = 0 <=> x.m = 0) /\ (Val(y) = 0 <=> y.m = 0)
  BY PlainFacts, Zenon
<1>2. CASE x.m = 0
  <2>1. Rounded(x) = x /\ Val(x) = 0
    BY <1>1, <1>2, RoundedIs
  <2>2. CASE Rounded(y) = Infinite
    BY <2>2 DEF Below
  <2>3. CASE Held(Rounded(y))
    <3>1. Plain(Rounded(y)) /\ Val(Rounded(y)) \in Nat
      BY <2>3, PlainFacts, Zenon DEF Held
    <3>. QED  BY <2>1, <3>1 DEF Below
  <2>. QED  BY <2>2, <2>3, RoundedIs
<1>3. CASE x.m # 0
  <2>1. y.m # 0
    BY <1>1, <1>3
  <2>. DEFINE g == Grid(x) + Scale
              h == Grid(y) + Scale
              n == Nearest(Val(x), Pow2[g])
              o == Nearest(Val(y), Pow2[h])
  <2>2. g \in Nat /\ h \in Nat /\ Grid(x) \in Int /\ Grid(y) \in Int
    BY <1>3, <2>1, GridFacts, Zenon
  <2>3. Pow2[g] \in Nat \ {0} /\ Pow2[h] \in Nat \ {0}
    BY <2>2, Pow2Positive
  <2>4. n \in Nat /\ o \in Nat
    <3>1. Val(x) <= Val(x) /\ Val(y) <= Val(y)
      BY <1>1
    <3>. QED  BY <1>1, <2>3, <3>1, NearestMonotone, Zenon
  <2>5. n <= o
    <3>1. CASE Grid(x) < Grid(y)
      <4>. DEFINE p == Leading(y.m) + y.e + Scale
      <4>1. p \in Nat /\ Val(x) <= Pow2[p] /\ Pow2[p] <= Val(y) /\ g <= p /\ h <= p
        BY <1>3, <2>1, <3>1, GridGrows
      <4>. HIDE DEF p, g, h
      <4>2. n <= Pow2[p] /\ Pow2[p] <= o
        BY <1>1, <2>2, <4>1, NearestPower
      <4>3. Pow2[p] \in Nat
        BY <4>1, Pow2Positive
      <4>. HIDE DEF n, o
      <4>. QED  BY <2>4, <4>2, <4>3
    <3>2. CASE Grid(x) = Grid(y)
      BY <1>1, <2>3, <3>2, NearestMonotone
    <3>3. Grid(x) <= Grid(y)
      BY <1>3, <2>1, GridGrows
    <3>. QED  BY <2>2, <3>1, <3>2, <3>3
  <2>6. /\ n < Top => Held(Rounded(x)) /\ Val(Rounded(x)) = n
        /\ n >= Top => Rounded(x) = Infinite
    BY <1>3, RoundedValue
  <2>7. /\ o < Top => Held(Rounded(y)) /\ Val(Rounded(y)) = o
        /\ o >= Top => Rounded(y) = Infinite
    BY <2>1, RoundedValue
  <2>8. Top \in Nat
    <3>1. Bias(ExponentBits) + 1 + Scale \in Nat
      BY FormatFacts, ScaleFacts
    <3>. QED  BY <3>1, Pow2Positive DEF Top
  <2>. HIDE DEF n, o
  <2>9. CASE o >= Top
    BY <2>7, <2>9 DEF Below
  <2>10. CASE o < Top
    <3>1. n < Top
      BY <2>4, <2>5, <2>8, <2>10
    <3>2. Held(Rounded(x)) /\ Val(Rounded(x)) = n /\ Held(Rounded(y)) /\ Val(Rounded(y)) = o
      BY <2>6, <2>7, <2>10, <3>1
    <3>. QED  BY <2>5, <3>2 DEF Below, Held
  <2>. QED  BY <2>4, <2>8, <2>9, <2>10
<1>. QED
  BY <1>2, <1>3

\* A number the format holds lies within its range.
LEMMA HeldFacts ==
  ASSUME NEW x, Held(x)
  PROVE  /\ Plain(x) /\ x # Infinite /\ Val(x) \in Nat /\ x.m \in Nat /\ x.e \in Int
         /\ x.m # 0 => /\ x.e >= 1 - Bias(ExponentBits) - FractionBits
                       /\ Leading(x.m) <= FractionBits
                       /\ Leading(x.m) + x.e <= Bias(ExponentBits)
<1>1. Plain(x)
  BY DEF Held
<1>2. x.kind = "finite" /\ Val(x) \in Nat /\ x.m \in Nat /\ x.e \in Int
  BY <1>1, PlainFacts, Zenon
<1>3. x # Infinite
  BY <1>1, InfinitePlain
<1>. QED
  BY <1>1, <1>2, <1>3 DEF Held, Representable

\* Powers of two in the native range are native numbers.
LEMMA PowerHeld ==
  ASSUME NEW j \in Int, 1 - Bias(ExponentBits) - FractionBits <= j, j <= Bias(ExponentBits)
  PROVE  /\ Held(Fin(1, j)) /\ Val(Fin(1, j)) = Pow2[j + Scale] /\ j + Scale \in Nat
         /\ Fin(1, j).m = 1 /\ Fin(1, j).e = j
<1>1. j >= - Scale /\ j + Scale \in Nat
  BY FormatFacts, ScaleFacts
<1>2. 1 \in Nat /\ 1 < Wide /\ 1 % 2 = 1
  BY ScaleFacts
<1>3. Plain(Fin(1, j)) /\ Fin(1, j).m = 1 /\ Fin(1, j).e = j
  BY <1>1, <1>2, FinPlain
<1>4. Leading(1) = 0
  <2>1. Pow2[0] = 1 /\ Pow2[0 + 1] = 2 /\ 0 <= WireFractionBits + 1
    BY Pow2Unfolds, FormatFacts
  <2>. QED  BY <2>1, LeadingIs
<1>5. Val(Fin(1, j)) = Pow2[j + Scale]
  <2>1. Pow2[j + Scale] \in Nat
    BY <1>1, Pow2Positive
  <2>. QED  BY <1>3, <2>1 DEF Val
<1>6. Representable(Fin(1, j))
  <2>1. Leading(1) + j <= Bias(ExponentBits) /\ Leading(1) <= FractionBits
    BY <1>4, FormatFacts
  <2>. QED  BY <1>3, <2>1 DEF Representable
<1>. QED
  BY <1>1, <1>3, <1>5, <1>6 DEF Held

\* A change of the exponent multiplies or divides.
LEMMA ShiftedValue ==
  ASSUME NEW x, Plain(x), x.m # 0, NEW k \in Int, x.e + k >= - Scale
  PROVE  /\ [x EXCEPT !.e = @ + k] = Fin(x.m, x.e + k)
         /\ Plain(Fin(x.m, x.e + k))
         /\ Fin(x.m, x.e + k).m = x.m /\ Fin(x.m, x.e + k).e = x.e + k
         /\ k >= 0 => Pow2[k] \in Nat \ {0} /\ Val(Fin(x.m, x.e + k)) = Val(x) * Pow2[k]
         /\ k < 0 => Pow2[- k] \in Nat \ {0} /\ Val(x) = Val(Fin(x.m, x.e + k)) * Pow2[- k]
<1>1. x.m \in Nat /\ x.m < Wide /\ x.e \in Int /\ x = Fin(x.m, x.e)
  BY PlainFacts, Zenon
<1>2. x.m % 2 = 1 /\ x.e + Scale \in Nat
  BY PlainFacts, Zenon
<1>3. x.e + k \in Int
  BY <1>1
<1>4. /\ Plain(Fin(x.m, x.e + k))
      /\ Fin(x.m, x.e + k).m = x.m /\ Fin(x.m, x.e + k).e = x.e + k
  BY <1>1, <1>2, <1>3, FinPlain
<1>5. [x EXCEPT !.e = @ + k] = Fin(x.m, x.e + k)
  <2>. DEFINE m == x.m
              e == x.e
  <2>. HIDE DEF m, e
  <2>1. [Fin(m, e) EXCEPT !.e = @ + k] = Fin(m, e + k)
    <3>. DEFINE n == FALSE
    <3>1. Fin(m, e) = [kind |-> "finite", negative |-> n, m |-> m, e |-> e]
      BY DEF Fin
    <3>2. Fin(m, e + k) = [kind |-> "finite", negative |-> n, m |-> m, e |-> e + k]
      BY DEF Fin
    <3>. HIDE DEF n
    <3>. QED  BY <3>1, <3>2
  <2>. QED  BY <1>1, <2>1 DEF m, e
<1>. DEFINE u == x.e + Scale
            v == x.e + k + Scale
<1>6. v \in Nat /\ Val(Fin(x.m, x.e + k)) = x.m * Pow2[v] /\ Val(x) = x.m * Pow2[u]
  BY <1>1, <1>3, <1>4, ScaleFacts DEF Val
<1>7. u \in Nat /\ Pow2[u] \in Nat /\ Pow2[v] \in Nat
  BY <1>2, <1>6, Pow2Positive
<1>8. ASSUME k >= 0 PROVE Pow2[k] \in Nat \ {0} /\ Val(Fin(x.m, x.e + k)) = Val(x) * Pow2[k]
  <2>1. k \in Nat /\ v = u + k
    BY <1>1, <1>8, ScaleFacts
  <2>. HIDE DEF u, v
  <2>2. Pow2[v] = Pow2[u] * Pow2[k] /\ Pow2[k] \in Nat \ {0}
    BY <1>7, <2>1, Pow2Sum, Pow2Positive
  <2>3. x.m * (Pow2[u] * Pow2[k]) = (x.m * Pow2[u]) * Pow2[k]
    BY <1>1, <1>7, <2>2
  <2>. QED  BY <1>6, <2>2, <2>3
<1>9. ASSUME k < 0 PROVE Pow2[- k] \in Nat \ {0} /\ Val(x) = Val(Fin(x.m, x.e + k)) * Pow2[- k]
  <2>1. - k \in Nat /\ u = v + (- k)
    BY <1>1, <1>9, ScaleFacts
  <2>. DEFINE j == - k
  <2>. HIDE DEF j, u, v
  <2>2. Pow2[v + j] = Pow2[v] * Pow2[j] /\ Pow2[j] \in Nat \ {0}
    <3>1. j \in Nat
      BY <2>1 DEF j
    <3>. QED  BY <1>6, <3>1, Pow2Sum, Pow2Positive
  <2>3. x.m * (Pow2[v] * Pow2[j]) = (x.m * Pow2[v]) * Pow2[j]
    BY <1>1, <1>7, <2>2
  <2>. QED  BY <1>6, <2>1, <2>2, <2>3 DEF j
<1>. QED
  BY <1>4, <1>5, <1>8, <1>9

\* ldexp() never turns the order of two numbers around.
LEMMA LdexpMonotone ==
  ASSUME NEW x, NEW y, Plain(x), Plain(y), Val(x) <= Val(y), NEW k \in Int,
         x.m # 0 => x.e + k >= - Scale, y.m # 0 => y.e + k >= - Scale
  PROVE  Below(Ldexp(x, k), Ldexp(y, k))
<1>1. /\ Val(x) \in Nat /\ Val(y) \in Nat
      /\ (Val(x) = 0 <=> x.m = 0) /\ (Val(y) = 0 <=> y.m = 0)
  BY PlainFacts, Zenon
<1>2. CASE y.m = 0
  <2>1. x.m = 0
    BY <1>1, <1>2
  <2>. QED  BY <1>2, <2>1 DEF Ldexp, Below
<1>3. CASE y.m # 0
  <2>1. /\ Ldexp(y, k) = Rounded(Fin(y.m, y.e + k))
        /\ Plain(Fin(y.m, y.e + k))
        /\ k >= 0 => Pow2[k] \in Nat \ {0} /\ Val(Fin(y.m, y.e + k)) = Val(y) * Pow2[k]
        /\ k < 0 => Pow2[- k] \in Nat \ {0} /\ Val(y) = Val(Fin(y.m, y.e + k)) * Pow2[- k]
    BY <1>3, ShiftedValue DEF Ldexp
  <2>2. CASE x.m = 0
    <3>1. Ldexp(x, k) = x /\ Val(x) = 0
      BY <1>1, <2>2 DEF Ldexp
    <3>2. CASE Rounded(Fin(y.m, y.e + k)) = Infinite
      BY <2>1, <3>2 DEF Below
    <3>3. CASE Held(Rounded(Fin(y.m, y.e + k)))
      <4>1. Plain(Rounded(Fin(y.m, y.e + k))) /\ Val(Rounded(Fin(y.m, y.e + k))) \in Nat
        BY <3>3, HeldFacts
      <4>. QED  BY <2>1, <3>1, <4>1 DEF Below
    <3>. QED  BY <2>1, <3>2, <3>3, RoundedIs
  <2>3. CASE x.m # 0
    <3>1. /\ Ldexp(x, k) = Rounded(Fin(x.m, x.e + k))
          /\ Plain(Fin(x.m, x.e + k))
          /\ k >= 0 => Pow2[k] \in Nat \ {0} /\ Val(Fin(x.m, x.e + k)) = Val(x) * Pow2[k]
          /\ k < 0 => Pow2[- k] \in Nat \ {0} /\ Val(x) = Val(Fin(x.m, x.e + k)) * Pow2[- k]
      BY <2>3, ShiftedValue DEF Ldexp
    <3>. DEFINE a == Val(Fin(x.m, x.e + k))
                b == Val(Fin(y.m, y.e + k))
    <3>2. a \in Nat /\ b \in Nat
      BY <2>1, <3>1, PlainFacts, Zenon
    <3>. HIDE DEF a, b
    <3>3. a <= b
      <4>1. CASE k >= 0
        <5>1. \A c, d, p \in Nat : c <= d => c * p <= d * p
          OBVIOUS
        <5>. QED  BY <1>1, <2>1, <3>1, <4>1, <5>1 DEF a, b
      <4>2. CASE k < 0
        <5>1. \A c, d \in Nat, p \in Nat \ {0} : c * p <= d * p => c <= d
          <6>1. \A c, d \in Nat, p \in Nat \ {0} : d < c => d * p < c * p
            OBVIOUS
          <6>2. \A c, d \in Nat : c * d \in Nat
            OBVIOUS
          <6>. QED  BY <6>1, <6>2
        <5>2. Pow2[- k] \in Nat \ {0} /\ Val(x) = a * Pow2[- k] /\ Val(y) = b * Pow2[- k]
          BY <2>1, <3>1, <4>2 DEF a, b
        <5>. QED  BY <3>2, <5>1, <5>2
      <4>. QED  BY <4>1, <4>2
    <3>. QED  BY <2>1, <3>1, <3>3, RoundedMonotone DEF a, b
  <2>. QED  BY <2>2, <2>3
<1>. QED
  BY <1>2, <1>3

----------------------------------------------------------------------------
(* readDouble() *)

\* No sign of 0 among the integers.
LEMMA MinusZero ==
  - 0 = 0
<1>1. \A a \in Int : - a = 0 - a
  OBVIOUS
<1>2. 0 \in Int
  OBVIOUS
<1>3. - 0 = 0 - 0
  BY <1>1, <1>2, Zenon
<1>4. 0 - 0 = 0
  OBVIOUS
<1>. QED
  BY <1>3, <1>4, Zenon

\* double(fraction), the same scaled to less than 1 or to 1, and 1 more than that.
Whole(f) == Rounded(Number(f, 0))
Part(f) == Ldexp(Whole(f), - WireFractionBits)
OneAnd(f) == OnePlus(Part(f))

\* The fraction fields of the wire format.
WireFractions == 0 .. Pow2[WireFractionBits] - 1

\* Fraction fields are small enough to be significands.
LEMMA FractionFacts ==
  ASSUME NEW f \in WireFractions
  PROVE  /\ f \in Nat /\ f < Wide /\ f < Pow2[WireFractionBits]
         /\ Pow2[WireFractionBits] \in Nat \ {0} /\ 2 * Pow2[WireFractionBits] < Wide
<1>1. Pow2[WireFractionBits] \in Nat \ {0}
  BY FormatFacts, Pow2Positive
<1>2. 4 * Pow2[WireFractionBits] = Wide
  <2>1. WireFractionBits \in Nat /\ WireFractionBits + 1 \in Nat
        /\ (WireFractionBits + 1) + 1 = WireFractionBits + 2
    BY FormatFacts
  <2>2. Pow2[WireFractionBits + 1] = 2 * Pow2[WireFractionBits]
    BY <2>1, Pow2Unfolds
  <2>3. Pow2[(WireFractionBits + 1) + 1] = 2 * Pow2[WireFractionBits + 1]
    BY <2>1, Pow2Unfolds
  <2>. QED  BY <1>1, <2>1, <2>2, <2>3 DEF Wide
<1>. QED
  BY <1>1, <1>2 DEF WireFractions

\* double(fraction) is exact or rounded, never out of range, and grows with the
\* fraction.
LEMMA WholeFacts ==
  ASSUME NEW f \in WireFractions
  PROVE  /\ Held(Whole(f)) /\ (Whole(f).m # 0 => Whole(f).e >= 0)
         /\ Val(Whole(f)) <= Pow2[WireFractionBits + Scale]
         /\ \A h \in WireFractions : f <= h => Val(Whole(f)) <= Val(Whole(h))
<1>1. ASSUME NEW h \in WireFractions
      PROVE  /\ Plain(Number(h, 0)) /\ Val(Number(h, 0)) = h * Pow2[Scale]
             /\ h # 0 => Number(h, 0).e >= 0
             /\ Number(h, 0).m # 0 => h # 0
  <2>1. h \in Nat /\ h < Wide /\ 0 >= - Scale /\ 0 + Scale = Scale /\ 0 \in Int
    BY FractionFacts, ScaleFacts
  <2>2. /\ Plain(Number(h, 0)) /\ Val(Number(h, 0)) = h * Pow2[0 + Scale]
        /\ Number(h, 0).m \in Nat /\ Number(h, 0).m <= h
        /\ h # 0 => Number(h, 0).e >= 0
    BY <2>1, NumberPlain
  <2>. QED  BY <2>1, <2>2
<1>2. Pow2[Scale] \in Nat \ {0}
  BY ScaleFacts, Pow2Positive
<1>3. ASSUME NEW h \in WireFractions
      PROVE  Held(Whole(h)) /\ Val(Whole(h)) <= Pow2[WireFractionBits + Scale]
  <2>. DEFINE b == Fin(1, WireFractionBits)
  <2>1. Held(b) /\ Val(b) = Pow2[WireFractionBits + Scale]
    <3>1. /\ WireFractionBits \in Int /\ 1 - Bias(ExponentBits) - FractionBits <= WireFractionBits
          /\ WireFractionBits <= Bias(ExponentBits)
      BY FormatFacts
    <3>. QED  BY <3>1, PowerHeld
  <2>2. Val(Number(h, 0)) <= Val(b)
    <3>1. Pow2[WireFractionBits + Scale] = Pow2[WireFractionBits] * Pow2[Scale]
      BY FormatFacts, ScaleFacts, Pow2Sum
    <3>2. h <= Pow2[WireFractionBits] /\ h \in Nat /\ Pow2[WireFractionBits] \in Nat
      BY FractionFacts
    <3>3. \A c, d, p \in Nat : c <= d => c * p <= d * p
      OBVIOUS
    <3>. QED  BY <1>1, <1>2, <2>1, <3>1, <3>2, <3>3
  <2>. HIDE DEF b
  <2>3. Rounded(b) = b /\ Plain(b) /\ b # Infinite
    BY <2>1, RoundedHeld, HeldFacts
  <2>4. Below(Whole(h), b)
    BY <1>1, <2>2, <2>3, RoundedMonotone DEF Whole
  <2>5. Plain(Whole(h)) /\ Val(Whole(h)) <= Val(b)
    BY <2>3, <2>4 DEF Below
  <2>6. Held(Whole(h))
    BY <1>1, <2>5, RoundedIs, InfinitePlain DEF Whole
  <2>. QED  BY <2>1, <2>5, <2>6
<1>4. Whole(f).m # 0 => Whole(f).e >= 0
  <2>. SUFFICES ASSUME Whole(f).m # 0 PROVE Whole(f).e >= 0
    OBVIOUS
  <2>1. Plain(Number(f, 0)) /\ Held(Rounded(Number(f, 0)))
    BY <1>1, <1>3 DEF Whole
  <2>2. Number(f, 0).m # 0
    <3>1. Number(f, 0).m = 0 => Rounded(Number(f, 0)) = Number(f, 0)
      BY <2>1, RoundedIs
    <3>. QED  BY <3>1 DEF Whole
  <2>3. f # 0 /\ Number(f, 0).e >= 0
    BY <1>1, <2>2
  <2>4. Whole(f).e >= Number(f, 0).e
    BY <2>1, RoundedIs DEF Whole
  <2>5. Whole(f).e \in Int /\ Number(f, 0).e \in Int
    BY <1>3, <2>1, HeldFacts, PlainFacts, Zenon
  <2>. QED  BY <2>3, <2>4, <2>5
<1>5. ASSUME NEW h \in WireFractions, f <= h PROVE Val(Whole(f)) <= Val(Whole(h))
  <2>1. f * Pow2[Scale] <= h * Pow2[Scale]
    <3>1. f \in Nat /\ h \in Nat
      BY FractionFacts
    <3>2. \A c, d, p \in Nat : c <= d => c * p <= d * p
      OBVIOUS
    <3>. QED  BY <1>2, <1>5, <3>1, <3>2
  <2>2. Below(Whole(f), Whole(h))
    BY <1>1, <2>1, RoundedMonotone DEF Whole
  <2>3. Whole(h) # Infinite
    BY <1>3, HeldFacts
  <2>. QED  BY <2>2, <2>3 DEF Below
<1>. QED
  BY <1>3, <1>4, <1>5

\* Scaling the fraction to less than 1 or to 1 is exact.
LEMMA PartFacts ==
  ASSUME NEW f \in WireFractions
  PROVE  /\ Held(Part(f)) /\ Val(Whole(f)) = Val(Part(f)) * Pow2[WireFractionBits]
         /\ Part(f).e <= 0 /\ - Part(f).e <= WireFractionBits
         /\ Part(f).m <= Pow2[- Part(f).e]
         /\ Part(f) = Fin(Part(f).m, Part(f).e)
<1>. DEFINE w == Whole(f)
            d == - WireFractionBits
<1>1. Held(w) /\ (w.m # 0 => w.e >= 0) /\ Val(w) <= Pow2[WireFractionBits + Scale]
  BY WholeFacts
<1>2. Plain(w) /\ w.m \in Nat /\ w.e \in Int
  BY <1>1, HeldFacts, Zenon
<1>3. Pow2[WireFractionBits] \in Nat \ {0} /\ WireFractionBits \in Nat
  BY FormatFacts, Pow2Positive
<1>. HIDE DEF w
<1>4. CASE w.m = 0
  <2>1. Part(f) = w
    BY <1>4 DEF Part, Ldexp, w
  <2>2. w = Fin(0, 0) /\ w.e = 0 /\ Val(w) = 0
    BY <1>2, <1>4, PlainFacts
  <2>3. Pow2[- 0] \in Nat /\ - 0 = 0
    BY MinusZero, Pow2Unfolds
  <2>. QED  BY <1>1, <1>2, <1>3, <1>4, <2>1, <2>2, <2>3 DEF w
<1>5. CASE w.m # 0
  <2>. DEFINE p == Fin(w.m, w.e + d)
  <2>1. d \in Int /\ d < 0 /\ w.e + d >= - Scale /\ - d = WireFractionBits
    BY <1>1, <1>2, <1>5, FormatFacts, ScaleFacts
  <2>2. /\ [w EXCEPT !.e = @ + d] = p /\ Plain(p) /\ p.m = w.m /\ p.e = w.e + d
        /\ Val(w) = Val(p) * Pow2[- d]
    BY <1>2, <1>5, <2>1, ShiftedValue
  <2>3. /\ Leading(w.m) \in Int /\ Leading(w.m) <= FractionBits
        /\ Leading(w.m) + w.e <= Bias(ExponentBits)
    BY <1>1, <1>2, <1>5, HeldFacts, GridFacts
  <2>. HIDE DEF p
  <2>4. Held(p)
    <3>1. /\ p.e >= 1 - Bias(ExponentBits) - FractionBits
          /\ Leading(p.m) <= FractionBits
          /\ Leading(p.m) + p.e <= Bias(ExponentBits)
      BY <1>1, <1>2, <1>5, <2>1, <2>2, <2>3, FormatFacts
    <3>. QED  BY <2>2, <3>1 DEF Held, Representable
  <2>5. Part(f) = p
    <3>1. Part(f) = Rounded(p)
      BY <1>5, <2>2 DEF Part, Ldexp, w
    <3>. QED  BY <2>4, <3>1, RoundedHeld
  <2>6. w.e <= WireFractionBits /\ w.m <= Pow2[WireFractionBits - w.e]
    <3>. DEFINE u == w.e + Scale
                v == WireFractionBits + Scale
    <3>1. u \in Nat /\ v \in Nat /\ Pow2[u] \in Nat /\ Pow2[v] \in Nat /\ Val(w) = w.m * Pow2[u]
      <4>1. w.e + Scale \in Nat /\ WireFractionBits + Scale \in Nat
        BY <1>1, <1>2, <1>5, FormatFacts, ScaleFacts
      <4>. QED  BY <4>1, Pow2Positive DEF Val
    <3>2. Pow2[u] <= Pow2[v]
      <4>1. w.m >= 1
        BY <1>2, <1>5
      <4>2. \A a, b \in Nat : a >= 1 => b <= a * b
        OBVIOUS
      <4>3. Pow2[u] <= w.m * Pow2[u] /\ w.m * Pow2[u] \in Nat
        BY <1>2, <3>1, <4>1, <4>2
      <4>. QED  BY <1>1, <3>1, <4>3
    <3>3. u <= v
      <4>. HIDE DEF u, v
      <4>. QED  BY <3>1, <3>2, Pow2Grows
    <3>4. w.e <= WireFractionBits /\ v - u = WireFractionBits - w.e
      BY <1>2, <1>3, <3>3, ScaleFacts
    <3>. HIDE DEF u, v
    <3>5. Pow2[v - u] \in Nat /\ Pow2[v] = Pow2[v - u] * Pow2[u] /\ Pow2[u] \in Nat \ {0}
      BY <3>1, <3>3, Pow2Difference, Pow2Positive
    <3>6. w.m <= Pow2[v - u]
      <4>1. w.m * Pow2[u] <= Pow2[v - u] * Pow2[u]
        BY <1>1, <3>1, <3>5 DEF v
      <4>2. \A a, b \in Nat, c \in Nat \ {0} : a * c <= b * c => a <= b
        <5>1. \A a, b \in Nat, c \in Nat \ {0} : b < a => b * c < a * c
          OBVIOUS
        <5>2. \A a, b \in Nat : a * b \in Nat
          OBVIOUS
        <5>. QED  BY <5>1, <5>2
      <4>. QED  BY <1>2, <3>5, <4>1, <4>2
    <3>. QED  BY <3>4, <3>6
  <2>7. p.e <= 0 /\ - p.e <= WireFractionBits /\ - p.e = WireFractionBits - w.e
    BY <1>1, <1>2, <1>5, <2>1, <2>2, <2>6
  <2>8. p.m <= Pow2[- p.e]
    BY <2>2, <2>6, <2>7
  <2>9. p = Fin(p.m, p.e)
    BY <2>2, PlainFacts
  <2>. QED  BY <2>1, <2>2, <2>4, <2>5, <2>7, <2>8, <2>9 DEF w
<1>. QED
  BY <1>4, <1>5

\* The exact sum that 1.0 + fraction rounds.
Exact1(f) == Number(Pow2[- Part(f).e] + Part(f).m, Part(f).e)

\* The leading 1 and the fraction, before the sum is rounded.
LEMMA SumFacts ==
  ASSUME NEW f \in WireFractions
  PROVE  /\ Plain(Exact1(f)) /\ Val(Exact1(f)) = Pow2[Scale] + Val(Part(f))
         /\ Val(Part(f)) \in Nat /\ Val(Part(f)) <= Pow2[Scale]
<1>. DEFINE p == Part(f)
            e == p.e
            s == Pow2[- e]
<1>1. /\ Held(p) /\ e <= 0 /\ - e <= WireFractionBits /\ p.m <= Pow2[- e]
      /\ Val(Whole(f)) = Val(p) * Pow2[WireFractionBits]
  BY PartFacts
<1>2. p.m \in Nat /\ e \in Int /\ Val(p) \in Nat
  BY <1>1, HeldFacts, Zenon
<1>3. Val(p) = p.m * Pow2[e + Scale]
  BY DEF Val
<1>. HIDE DEF p, e
<1>4. - e \in Nat /\ e + Scale \in Nat /\ Scale = (- e) + (e + Scale) /\ Scale \in Nat
  BY <1>1, <1>2, FormatFacts, ScaleFacts
<1>5. s \in Nat /\ Pow2[e + Scale] \in Nat \ {0} /\ Pow2[Scale] = s * Pow2[e + Scale]
  <2>1. Pow2[(- e) + (e + Scale)] = Pow2[- e] * Pow2[e + Scale]
    BY <1>4, Pow2Sum
  <2>. QED  BY <1>4, <2>1, Pow2Positive
<1>6. s + p.m < Wide
  <2>1. s <= Pow2[WireFractionBits]
    BY <1>1, <1>4, FormatFacts, Pow2Grows
  <2>2. Pow2[WireFractionBits] \in Nat /\ 2 * Pow2[WireFractionBits] < Wide
    BY FractionFacts
  <2>. QED  BY <1>1, <1>2, <1>5, <2>1, <2>2, ScaleFacts
<1>. HIDE DEF s
<1>7. /\ Plain(Number(s + p.m, e)) /\ Val(Number(s + p.m, e)) = (s + p.m) * Pow2[e + Scale]
  <2>1. s + p.m \in Nat /\ e >= - Scale
    BY <1>1, <1>2, <1>4, <1>5, FormatFacts, ScaleFacts
  <2>. QED  BY <1>2, <1>6, <2>1, NumberPlain
<1>8. (s + p.m) * Pow2[e + Scale] = s * Pow2[e + Scale] + p.m * Pow2[e + Scale]
  BY <1>2, <1>5
<1>9. p.m * Pow2[e + Scale] <= s * Pow2[e + Scale]
  <2>1. \A a, b, c \in Nat : a <= b => a * c <= b * c
    OBVIOUS
  <2>. QED  BY <1>1, <1>2, <1>5, <2>1 DEF s
<1>. QED
  BY <1>2, <1>3, <1>5, <1>7, <1>8, <1>9 DEF Exact1, p, e, s

\* 1.0 + fraction is between 1 and 2, and grows with the fraction.
LEMMA OneAndFacts ==
  ASSUME NEW f \in WireFractions
  PROVE  /\ Held(OneAnd(f)) /\ OneAnd(f).m # 0
         /\ OneAnd(f).e \in Int /\ OneAnd(f).e >= - FractionBits
         /\ Val(Fin(1, 0)) <= Val(OneAnd(f)) /\ Val(OneAnd(f)) <= Val(Fin(1, 1))
         /\ \A h \in WireFractions : f <= h => Val(OneAnd(f)) <= Val(OneAnd(h))
<1>1. \A h : OneAnd(h) = Rounded(Exact1(h))
  BY DEF OneAnd, OnePlus, Exact1
<1>. DEFINE one == Fin(1, 0)
            two == Fin(1, 1)
<1>2. /\ Held(one) /\ Val(one) = Pow2[Scale] /\ Held(two) /\ Val(two) = 2 * Pow2[Scale]
      /\ Pow2[Scale] \in Nat \ {0}
  <2>1. /\ 1 - Bias(ExponentBits) - FractionBits <= 0 /\ 0 <= Bias(ExponentBits)
        /\ 1 - Bias(ExponentBits) - FractionBits <= 1 /\ 1 <= Bias(ExponentBits)
        /\ 0 + Scale = Scale /\ 1 + Scale = Scale + 1
    BY FormatFacts, ScaleFacts
  <2>2. Pow2[Scale + 1] = 2 * Pow2[Scale]
    BY ScaleFacts, Pow2Unfolds
  <2>3. 0 \in Int /\ 1 \in Int
    OBVIOUS
  <2>4. Held(one) /\ Val(one) = Pow2[0 + Scale]
    BY <2>1, <2>3, PowerHeld
  <2>5. Held(two) /\ Val(two) = Pow2[1 + Scale]
    BY <2>1, <2>3, PowerHeld
  <2>. QED  BY <2>1, <2>2, <2>4, <2>5, ScaleFacts, Pow2Positive
<1>. HIDE DEF one, two
<1>3. /\ Rounded(one) = one /\ Plain(one) /\ one # Infinite /\ Val(one) \in Nat
      /\ Rounded(two) = two /\ Plain(two) /\ two # Infinite /\ Val(two) \in Nat
  BY <1>2, RoundedHeld, HeldFacts, Zenon
<1>4. ASSUME NEW h \in WireFractions
      PROVE  /\ Plain(Exact1(h)) /\ Held(OneAnd(h))
             /\ Val(one) <= Val(OneAnd(h)) /\ Val(OneAnd(h)) <= Val(two)
  <2>1. /\ Plain(Exact1(h)) /\ Val(Exact1(h)) = Pow2[Scale] + Val(Part(h))
        /\ Val(Part(h)) \in Nat /\ Val(Part(h)) <= Pow2[Scale]
    BY SumFacts
  <2>2. Val(one) <= Val(Exact1(h)) /\ Val(Exact1(h)) <= Val(two)
    BY <1>2, <2>1
  <2>3. Below(OneAnd(h), two)
    BY <1>1, <1>3, <2>1, <2>2, RoundedMonotone
  <2>4. Plain(OneAnd(h)) /\ Val(OneAnd(h)) <= Val(two) /\ OneAnd(h) # Infinite
    BY <1>3, <2>3, InfinitePlain DEF Below
  <2>5. Below(one, OneAnd(h))
    BY <1>1, <1>3, <2>1, <2>2, RoundedMonotone
  <2>6. Val(one) <= Val(OneAnd(h))
    BY <2>4, <2>5 DEF Below
  <2>7. Held(OneAnd(h))
    BY <1>1, <2>1, <2>4, RoundedIs
  <2>. QED  BY <2>1, <2>4, <2>6, <2>7
<1>5. OneAnd(f).m # 0 /\ OneAnd(f).e \in Int /\ OneAnd(f).e >= - FractionBits
  <2>. DEFINE o == OneAnd(f)
              t == Leading(o.m) + o.e
  <2>1. Held(o) /\ Val(o) >= Pow2[Scale] /\ Plain(o)
    BY <1>2, <1>4, HeldFacts
  <2>2. o.m # 0
    <3>1. Val(o) = 0 <=> o.m = 0
      BY <2>1, PlainFacts, Zenon
    <3>. QED  BY <1>2, <2>1, <3>1
  <2>3. o.e \in Int /\ Leading(o.m) \in Nat /\ Leading(o.m) <= FractionBits /\ Val(o) \in Nat
    BY <2>1, <2>2, HeldFacts, GridFacts, Zenon
  <2>4. t + Scale \in Nat /\ Val(o) < Pow2[t + Scale + 1]
    BY <2>1, <2>2, ValTop
  <2>5. t \in Int
    BY <2>3
  <2>. HIDE DEF o, t
  <2>6. Pow2[Scale] < Pow2[t + Scale + 1] /\ t + Scale + 1 \in Nat
    <3>1. t + Scale + 1 \in Nat
      BY <2>4
    <3>2. Pow2[t + Scale + 1] \in Nat
      BY <3>1, Pow2Positive
    <3>. QED  BY <1>2, <2>1, <2>3, <2>4, <3>1, <3>2
  <2>7. Scale < t + Scale + 1
    BY <2>6, ScaleFacts, Pow2Grows
  <2>8. t >= 0
    BY <2>5, <2>7, ScaleFacts
  <2>9. o.e >= - FractionBits
    BY <2>3, <2>8, FormatFacts DEF t
  <2>. QED  BY <2>2, <2>3, <2>9 DEF o
<1>6. ASSUME NEW h \in WireFractions, f <= h PROVE Val(OneAnd(f)) <= Val(OneAnd(h))
  <2>1. Val(Part(f)) <= Val(Part(h))
    <3>1. /\ Val(Whole(f)) <= Val(Whole(h))
          /\ Val(Whole(f)) = Val(Part(f)) * Pow2[WireFractionBits]
          /\ Val(Whole(h)) = Val(Part(h)) * Pow2[WireFractionBits]
      BY <1>6, WholeFacts, PartFacts
    <3>2. Val(Part(f)) \in Nat /\ Val(Part(h)) \in Nat /\ Pow2[WireFractionBits] \in Nat \ {0}
      BY SumFacts, FractionFacts
    <3>3. \A a, b \in Nat, c \in Nat \ {0} : a * c <= b * c => a <= b
      <4>1. \A a, b \in Nat, c \in Nat \ {0} : b < a => b * c < a * c
        OBVIOUS
      <4>2. \A a, b \in Nat : a * b \in Nat
        OBVIOUS
      <4>. QED  BY <4>1, <4>2
    <3>. QED  BY <3>1, <3>2, <3>3
  <2>2. Val(Exact1(f)) <= Val(Exact1(h))
    BY <1>2, <2>1, SumFacts
  <2>3. Below(OneAnd(f), OneAnd(h))
    BY <1>1, <1>4, <2>2, RoundedMonotone
  <2>4. OneAnd(h) # Infinite
    BY <1>4, HeldFacts
  <2>. QED  BY <2>3, <2>4 DEF Below
<1>. QED
  BY <1>4, <1>5, <1>6 DEF one, two

\* A fraction of 0 makes it 1.
LEMMA OneAndZero ==
  /\ 0 \in WireFractions /\ OneAnd(0) = Fin(1, 0)
<1>1. 0 \in WireFractions
  <2>1. Pow2[WireFractionBits] \in Nat \ {0}
    BY FormatFacts, Pow2Positive
  <2>. QED  BY <2>1 DEF WireFractions
<1>2. Number(0, 0) = Fin(0, 0) /\ Plain(Fin(0, 0)) /\ Fin(0, 0).m = 0 /\ Fin(0, 0).e = 0
  <2>1. Number(0, 0) = Fin(0, 0)
    BY NumberZero
  <2>2. Plain(Fin(0, 0)) /\ Fin(0, 0).m = 0 /\ Fin(0, 0).e = 0
    BY FinPlain, ScaleFacts
  <2>. QED  BY <2>1, <2>2
<1>3. Whole(0) = Fin(0, 0)
  BY <1>2, RoundedIs DEF Whole
<1>4. Part(0) = Fin(0, 0)
  BY <1>2, <1>3 DEF Part, Ldexp
<1>5. Exact1(0) = Number(1, 0)
  <2>1. Pow2[- 0] = 1 /\ 1 + 0 = 1
    BY MinusZero, Pow2Unfolds
  <2>. QED  BY <1>2, <1>4, <2>1 DEF Exact1
<1>6. Number(1, 0) = Fin(1, 0)
  <2>1. 1 \in Nat /\ 0 \in Nat /\ 0 \in Int /\ 1 % 2 = 1 /\ 1 * Pow2[0] = 1 /\ 1 < Wide
        /\ 0 + 0 = 0
    BY Pow2Unfolds, ScaleFacts
  <2>2. Number(1 * Pow2[0], 0) = Fin(1, 0 + 0)
    BY <2>1, NumberIs
  <2>. QED  BY <2>1, <2>2
<1>7. Held(Fin(1, 0))
  <2>1. 1 - Bias(ExponentBits) - FractionBits <= 0 /\ 0 <= Bias(ExponentBits) /\ 0 \in Int
    BY FormatFacts
  <2>. QED  BY <2>1, PowerHeld
<1>8. OneAnd(0) = Rounded(Exact1(0))
  BY DEF OneAnd, OnePlus, Exact1
<1>. QED
  BY <1>1, <1>5, <1>6, <1>7, <1>8, RoundedHeld

\* A product with a power of two can be divided by it.
LEMMA Cancel ==
  \A a, b \in Nat, c \in Nat \ {0} :
    /\ a * c <= b * c <=> a <= b
    /\ a * c < b * c <=> a < b
    /\ a * c = b * c <=> a = b
<1>1. \A a, b \in Nat, c \in Nat \ {0} : b < a => b * c < a * c
  OBVIOUS
<1>2. \A a, b \in Nat : a * b \in Nat
  OBVIOUS
<1>3. ASSUME NEW a \in Nat, NEW b \in Nat, NEW c \in Nat \ {0}
      PROVE  /\ a * c <= b * c <=> a <= b
             /\ a * c < b * c <=> a < b
             /\ a * c = b * c <=> a = b
  <2>. DEFINE x == a * c
              y == b * c
  <2>1. x \in Nat /\ y \in Nat
    BY <1>2
  <2>2. (b < a => y < x) /\ (a < b => x < y)
    BY <1>1
  <2>3. a = b => x = y
    OBVIOUS
  <2>. HIDE DEF x, y
  <2>4. (x <= y <=> a <= b) /\ (x < y <=> a < b) /\ (x = y <=> a = b)
    BY <2>1, <2>2, <2>3
  <2>. QED  BY <2>4 DEF x, y
<1>. QED
  BY <1>3

\* A multiple of a power of two that is not below the format, with a factor that
\* fits into the significand, is a native number.
LEMMA MultipleHeld ==
  ASSUME NEW x, Plain(x), x.m # 0, NEW g \in Int, g >= 1 - Bias(ExponentBits) - FractionBits,
         NEW q \in Nat, q < Pow2[FractionBits + 1], Val(x) = q * Pow2[g + Scale], Val(x) < Top
  PROVE  Held(x)
<1>1. /\ x.m \in Nat /\ x.m % 2 = 1 /\ x.e \in Int /\ x.e + Scale \in Nat
  BY PlainFacts, Zenon
<1>2. g + Scale \in Nat /\ Scale \in Nat
  BY FormatFacts, ScaleFacts
<1>. DEFINE a == x.e + Scale
            b == g + Scale
<1>3. x.m * Pow2[a] = q * Pow2[b]
  BY DEF Val
<1>4. b <= a
  <2>. HIDE DEF a, b
  <2>. QED  BY <1>1, <1>2, <1>3, OddPartFull DEF a, b
<1>5. x.m <= q
  <2>. HIDE DEF a, b
  <2>1. a \in Nat /\ b \in Nat
    BY <1>1, <1>2 DEF a, b
  <2>2. Pow2[a - b] \in Nat \ {0} /\ Pow2[a] = Pow2[a - b] * Pow2[b] /\ Pow2[b] \in Nat \ {0}
    BY <1>4, <2>1, Pow2Difference, Pow2Positive
  <2>3. \A u, v, w \in Nat : u * (v * w) = (u * v) * w /\ u * v \in Nat
    OBVIOUS
  <2>4. (x.m * Pow2[a - b]) * Pow2[b] = q * Pow2[b] /\ x.m * Pow2[a - b] \in Nat
    BY <1>1, <1>3, <2>2, <2>3
  <2>5. x.m * Pow2[a - b] = q
    BY <2>2, <2>4, Cancel
  <2>6. \A u \in Nat, v \in Nat \ {0} : u <= u * v
    OBVIOUS
  <2>. QED  BY <1>1, <2>2, <2>5, <2>6
<1>6. /\ Leading(x.m) \in Nat /\ Pow2[Leading(x.m)] <= x.m
      /\ Leading(x.m) + x.e + Scale \in Nat /\ Pow2[Leading(x.m) + x.e + Scale] <= Val(x)
  BY ValTop
<1>7. Leading(x.m) <= FractionBits
  <2>1. FractionBits + 1 \in Nat /\ Pow2[FractionBits + 1] \in Nat /\ Pow2[Leading(x.m)] \in Nat
    BY <1>6, FormatFacts, Pow2Positive
  <2>2. Pow2[Leading(x.m)] < Pow2[FractionBits + 1]
    BY <1>1, <1>5, <1>6, <2>1
  <2>3. Leading(x.m) < FractionBits + 1
    BY <1>6, <2>1, <2>2, Pow2Grows
  <2>. QED  BY <1>6, <2>3, FormatFacts
<1>8. Leading(x.m) + x.e <= Bias(ExponentBits)
  <2>. DEFINE t == Leading(x.m) + x.e + Scale
              u == Bias(ExponentBits) + 1 + Scale
  <2>1. t \in Nat /\ u \in Nat /\ Pow2[t] \in Nat /\ Pow2[u] \in Nat /\ Val(x) \in Nat
    <3>1. u \in Nat
      BY FormatFacts, ScaleFacts
    <3>. QED  BY <1>6, <3>1, Pow2Positive, PlainFacts, Zenon
  <2>2. Pow2[t] < Pow2[u]
    BY <1>6, <2>1 DEF Top
  <2>3. t < u
    <3>. HIDE DEF t, u
    <3>. QED  BY <2>1, <2>2, Pow2Grows
  <2>. QED  BY <1>1, <1>2, <1>6, <2>3, FormatFacts
<1>9. x.e >= 1 - Bias(ExponentBits) - FractionBits
  BY <1>1, <1>2, <1>4, FormatFacts
<1>. QED
  BY <1>7, <1>8, <1>9 DEF Held, Representable

\* Every value on the way to a native number is below the limit of the scale.
LEMMA TopFacts ==
  /\ Top \in Nat /\ Scale \in Nat
  /\ 4 * Pow2[WireFractionBits] * Pow2[Scale] <= Top
  /\ 4 * Pow2[Scale] <= Top
<1>1. Bias(ExponentBits) + 1 + Scale \in Nat /\ Top \in Nat
  <2>1. Bias(ExponentBits) + 1 + Scale \in Nat
    BY FormatFacts, ScaleFacts
  <2>. QED  BY <2>1, Pow2Positive DEF Top
<1>2. WireFractionBits \in Nat /\ WireFractionBits + 2 \in Nat /\ Scale \in Nat
  BY FormatFacts, ScaleFacts
<1>3. Pow2[WireFractionBits] \in Nat \ {0} /\ Pow2[Scale] \in Nat \ {0}
  BY <1>2, Pow2Positive
<1>4. Pow2[WireFractionBits + 2] = 4 * Pow2[WireFractionBits]
  <2>1. WireFractionBits + 1 \in Nat /\ (WireFractionBits + 1) + 1 = WireFractionBits + 2
    BY <1>2
  <2>2. /\ Pow2[WireFractionBits + 1] = 2 * Pow2[WireFractionBits]
        /\ Pow2[(WireFractionBits + 1) + 1] = 2 * Pow2[WireFractionBits + 1]
    BY <1>2, <2>1, Pow2Unfolds
  <2>. QED  BY <1>3, <2>1, <2>2
<1>5. Pow2[(WireFractionBits + 2) + Scale] = Pow2[WireFractionBits + 2] * Pow2[Scale]
  BY <1>2, Pow2Sum
<1>6. Pow2[(WireFractionBits + 2) + Scale] <= Top
  <2>1. (WireFractionBits + 2) + Scale \in Nat
        /\ (WireFractionBits + 2) + Scale <= Bias(ExponentBits) + 1 + Scale
    BY <1>2, FormatFacts
  <2>. QED  BY <1>1, <2>1, Pow2Grows DEF Top
<1>7. 4 * Pow2[WireFractionBits] * Pow2[Scale] <= Top
  BY <1>4, <1>5, <1>6
<1>8. 4 * Pow2[Scale] <= 4 * Pow2[WireFractionBits] * Pow2[Scale]
  <2>1. \A a, b \in Nat \ {0} : 4 * b <= 4 * a * b /\ 4 * a * b \in Nat
    <3>1. \A a, b \in Nat \ {0} : b <= a * b
      OBVIOUS
    <3>2. \A a, b \in Nat : 4 * a * b = 4 * (a * b) /\ a * b \in Nat
      OBVIOUS
    <3>. QED  BY <3>1, <3>2
  <2>. QED  BY <1>3, <2>1
<1>. QED
  <2>1. 4 * Pow2[WireFractionBits] * Pow2[Scale] \in Nat
    <3>1. \A a, b \in Nat : 4 * a * b \in Nat
      OBVIOUS
    <3>. QED  BY <1>3, <3>1
  <2>. QED  BY <1>1, <1>2, <1>3, <1>7, <1>8, <2>1

----
\* The number with exponent c, neither 0 nor the largest, and fraction f.
Normal(c, f) == Number(Pow2[WireFractionBits] + f, c - 1 - Scale)

\* The exponent fields of normal numbers.
Exponents == 1 .. 2 * Bias(WireExponentBits)

\* The significand, exponent and value of a normal number of the wire format.
LEMMA NormalFacts ==
  ASSUME NEW c \in Exponents, NEW f \in WireFractions
  PROVE  \E q, k \in Nat :
           /\ q % 2 = 1 /\ Pow2[WireFractionBits] + f = q * Pow2[k] /\ k <= WireFractionBits
           /\ Normal(c, f) = Fin(q, c - 1 - Scale + k)
           /\ Plain(Normal(c, f)) /\ Normal(c, f).m = q /\ q # 0
           /\ Normal(c, f).e = c - 1 - Scale + k
           /\ Leading(q) = WireFractionBits - k
           /\ Leading(q) + Normal(c, f).e = c - Bias(WireExponentBits)
           /\ Val(Normal(c, f)) = (Pow2[WireFractionBits] + f) * Pow2[c - 1]
<1>. DEFINE P == Pow2[WireFractionBits]
            v == c - 1 - Scale
<1>1. P \in Nat \ {0} /\ f \in Nat /\ f < P /\ 2 * P < Wide
  BY FractionFacts
<1>2. c \in Int /\ c >= 1 /\ v \in Int /\ v >= - Scale /\ v + Scale = c - 1
  BY ScaleFacts DEF Exponents
<1>. HIDE DEF P, v
<1>3. P + f \in Nat \ {0} /\ P + f < Wide
  BY <1>1, ScaleFacts
<1>4. PICK q \in Nat, k \in Nat :
        q % 2 = 1 /\ P + f = q * Pow2[k] /\ Number(P + f, v) = Fin(q, v + k)
  BY <1>2, <1>3, NumberForm
<1>5. /\ Plain(Number(P + f, v)) /\ Val(Number(P + f, v)) = (P + f) * Pow2[v + Scale]
  BY <1>2, <1>3, NumberPlain
<1>6. Fin(q, v + k).m = q /\ Fin(q, v + k).e = v + k /\ q # 0
  <2>1. q # 0
    BY <1>4
  <2>. QED  BY <2>1 DEF Fin
<1>7. /\ Pow2[WireFractionBits] <= q * Pow2[k] /\ q * Pow2[k] < Pow2[WireFractionBits + 1]
      /\ WireFractionBits \in Nat /\ WireFractionBits + 1 \in Nat
  <2>1. WireFractionBits \in Nat /\ Pow2[WireFractionBits + 1] = 2 * P
    BY FormatFacts, Pow2Unfolds DEF P
  <2>. QED  BY <1>1, <1>4, <2>1 DEF P
<1>8. k <= WireFractionBits
  <2>1. Pow2[k] \in Nat \ {0} /\ Pow2[WireFractionBits + 1] \in Nat
    BY <1>7, Pow2Positive
  <2>2. \A a, b \in Nat \ {0} : b <= a * b /\ a * b \in Nat
    OBVIOUS
  <2>3. Pow2[k] < Pow2[WireFractionBits + 1]
    <3>1. Pow2[k] <= q * Pow2[k] /\ q * Pow2[k] \in Nat
      BY <1>6, <2>1, <2>2
    <3>. QED  BY <1>7, <2>1, <3>1
  <2>4. k < WireFractionBits + 1
    BY <1>7, <2>3, Pow2Grows
  <2>. QED  BY <1>7, <2>4
<1>9. Leading(q) = WireFractionBits - k
  <2>. DEFINE l == WireFractionBits - k
  <2>1. l \in Nat /\ l + 1 \in Nat /\ l + k = WireFractionBits
        /\ (l + 1) + k = WireFractionBits + 1 /\ l <= WireFractionBits + 1
    BY <1>7, <1>8
  <2>. HIDE DEF l
  <2>2. /\ Pow2[WireFractionBits] = Pow2[l] * Pow2[k]
        /\ Pow2[WireFractionBits + 1] = Pow2[l + 1] * Pow2[k]
    <3>1. Pow2[l + k] = Pow2[l] * Pow2[k] /\ Pow2[(l + 1) + k] = Pow2[l + 1] * Pow2[k]
      BY <2>1, Pow2Sum
    <3>. QED  BY <2>1, <3>1
  <2>3. Pow2[k] \in Nat \ {0} /\ Pow2[l] \in Nat /\ Pow2[l + 1] \in Nat
    BY <2>1, Pow2Positive
  <2>4. Pow2[l] <= q /\ q < Pow2[l + 1]
    BY <1>7, <2>2, <2>3, Cancel
  <2>. QED  BY <1>6, <2>1, <2>4, LeadingIs DEF l
<1>10. Leading(q) + (v + k) = c - Bias(WireExponentBits)
  <2>1. v + WireFractionBits = c - Bias(WireExponentBits)
    BY <1>2, FormatFacts DEF v, Scale
  <2>. QED  BY <1>2, <1>7, <1>8, <1>9, <2>1
<1>. QED
  BY <1>2, <1>4, <1>5, <1>6, <1>8, <1>9, <1>10 DEF Normal, P, v

\* A fraction of 0.
LEMMA WholeZero ==
  Number(0, 0) = Fin(0, 0) /\ Whole(0) = Fin(0, 0) /\ Fin(0, 0).m = 0
<1>1. Number(0, 0) = Fin(0, 0)
  BY NumberZero
<1>2. Plain(Fin(0, 0)) /\ Fin(0, 0).m = 0
  BY FinPlain, ScaleFacts
<1>. QED
  BY <1>1, <1>2, RoundedIs DEF Whole

\* A fraction without its last k bits, k as many as the native format lacks, is
\* exact in double(fraction), in the fraction that is scaled, and in the sum.
LEMMA SumExact ==
  ASSUME NEW f \in WireFractions, NEW q \in Nat, NEW k \in Nat,
         q % 2 = 1, k <= WireFractionBits, Pow2[WireFractionBits] + f = q * Pow2[k],
         q < Pow2[FractionBits + 1]
  PROVE  OneAnd(f) = Fin(q, k - WireFractionBits)
<1>. DEFINE P == Pow2[WireFractionBits]
            S == Pow2[Scale]
<1>1. /\ P \in Nat \ {0} /\ f \in Nat /\ f < P /\ 2 * P < Wide
  BY FractionFacts
<1>2. S \in Nat \ {0} /\ Scale \in Nat /\ WireFractionBits \in Nat /\ WireFractionBits <= Scale
  BY ScaleFacts, FormatFacts, Pow2Positive
<1>. HIDE DEF P, S
<1>3. Val(Whole(f)) = f * S
  <2>1. CASE f = 0
    <3>1. Val(Fin(0, 0)) = 0
      <4>1. Plain(Fin(0, 0)) /\ Fin(0, 0).m = 0
        BY FinPlain, ScaleFacts
      <4>. QED  BY <4>1, PlainFacts, Zenon
    <3>. QED  BY <1>2, <2>1, <3>1, WholeZero
  <2>2. CASE f # 0
    <3>. DEFINE x == Number(f, 0)
    <3>1. f < Wide /\ 0 \in Int /\ 0 >= - Scale /\ 0 + Scale = Scale
      BY <1>1, <1>2, ScaleFacts
    <3>2. Plain(x) /\ Val(x) = f * Pow2[0 + Scale]
      BY <1>1, <3>1, NumberPlain
    <3>3. Val(x) = f * S
      BY <3>1, <3>2 DEF S
    <3>. DEFINE l == WireFractionBits - k
    <3>4. l \in Nat /\ Pow2[l] \in Nat \ {0} /\ P = Pow2[l] * Pow2[k] /\ Pow2[k] \in Nat \ {0}
      BY <1>2, Pow2Difference, Pow2Positive DEF P
    <3>5. Pow2[l] <= q
      <4>1. Pow2[l] * Pow2[k] <= q * Pow2[k]
        <5>1. q * Pow2[k] = P + f
          BY DEF P
        <5>. QED  BY <1>1, <3>4, <5>1
      <4>. QED  BY <3>4, <4>1, Cancel
    <3>. DEFINE r == q - Pow2[l]
    <3>6. r \in Nat /\ r < Pow2[FractionBits + 1] /\ f = r * Pow2[k]
      <4>1. Pow2[FractionBits + 1] \in Nat
        BY FormatFacts, Pow2Positive
      <4>2. \A a, b, c \in Nat : b <= a => (a - b) * c = a * c - b * c
        OBVIOUS
      <4>3. r * Pow2[k] = q * Pow2[k] - Pow2[l] * Pow2[k]
        BY <3>4, <3>5, <4>2
      <4>4. q * Pow2[k] = P + f
        BY DEF P
      <4>5. q * Pow2[k] - Pow2[l] * Pow2[k] = f
        BY <1>1, <3>4, <4>4
      <4>. QED  BY <3>4, <3>5, <4>1, <4>3, <4>5
    <3>. HIDE DEF x, l, r
    <3>7. Val(x) = r * Pow2[k + Scale]
      <4>1. Pow2[k + Scale] = Pow2[k] * S
        BY <1>2, Pow2Sum DEF S
      <4>2. \A a, b, c \in Nat : (a * b) * c = a * (b * c)
        OBVIOUS
      <4>. QED  BY <1>2, <3>3, <3>4, <3>6, <4>1, <4>2
    <3>8. Val(x) < Top
      <4>1. f * S < P * S
        BY <1>1, <1>2, Cancel
      <4>2. P * S \in Nat /\ f * S \in Nat /\ 4 * P * S = 4 * (P * S)
        <5>1. \A a, b \in Nat : a * b \in Nat /\ 4 * a * b = 4 * (a * b)
          OBVIOUS
        <5>. QED  BY <1>1, <1>2, <5>1
      <4>3. 4 * P * S <= Top /\ Top \in Nat
        BY TopFacts DEF P, S
      <4>. DEFINE a == f * S
                  b == P * S
      <4>4. a < b /\ a \in Nat /\ b \in Nat /\ 4 * b <= Top
        BY <4>1, <4>2, <4>3
      <4>. HIDE DEF a, b
      <4>5. a < Top
        BY <4>3, <4>4
      <4>. QED  BY <3>3, <4>5 DEF a
    <3>9. x.m # 0
      <4>1. Val(x) = 0 <=> x.m = 0
        BY <3>2, PlainFacts, Zenon DEF x
      <4>2. \A a, b \in Nat \ {0} : a * b # 0
        OBVIOUS
      <4>. QED  BY <1>1, <1>2, <2>2, <3>3, <4>1, <4>2
    <3>10. Held(x)
      <4>1. k \in Int /\ k >= 1 - Bias(ExponentBits) - FractionBits
        BY FormatFacts
      <4>2. Plain(x)
        BY <3>2 DEF x
      <4>. QED  BY <3>6, <3>7, <3>8, <3>9, <4>1, <4>2, MultipleHeld
    <3>11. Whole(f) = x
      BY <3>10, RoundedHeld DEF Whole, x
    <3>. QED  BY <3>3, <3>11
  <2>. QED  BY <2>1, <2>2
<1>. DEFINE y == Exact1(f)
            g == k - WireFractionBits
<1>4. Plain(y) /\ Val(y) = S + Val(Part(f)) /\ Val(Part(f)) \in Nat /\ Val(Part(f)) <= S
  BY SumFacts DEF S
<1>5. g \in Int /\ g >= - WireFractionBits /\ g >= 1 - Bias(ExponentBits) - FractionBits
      /\ g + Scale \in Nat /\ (g + Scale) + WireFractionBits = k + Scale /\ g + Scale >= 0
  BY <1>2, FormatFacts
<1>. HIDE DEF y, g
<1>6. Val(y) = q * Pow2[g + Scale]
  <2>1. Val(Part(f)) * P = f * S
    BY <1>3, PartFacts DEF P
  <2>2. Val(y) * P = S * P + f * S
    BY <1>1, <1>2, <1>4, <2>1
  <2>3. S * P + f * S = (P + f) * S
    BY <1>1, <1>2
  <2>4. (P + f) * S = q * Pow2[k + Scale]
    <3>1. Pow2[k + Scale] = Pow2[k] * S
      BY <1>2, Pow2Sum DEF S
    <3>2. P + f = q * Pow2[k] /\ Pow2[k] \in Nat
      BY Pow2Positive DEF P
    <3>3. \A a, b, c \in Nat : (a * b) * c = a * (b * c)
      OBVIOUS
    <3>. QED  BY <1>2, <3>1, <3>2, <3>3
  <2>5. Pow2[k + Scale] = Pow2[g + Scale] * P /\ Pow2[g + Scale] \in Nat \ {0}
    <3>1. Pow2[(g + Scale) + WireFractionBits] = Pow2[g + Scale] * P
      BY <1>2, <1>5, Pow2Sum DEF P
    <3>. QED  BY <1>5, <3>1, Pow2Positive
  <2>6. Val(y) * P = (q * Pow2[g + Scale]) * P /\ q * Pow2[g + Scale] \in Nat
    <3>1. \A a, b, c \in Nat : (a * b) * c = a * (b * c) /\ a * b \in Nat
      OBVIOUS
    <3>2. q * (Pow2[g + Scale] * P) = (q * Pow2[g + Scale]) * P
      BY <1>1, <2>5, <3>1
    <3>. QED  BY <2>2, <2>3, <2>4, <2>5, <3>1, <3>2
  <2>7. Val(y) \in Nat
    BY <1>2, <1>4
  <2>. QED  BY <1>1, <2>6, <2>7, Cancel
<1>7. Val(y) < Top /\ y.m # 0
  <2>1. Val(y) < Top
    BY <1>2, <1>4, TopFacts DEF S
  <2>2. Val(y) = 0 <=> y.m = 0
    BY <1>4, PlainFacts, Zenon
  <2>. QED  BY <1>2, <1>4, <2>1, <2>2
<1>8. Held(y)
  BY <1>4, <1>5, <1>6, <1>7, MultipleHeld
<1>9. y = Fin(q, g)
  <2>1. q < Wide /\ q # 0
    <3>1. q < Pow2[FractionBits + 1] /\ Pow2[FractionBits + 1] <= Wide
      BY FormatFacts, Pow2Grows DEF Wide
    <3>2. Pow2[FractionBits + 1] \in Nat /\ Wide \in Nat
      BY FormatFacts, Pow2Positive, ScaleFacts
    <3>. QED  BY <3>1, <3>2
  <2>2. g >= - Scale
    BY <1>2, <1>5
  <2>3. Plain(Fin(q, g)) /\ Fin(q, g).m = q /\ Fin(q, g).e = g
    BY <1>5, <2>1, <2>2, FinPlain
  <2>4. Val(Fin(q, g)) = Val(y)
    BY <1>6, <2>3 DEF Val
  <2>. QED  BY <1>4, <2>3, <2>4, ValUnique
<1>10. OneAnd(f) = Rounded(y)
  BY DEF OneAnd, OnePlus, Exact1, y
<1>. QED
  BY <1>8, <1>9, <1>10, RoundedHeld DEF g

\* A normal number of the wire that the native format has is read as it is.
LEMMA NormalExact ==
  ASSUME NEW c \in Exponents, NEW f \in WireFractions, Representable(Normal(c, f))
  PROVE  Ldexp(OneAnd(f), c - Bias(WireExponentBits)) = Normal(c, f)
<1>. DEFINE x == Normal(c, f)
<1>1. PICK q \in Nat, k \in Nat :
           /\ q % 2 = 1 /\ Pow2[WireFractionBits] + f = q * Pow2[k] /\ k <= WireFractionBits
           /\ x = Fin(q, c - 1 - Scale + k)
           /\ Plain(x) /\ x.m = q /\ q # 0
           /\ x.e = c - 1 - Scale + k
           /\ Leading(q) = WireFractionBits - k
  BY NormalFacts
<1>. HIDE DEF x
<1>2. Held(x)
  BY <1>1 DEF Held, x
<1>3. q < Pow2[FractionBits + 1]
  <2>1. Leading(q) \in Nat /\ q < Pow2[Leading(q) + 1]
    BY <1>1, ValTop
  <2>2. Leading(q) <= FractionBits
    BY <1>1, <1>2, HeldFacts
  <2>3. Pow2[Leading(q) + 1] <= Pow2[FractionBits + 1]
    <3>1. Leading(q) + 1 \in Nat /\ FractionBits + 1 \in Nat /\ Leading(q) + 1 <= FractionBits + 1
      BY <2>1, <2>2, FormatFacts
    <3>. QED  BY <3>1, Pow2Grows
  <2>4. Pow2[Leading(q) + 1] \in Nat /\ Pow2[FractionBits + 1] \in Nat
    BY <2>1, FormatFacts, Pow2Positive
  <2>. QED  BY <2>1, <2>3, <2>4
<1>4. OneAnd(f) = Fin(q, k - WireFractionBits)
  BY <1>1, <1>3, SumExact
<1>. DEFINE o == Fin(q, k - WireFractionBits)
            d == c - Bias(WireExponentBits)
<1>5. o.m = q /\ o.e = k - WireFractionBits /\ Held(o)
  <2>1. Held(o)
    BY <1>4, OneAndFacts
  <2>. QED  BY <2>1 DEF Fin
<1>6. d \in Int /\ o.e + d = x.e /\ x.e >= - Scale /\ Plain(o)
  <2>1. c \in Int
    BY DEF Exponents
  <2>2. (k - WireFractionBits) + (c - Bias(WireExponentBits)) = c - 1 - Scale + k
    BY <2>1, FormatFacts DEF Scale
  <2>3. x.e >= - Scale
    BY <1>1, PlainFacts, Zenon
  <2>. QED  BY <1>1, <1>5, <2>1, <2>2, <2>3, HeldFacts, FormatFacts
<1>. HIDE DEF o, d
<1>7. [o EXCEPT !.e = @ + d] = x
  <2>1. o.m # 0 /\ o.e + d >= - Scale
    BY <1>1, <1>5, <1>6
  <2>2. [o EXCEPT !.e = @ + d] = Fin(o.m, o.e + d)
    BY <1>6, <2>1, ShiftedValue
  <2>3. x = Fin(q, x.e)
    BY <1>1
  <2>. QED  BY <1>5, <1>6, <2>2, <2>3
<1>8. Ldexp(o, d) = Rounded(x)
  BY <1>1, <1>5, <1>7 DEF Ldexp
<1>. QED
  BY <1>2, <1>4, <1>8, RoundedHeld DEF x, o, d

\* The number with exponent 0: only a zero of the wire is a native number, any
\* other one is below the native range.
Small(f) == Number(f, - Scale)

\* The value of a subnormal number of the wire format, which is below the native range.
LEMMA SmallFacts ==
  ASSUME NEW f \in WireFractions
  PROVE  /\ Plain(Small(f)) /\ Val(Small(f)) = f
         /\ f = 0 => Small(f) = Fin(0, 0)
         /\ f # 0 => /\ Small(f).m # 0 /\ ~Representable(Small(f))
                     /\ Leading(Small(f).m) + Small(f).e < 1 - Bias(ExponentBits) - FractionBits
<1>. DEFINE x == Small(f)
<1>1. f \in Nat /\ f < Wide /\ f < Pow2[WireFractionBits]
  BY FractionFacts
<1>2. Plain(x) /\ Val(x) = f
  <2>1. - Scale \in Int /\ - Scale >= - Scale /\ (- Scale) + Scale = 0 /\ Pow2[0] = 1
    BY ScaleFacts, Pow2Unfolds
  <2>2. Plain(x) /\ Val(x) = f * Pow2[(- Scale) + Scale]
    BY <1>1, <2>1, NumberPlain DEF Small
  <2>. QED  BY <1>1, <2>1, <2>2
<1>3. f = 0 => x = Fin(0, 0)
  <2>1. - Scale \in Int
    BY ScaleFacts
  <2>. QED  BY <2>1, NumberZero DEF Small
<1>. HIDE DEF x
<1>4. ASSUME f # 0
      PROVE  /\ x.m # 0 /\ ~Representable(x)
             /\ Leading(x.m) + x.e < 1 - Bias(ExponentBits) - FractionBits
  <2>1. x.m # 0 /\ x.e \in Int /\ x.kind = "finite"
    <3>1. Val(x) = 0 <=> x.m = 0
      BY <1>2, PlainFacts, Zenon
    <3>2. x.e \in Int /\ x.kind = "finite"
      BY <1>2, PlainFacts, Zenon
    <3>. QED  BY <1>2, <1>4, <3>1, <3>2
  <2>. DEFINE t == Leading(x.m) + x.e + Scale
  <2>2. Leading(x.m) \in Nat /\ t \in Nat /\ Pow2[t] <= f
    BY <1>2, <2>1, ValTop
  <2>3. t < WireFractionBits
    <3>. HIDE DEF t
    <3>1. Pow2[t] \in Nat /\ Pow2[WireFractionBits] \in Nat /\ WireFractionBits \in Nat
      BY <2>2, FormatFacts, Pow2Positive
    <3>2. Pow2[t] < Pow2[WireFractionBits]
      BY <1>1, <2>2, <3>1
    <3>. QED  BY <2>2, <3>1, <3>2, Pow2Grows
  <2>4. WireFractionBits <= (1 - Bias(ExponentBits) - FractionBits) + Scale
    BY FormatFacts DEF Scale
  <2>5. Leading(x.m) + x.e < 1 - Bias(ExponentBits) - FractionBits
    BY <2>1, <2>2, <2>3, <2>4, FormatFacts, ScaleFacts
  <2>6. x.e < 1 - Bias(ExponentBits) - FractionBits
    BY <2>1, <2>2, <2>5, FormatFacts
  <2>7. ~Representable(x)
    <3>1. ~(x.e >= 1 - Bias(ExponentBits) - FractionBits)
      BY <2>1, <2>6, FormatFacts
    <3>. QED  BY <2>1, <3>1 DEF Representable
  <2>. QED  BY <2>1, <2>5, <2>7
<1>. QED
  BY <1>2, <1>3, <1>4 DEF x

----------------------------------------------------------------------------
(* Patterns of the wire format *)

\* Sign, exponent and fraction of a pattern, and the pattern they make.
Pattern(s, c, f) == s * WireSign + (c * Pow2[WireFractionBits] + f)

\* The sign bit lies above the exponent, the exponent above the fraction.
LEMMA SignFacts ==
  /\ WireSign \in Nat \ {0}
  /\ WireSign = (2 * Bias(WireExponentBits) + 2) * Pow2[WireFractionBits]
  /\ Pow2[WireExponentBits] = 2 * Bias(WireExponentBits) + 2
  /\ Pow2[WireFractionBits] \in Nat \ {0} /\ Pow2[WireExponentBits] \in Nat \ {0}
  /\ Bias(WireExponentBits) \in Nat
  /\ WireInfinity = (2 * Bias(WireExponentBits) + 1) * Pow2[WireFractionBits]
<1>1. WireExponentBits \in Nat /\ WireFractionBits \in Nat /\ Bias(WireExponentBits) \in Nat
      /\ Pow2[WireExponentBits] = 2 * Bias(WireExponentBits) + 2
  BY FormatFacts
<1>2. Pow2[WireExponentBits + WireFractionBits] = Pow2[WireExponentBits] * Pow2[WireFractionBits]
  BY <1>1, Pow2Sum
<1>3. Pow2[WireExponentBits + WireFractionBits] \in Nat \ {0}
  BY <1>1, Pow2Positive
<1>4. WireInfinity = (2 * Bias(WireExponentBits) + 1) * Pow2[WireFractionBits]
  <2>1. Pow2[WireExponentBits] - 1 = 2 * Bias(WireExponentBits) + 1
    BY <1>1
  <2>. QED  BY <2>1 DEF WireInfinity
<1>. QED
  BY <1>1, <1>2, <1>3, <1>4, Pow2Positive DEF WireSign

\* The fields of a pattern.
LEMMA PatternIs ==
  ASSUME NEW s \in {0, 1}, NEW c \in 0 .. 2 * Bias(WireExponentBits) + 1, NEW f \in WireFractions
  PROVE  /\ Pattern(s, c, f) \in Bits
         /\ WireFraction(Pattern(s, c, f)) = f
         /\ WireExponent(Pattern(s, c, f)) = c
         /\ Pattern(s, c, f) \div WireSign = s
<1>. DEFINE P == Pow2[WireFractionBits]
            Q == 2 * Bias(WireExponentBits) + 2
            W == WireSign
<1>1. W \in Nat \ {0} /\ W = Q * P /\ P \in Nat \ {0} /\ Q \in Nat \ {0}
      /\ Pow2[WireExponentBits] = Q
  BY SignFacts
<1>2. c \in Nat /\ c < Q /\ f \in Nat /\ f < P /\ s \in Nat /\ s <= 1
  BY FractionFacts, SignFacts
<1>. HIDE DEF P, Q, W
<1>3. c * P + f \in Nat /\ c * P + f < W
  <2>1. \A a, b, p \in Nat, r \in Nat : a < b /\ r < p => a * p + r < b * p /\ a * p + r \in Nat
    <3>1. ASSUME NEW a \in Nat, NEW b \in Nat, NEW p \in Nat, NEW r \in Nat, a < b, r < p
          PROVE  a * p + r < b * p /\ a * p + r \in Nat
      <4>1. (a + 1) * p <= b * p
        <5>1. \A u, v, w \in Nat : u <= v => u * w <= v * w
          OBVIOUS
        <5>. QED  BY <3>1, <5>1
      <4>2. (a + 1) * p = a * p + p
        OBVIOUS
      <4>3. a * p \in Nat /\ b * p \in Nat
        OBVIOUS
      <4>. DEFINE x == a * p
                  y == b * p
      <4>4. x + p <= y /\ x \in Nat /\ y \in Nat
        BY <4>1, <4>2, <4>3
      <4>. HIDE DEF x, y
      <4>5. x + r < y /\ x + r \in Nat
        BY <3>1, <4>4
      <4>. QED  BY <4>5 DEF x, y
    <3>. QED  BY <3>1
  <2>. QED  BY <1>1, <1>2, <2>1
<1>. DEFINE m == c * P + f
            b == s * W + m
<1>4. b \div W = s /\ b % W = m
  <2>. HIDE DEF m
  <2>. QED  BY <1>1, <1>2, <1>3, DivModUnique DEF m
<1>5. b \in Nat /\ b < 2 * W
  <2>1. s * W \in Nat /\ s * W <= W
    BY <1>1
  <2>. QED  BY <1>1, <1>3, <2>1
<1>6. s * Q + c \in Nat /\ b = (s * Q + c) * P + f
  <2>1. (s * Q + c) * P + f = s * (Q * P) + (c * P + f)
    BY <1>1, <1>2
  <2>. QED  BY <1>1, <1>2, <2>1
<1>7. b % P = f /\ b \div P = s * Q + c
  <2>. DEFINE a == s * Q + c
  <2>. HIDE DEF b, a
  <2>. QED  BY <1>1, <1>2, <1>6, DivModUnique DEF a
<1>8. (s * Q + c) % Q = c
  BY <1>1, <1>2, DivModUnique
<1>. HIDE DEF b
<1>9. b \in Bits
  BY <1>1, <1>5 DEF Bits, W
<1>. QED
  BY <1>1, <1>4, <1>7, <1>8, <1>9 DEF Pattern, WireFraction, WireExponent, b, P, W

\* Every pattern consists of the three fields.
LEMMA PatternOf ==
  ASSUME NEW bits \in Bits
  PROVE  \E s \in {0, 1}, c \in 0 .. 2 * Bias(WireExponentBits) + 1, f \in WireFractions :
            bits = Pattern(s, c, f)
<1>. DEFINE P == Pow2[WireFractionBits]
            Q == 2 * Bias(WireExponentBits) + 2
            W == WireSign
<1>1. W \in Nat \ {0} /\ W = Q * P /\ P \in Nat \ {0} /\ Q \in Nat \ {0}
  BY SignFacts
<1>2. bits \in Nat /\ bits < 2 * W
  BY <1>1 DEF Bits
<1>. HIDE DEF P, Q, W
<1>. DEFINE s == bits \div W
            r == bits % W
            c == r \div P
            f == r % P
<1>3. s \in Nat /\ r \in Nat /\ r < W /\ bits = s * W + r
  BY <1>1, <1>2, DivMod
<1>4. s \in {0, 1}
  <2>. HIDE DEF s, r
  <2>1. ~(s >= 2)
    <3>. SUFFICES ASSUME s >= 2 PROVE FALSE
      OBVIOUS
    <3>1. 2 * W <= s * W /\ s * W \in Nat
      BY <1>1, <1>3
    <3>. QED  BY <1>1, <1>2, <1>3, <3>1
  <2>. QED  BY <1>3, <2>1
<1>5. c \in Nat /\ f \in Nat /\ f < P /\ r = c * P + f
  <2>. HIDE DEF r
  <2>. QED  BY <1>1, <1>3, DivMod
<1>. HIDE DEF s, r, c, f
<1>6. c < Q
  <2>. SUFFICES ASSUME Q <= c PROVE FALSE
    BY <1>1, <1>5
  <2>1. Q * P <= c * P /\ c * P \in Nat
    BY <1>1, <1>5
  <2>. QED  BY <1>1, <1>3, <1>5, <2>1
<1>7. c \in 0 .. 2 * Bias(WireExponentBits) + 1 /\ f \in WireFractions
  BY <1>5, <1>6, SignFacts DEF P, Q, WireFractions
<1>8. bits = Pattern(s, c, f)
  BY <1>3, <1>5 DEF Pattern, W, P
<1>. QED
  BY <1>4, <1>7, <1>8

----
\* The magnitude of a pattern as IEEE 754 has it, and as the board reads it.
Sent(c, f) ==
  CASE c = 2 * Bias(WireExponentBits) + 1 -> IF f # 0 THEN NotANumber ELSE Infinite
    [] c = 0 -> Small(f)
    [] OTHER -> Normal(c, f)

\* What a narrow board reads from exponent c and fraction f, without the sign.
Got(c, f) ==
  CASE c = 2 * Bias(WireExponentBits) + 1 -> IF f # 0 THEN NotANumber ELSE Infinite
    [] c = 0 -> Ldexp(Whole(f), - Scale)
    [] OTHER -> Ldexp(OneAnd(f), c - Bias(WireExponentBits))

\* A number with its sign.
Signed(x, s) == [x EXCEPT !.negative = s = 1]

\* A pattern on the wire and on a narrow board.
LEMMA PatternMeans ==
  ASSUME NEW s \in {0, 1}, NEW c \in 0 .. 2 * Bias(WireExponentBits) + 1, NEW f \in WireFractions
  PROVE  /\ OnWire(Pattern(s, c, f)) = Signed(Sent(c, f), s)
         /\ ReadDouble(TRUE, Pattern(s, c, f)) = Signed(Got(c, f), s)
<1>. DEFINE b == Pattern(s, c, f)
            M == 2 * Bias(WireExponentBits) + 1
<1>1. /\ WireFraction(b) = f /\ WireExponent(b) = c /\ b \div WireSign = s
  BY PatternIs
<1>2. /\ b % Pow2[WireFractionBits] = f
      /\ (b \div Pow2[WireFractionBits]) % Pow2[WireExponentBits] = c
      /\ b \div Pow2[WireExponentBits + WireFractionBits] = s
  BY <1>1 DEF WireFraction, WireExponent, WireSign
<1>3. Pow2[WireExponentBits] - 1 = M
  BY SignFacts
<1>4. 1 - Bias(WireExponentBits) - WireFractionBits = - Scale /\ c \in Int
  BY FormatFacts DEF Scale
<1>5. ((1 - Bias(WireExponentBits)) - WireFractionBits + c) - 1 = c - 1 - Scale
  BY <1>4, FormatFacts, ScaleFacts
<1>. HIDE DEF b, M
<1>6. OnWire(b) = Signed(Sent(c, f), s)
  <2>. DEFINE least == 1 - Bias(WireExponentBits) - WireFractionBits
  <2>1. least + c - 1 = c - 1 - Scale
    BY <1>4, FormatFacts, ScaleFacts
  <2>2. least = - Scale
    BY <1>4
  <2>. HIDE DEF least
  <2>3. OnWire(b) =
          LET magnitude ==
                CASE c = M -> IF f # 0 THEN NotANumber ELSE Infinite
                  [] c = 0 -> Number(f, least)
                  [] OTHER -> Number(Pow2[WireFractionBits] + f, least + c - 1)
          IN [magnitude EXCEPT !.negative = s = 1]
    BY <1>2, <1>3 DEF OnWire, Denoted, least
  <2>. QED  BY <2>1, <2>2, <2>3 DEF Signed, Sent, Small, Normal, M
<1>7. ReadMagnitude(b) = Got(c, f)
  <2>1. /\ ScaledFraction(b, - WireFractionBits) = Part(f)
        /\ ScaledFraction(b, 1 - Bias(WireExponentBits) - WireFractionBits)
             = Ldexp(Whole(f), - Scale)
    BY <1>1, <1>4 DEF ScaledFraction, Part, Whole
  <2>. QED  BY <1>1, <1>3, <2>1 DEF ReadMagnitude, Got, OneAnd, M
<1>8. ReadDouble(TRUE, b) = Signed(Got(c, f), s)
  BY <1>1, <1>7 DEF ReadDouble, Signed
<1>. QED
  BY <1>6, <1>8 DEF b

\* All exponent fields of the wire format.
Wired == 0 .. 2 * Bias(WireExponentBits) + 1

\* The cases of readDouble(): infinities and NaNs, subnormal and normal numbers.
LEMMA ByExponent ==
  ASSUME NEW c \in Wired, NEW f \in WireFractions
  PROVE  /\ c = 2 * Bias(WireExponentBits) + 1 =>
              /\ f = 0 => Sent(c, f) = Infinite /\ Got(c, f) = Infinite
              /\ f # 0 => Sent(c, f) = NotANumber /\ Got(c, f) = NotANumber
         /\ c = 0 => Sent(c, f) = Small(f) /\ Got(c, f) = Ldexp(Whole(f), - Scale)
         /\ c # 0 /\ c # 2 * Bias(WireExponentBits) + 1 =>
              /\ c \in Exponents /\ Sent(c, f) = Normal(c, f)
              /\ Got(c, f) = Ldexp(OneAnd(f), c - Bias(WireExponentBits))
<1>. DEFINE B == Bias(WireExponentBits)
            M == 2 * B + 1
<1>1. B \in Nat /\ M \in Nat /\ 0 # M /\ c \in 0 .. M
  <2>1. B \in Nat
    BY SignFacts
  <2>. QED  BY <2>1 DEF Wired
<1>2. c # 0 /\ c # M => c \in Exponents
  <2>. HIDE DEF B
  <2>. QED  BY <1>1 DEF Exponents, B
<1>3. /\ Sent(c, f) = CASE c = M -> IF f # 0 THEN NotANumber ELSE Infinite
                        [] c = 0 -> Small(f)
                        [] OTHER -> Normal(c, f)
      /\ Got(c, f) = CASE c = M -> IF f # 0 THEN NotANumber ELSE Infinite
                       [] c = 0 -> Ldexp(Whole(f), - Scale)
                       [] OTHER -> Ldexp(OneAnd(f), c - B)
  BY DEF Sent, Got
<1>. HIDE DEF M
<1>4. CASE c = M
  <2>1. c # 0
    BY <1>1, <1>4
  <2>. QED  BY <1>3, <1>4, <2>1 DEF M
<1>5. CASE c = 0
  <2>1. c # M
    BY <1>1, <1>5
  <2>. QED  BY <1>3, <1>5, <2>1 DEF M
<1>6. CASE c # M /\ c # 0
  BY <1>2, <1>3, <1>6 DEF M
<1>. QED
  BY <1>4, <1>5, <1>6

\* A value the native format has is read as it was sent.
LEMMA GotExact ==
  ASSUME NEW c \in Wired, NEW f \in WireFractions, Representable(Sent(c, f))
  PROVE  Got(c, f) = Sent(c, f)
<1>1. CASE c = 2 * Bias(WireExponentBits) + 1
  BY <1>1, ByExponent
<1>2. CASE c = 0
  <2>1. Sent(c, f) = Small(f) /\ Got(c, f) = Ldexp(Whole(f), - Scale)
    BY <1>2, ByExponent
  <2>2. f = 0 /\ Small(f) = Fin(0, 0)
    BY <2>1, SmallFacts
  <2>. QED  BY <2>1, <2>2, WholeZero DEF Ldexp
<1>3. CASE c # 2 * Bias(WireExponentBits) + 1 /\ c # 0
  <2>1. /\ c \in Exponents /\ Sent(c, f) = Normal(c, f)
        /\ Got(c, f) = Ldexp(OneAnd(f), c - Bias(WireExponentBits))
    BY <1>3, ByExponent
  <2>. QED  BY <2>1, NormalExact
<1>. QED
  BY <1>1, <1>2, <1>3

\* What is read is a native number, infinite, or a NaN.
LEMMA GotIs ==
  ASSUME NEW c \in Wired, NEW f \in WireFractions
  PROVE  /\ Held(Got(c, f)) \/ Got(c, f) = Infinite \/ Got(c, f) = NotANumber
         /\ c # 2 * Bias(WireExponentBits) + 1 => Held(Got(c, f)) \/ Got(c, f) = Infinite
<1>. DEFINE M == 2 * Bias(WireExponentBits) + 1
<1>1. ASSUME NEW x, Held(x), NEW k \in Int, x.m # 0 => x.e + k >= - Scale
      PROVE  Held(Ldexp(x, k)) \/ Ldexp(x, k) = Infinite
  <2>1. CASE x.m = 0
    BY <1>1, <2>1 DEF Ldexp
  <2>2. CASE x.m # 0
    <3>1. Plain(x)
      BY <1>1, HeldFacts
    <3>2. [x EXCEPT !.e = @ + k] = Fin(x.m, x.e + k) /\ Plain(Fin(x.m, x.e + k))
      BY <1>1, <2>2, <3>1, ShiftedValue
    <3>3. Ldexp(x, k) = Rounded(Fin(x.m, x.e + k))
      BY <2>2, <3>2 DEF Ldexp
    <3>. QED  BY <3>2, <3>3, RoundedIs
  <2>. QED  BY <2>1, <2>2
<1>2. c \in Nat /\ M \in Nat /\ M > 0
  BY SignFacts DEF Wired
<1>. HIDE DEF M
<1>3. CASE c = M
  <2>1. Got(c, f) = Infinite \/ Got(c, f) = NotANumber
    BY <1>3, ByExponent DEF M
  <2>. QED  BY <1>3, <2>1 DEF M
<1>4. CASE c = 0
  <2>1. Got(c, f) = Ldexp(Whole(f), - Scale)
    BY <1>4, ByExponent
  <2>2. Held(Whole(f)) /\ (Whole(f).m # 0 => Whole(f).e >= 0)
    BY WholeFacts
  <2>3. - Scale \in Int /\ Whole(f).e \in Int
    BY <2>2, ScaleFacts, HeldFacts
  <2>4. Whole(f).m # 0 => Whole(f).e + (- Scale) >= - Scale
    BY <2>2, <2>3, ScaleFacts
  <2>. QED  BY <1>1, <2>1, <2>2, <2>3, <2>4
<1>5. CASE c # M /\ c # 0
  <2>1. Got(c, f) = Ldexp(OneAnd(f), c - Bias(WireExponentBits))
    BY <1>5, ByExponent DEF M
  <2>2. /\ Held(OneAnd(f)) /\ OneAnd(f).e \in Int /\ OneAnd(f).e >= - FractionBits
    BY OneAndFacts
  <2>3. /\ c - Bias(WireExponentBits) \in Int
        /\ OneAnd(f).e + (c - Bias(WireExponentBits)) >= - Scale
    BY <1>2, <1>5, <2>2, FormatFacts DEF Scale
  <2>. QED  BY <1>1, <2>1, <2>2, <2>3
<1>. QED
  BY <1>3, <1>4, <1>5 DEF M

----
\* The bits of the magnitude that writeDouble() makes.
Coded(x) ==
  IF x.kind = "nan" THEN WireInfinity + Pow2[WireFractionBits - 1]
  ELSE IF x.kind = "infinite" THEN WireInfinity
  ELSE IF x.m = 0 THEN 0
  ELSE (Leading(x.m) + x.e + Bias(WireExponentBits)) * Pow2[WireFractionBits]
       + (x.m - Pow2[Leading(x.m)]) * Pow2[WireFractionBits - Leading(x.m)]

\* The bits of a native number denote it.
LEMMA CodedMeans ==
  ASSUME NEW x, Held(x)
  PROVE  \E c \in Wired, f \in WireFractions :
            /\ Coded(x) = c * Pow2[WireFractionBits] + f
            /\ Sent(c, f) = x /\ c # 2 * Bias(WireExponentBits) + 1
<1>. DEFINE P == Pow2[WireFractionBits]
            B == Bias(WireExponentBits)
            l == Leading(x.m)
<1>1. /\ Plain(x) /\ x.m \in Nat /\ x.e \in Int /\ x.kind = "finite" /\ x = Fin(x.m, x.e)
      /\ x.m < Wide
  BY HeldFacts, PlainFacts, Zenon
<1>2. P \in Nat \ {0} /\ B \in Nat
  BY SignFacts
<1>3. CASE x.m = 0
  <2>1. Coded(x) = 0
    BY <1>1, <1>3 DEF Coded
  <2>2. x = Fin(0, 0)
    BY <1>1, <1>3, PlainFacts
  <2>3. 0 \in Wired /\ 0 \in WireFractions /\ 0 # 2 * B + 1 /\ 0 * P + 0 = 0
    BY <1>2, OneAndZero DEF Wired
  <2>4. Sent(0, 0) = Small(0) /\ Small(0) = Fin(0, 0)
    BY <2>3, SmallFacts, ByExponent
  <2>. QED  BY <2>1, <2>2, <2>3, <2>4
<1>4. CASE x.m # 0
  <2>1. /\ x.e >= 1 - Bias(ExponentBits) - FractionBits
        /\ l <= FractionBits /\ l + x.e <= Bias(ExponentBits)
        /\ l \in Nat /\ Pow2[l] <= x.m /\ x.m < Pow2[l + 1]
        /\ x.m % 2 = 1
    <3>1. x.m % 2 = 1
      BY <1>1, <1>4, PlainFacts, Zenon
    <3>. QED  BY <1>1, <1>4, <3>1, HeldFacts, ValTop
  <2>. HIDE DEF l, P, B
  <2>. DEFINE d == WireFractionBits - l
              c == l + x.e + B
              f == (x.m - Pow2[l]) * Pow2[d]
  <2>2. l < WireFractionBits /\ d \in Nat /\ d <= WireFractionBits /\ l \in Nat
        /\ WireFractionBits \in Nat /\ l <= WireFractionBits
    BY <2>1, FormatFacts
  <2>3. c \in Nat /\ 1 <= c /\ c <= 2 * B
    BY <1>1, <1>2, <2>1, FormatFacts DEF B
  <2>4. Coded(x) = c * P + f
    BY <1>1, <1>4 DEF Coded, l, P, B
  <2>5. Pow2[d] \in Nat \ {0} /\ P = Pow2[d] * Pow2[l] /\ Pow2[l] \in Nat \ {0}
    BY <2>2, Pow2Difference, Pow2Positive DEF P
  <2>6. f \in Nat /\ f < P
    <3>1. Pow2[l + 1] = 2 * Pow2[l]
      BY <2>1, Pow2Unfolds
    <3>2. x.m - Pow2[l] \in Nat /\ x.m - Pow2[l] < Pow2[l]
      BY <1>1, <2>1, <2>5, <3>1
    <3>3. (x.m - Pow2[l]) * Pow2[d] < Pow2[l] * Pow2[d]
      BY <2>5, <3>2, Cancel
    <3>4. \A a, b \in Nat : a * b = b * a /\ a * b \in Nat
      OBVIOUS
    <3>. QED  BY <2>5, <3>2, <3>3, <3>4
  <2>. HIDE DEF d
  <2>7. P + f = x.m * Pow2[d]
    <3>1. \A a, b, g \in Nat : b <= a => g * b + (a - b) * g = a * g
      OBVIOUS
    <3>. QED  BY <1>1, <2>1, <2>5, <3>1
  <2>. HIDE DEF c, f
  <2>8. Normal(c, f) = x
    <3>1. c - 1 - Scale \in Int /\ (c - 1 - Scale) + d = x.e
      BY <1>1, <2>2, <2>3, FormatFacts DEF Scale, c, d, B
    <3>2. x.m * Pow2[d] < Wide
      <4>1. 2 * P < Wide /\ Wide \in Nat
        BY FractionFacts, OneAndZero, ScaleFacts DEF P
      <4>. QED  BY <1>2, <2>6, <2>7, <4>1
    <3>3. Number(x.m * Pow2[d], c - 1 - Scale) = Fin(x.m, (c - 1 - Scale) + d)
      BY <1>1, <2>1, <2>2, <3>1, <3>2, NumberIs
    <3>. QED  BY <1>1, <2>7, <3>1, <3>3 DEF Normal, P
  <2>9. c \in Wired /\ f \in WireFractions /\ c # 2 * B + 1 /\ c # 0
    BY <1>2, <2>3, <2>6 DEF Wired, WireFractions, B, P
  <2>10. Sent(c, f) = x
    BY <2>8, <2>9, ByExponent DEF B
  <2>. QED  BY <2>4, <2>9, <2>10 DEF P, B
<1>. QED
  BY <1>3, <1>4

\* The bits of a native number, or of infinity, are those it came with.
LEMMA CodedSent ==
  ASSUME NEW c \in Wired, NEW f \in WireFractions, Representable(Sent(c, f)),
         Sent(c, f) # NotANumber
  PROVE  Coded(Sent(c, f)) = c * Pow2[WireFractionBits] + f
<1>. DEFINE M == 2 * Bias(WireExponentBits) + 1
            P == Pow2[WireFractionBits]
            B == Bias(WireExponentBits)
<1>1. M \in Nat /\ M > 0 /\ c \in Nat /\ WireInfinity = M * P /\ P \in Nat /\ B \in Nat
  BY SignFacts DEF Wired
<1>2. CASE c = M
  <2>1. f = 0 /\ Sent(c, f) = Infinite
    BY <1>2, ByExponent
  <2>2. Infinite.kind = "infinite" /\ "infinite" # "nan" /\ Infinite.m = 0
    BY DEF Infinite
  <2>3. Coded(Infinite) = WireInfinity
    BY <2>2 DEF Coded
  <2>. QED  BY <1>1, <1>2, <2>1, <2>3
<1>3. CASE c = 0
  <2>2. Sent(c, f) = Small(f)
    BY <1>3, ByExponent
  <2>3. f = 0 /\ Sent(c, f) = Fin(0, 0)
    BY <2>2, SmallFacts
  <2>4. Coded(Fin(0, 0)) = 0
    BY DEF Coded, Fin
  <2>. QED  BY <1>1, <1>3, <2>3, <2>4
<1>4. CASE c # M /\ c # 0
  <2>. DEFINE x == Normal(c, f)
  <2>1. c \in Exponents /\ Sent(c, f) = x
    BY <1>4, ByExponent
  <2>2. PICK q \in Nat, k \in Nat :
           /\ q % 2 = 1 /\ P + f = q * Pow2[k] /\ k <= WireFractionBits
           /\ x = Fin(q, c - 1 - Scale + k)
           /\ x.m = q /\ q # 0
           /\ Leading(q) = WireFractionBits - k
           /\ Leading(q) + x.e = c - B
    BY <2>1, NormalFacts
  <2>3. x.kind = "finite" /\ x.e \in Int
    <3>1. x.kind = "finite"
      BY <2>2 DEF Fin
    <3>2. Plain(x)
      BY <2>1, NormalFacts
    <3>. QED  BY <3>1, <3>2, PlainFacts, Zenon
  <2>. HIDE DEF x, P, B
  <2>4. Leading(q) \in Nat /\ WireFractionBits - Leading(q) = k
        /\ Leading(q) + x.e + B = c
    BY <1>1, <2>2, <2>3, FormatFacts
  <2>5. Coded(x) = (Leading(q) + x.e + B) * P + (q - Pow2[Leading(q)]) * Pow2[k]
    BY <2>2, <2>3, <2>4 DEF Coded, P, B
  <2>6. (q - Pow2[Leading(q)]) * Pow2[k] = f
    <3>1. Pow2[Leading(q)] \in Nat /\ Pow2[k] \in Nat /\ P = Pow2[Leading(q)] * Pow2[k]
      <4>1. Leading(q) + k = WireFractionBits
        BY <2>2, FormatFacts
      <4>2. Pow2[Leading(q) + k] = Pow2[Leading(q)] * Pow2[k]
        BY <2>4, Pow2Sum
      <4>. QED  BY <2>4, <4>1, <4>2, Pow2Positive DEF P
    <3>2. \A a, b, g \in Nat : (a - b) * g = a * g - b * g /\ a * g \in Nat
      OBVIOUS
    <3>3. (q - Pow2[Leading(q)]) * Pow2[k] = q * Pow2[k] - Pow2[Leading(q)] * Pow2[k]
      BY <3>1, <3>2
    <3>4. f \in Nat
      BY FractionFacts
    <3>. QED  BY <1>1, <2>2, <3>1, <3>3, <3>4
  <2>. QED  BY <2>1, <2>4, <2>5, <2>6 DEF P, x
<1>. QED
  BY <1>2, <1>3, <1>4

----------------------------------------------------------------------------
(* Read and sent back *)

\* What readDouble() returns, without its sign.
Readable(x) == Plain(x) \/ x = Infinite \/ x = NotANumber

\* The sign changes neither the kind nor the size of a number.
LEMMA SignedFacts ==
  ASSUME NEW x, Readable(x), NEW s \in {0, 1}
  PROVE  /\ Signed(x, s).kind = x.kind /\ Signed(x, s).m = x.m /\ Signed(x, s).e = x.e
         /\ Signed(x, s).negative = (s = 1)
         /\ x.kind = "finite" <=> Plain(x)
         /\ x.kind = "infinite" <=> x = Infinite
         /\ x.kind = "nan" <=> x = NotANumber
         /\ x.kind = "finite" \/ x.kind = "infinite" \/ x.kind = "nan"
         /\ Representable(Signed(x, s)) <=> Representable(x)
<1>1. \E k, m, e : x = [kind |-> k, negative |-> FALSE, m |-> m, e |-> e]
  <2>1. CASE Plain(x)
    <3>1. x = Fin(x.m, x.e)
      BY <2>1, PlainFacts, Zenon
    <3>. QED  BY <3>1 DEF Fin
  <2>2. CASE x = Infinite
    BY <2>2 DEF Infinite
  <2>3. CASE x = NotANumber
    BY <2>3 DEF NotANumber
  <2>. QED  BY <2>1, <2>2, <2>3 DEF Readable
<1>2. PICK k, m, e : x = [kind |-> k, negative |-> FALSE, m |-> m, e |-> e]
  BY <1>1
<1>3. Signed(x, s).kind = x.kind /\ Signed(x, s).m = x.m /\ Signed(x, s).e = x.e
  BY <1>2 DEF Signed
<1>4. Signed(x, s).negative = (s = 1)
  <2>. DEFINE n == FALSE
              t == s = 1
  <2>1. x = [kind |-> k, negative |-> n, m |-> m, e |-> e]
    BY <1>2
  <2>2. Signed(x, s) = [x EXCEPT !.negative = t]
    BY DEF Signed
  <2>. HIDE DEF n, t
  <2>3. Signed(x, s).negative = t
    BY <2>1, <2>2
  <2>. QED  BY <2>3 DEF t
<1>5. /\ Plain(x) => x.kind = "finite"
      /\ x = Infinite => x.kind = "infinite"
      /\ x = NotANumber => x.kind = "nan"
  <2>1. Plain(x) => x.kind = "finite"
    BY PlainFacts, Zenon
  <2>. QED  BY <2>1 DEF Infinite, NotANumber
<1>6. Representable(Signed(x, s)) <=> Representable(x)
  BY <1>3 DEF Representable
<1>. QED
  BY <1>3, <1>4, <1>5, <1>6 DEF Readable

\* writeDouble() puts the sign bit above the rest.
LEMMA WrittenSigned ==
  ASSUME NEW x, Readable(x), NEW s \in {0, 1}
  PROVE  WriteDouble(Signed(x, s)) = s * WireSign + Coded(x)
<1>. DEFINE y == Signed(x, s)
            code == (Leading(x.m) + x.e + Bias(WireExponentBits)) * Pow2[WireFractionBits]
                    + (x.m - Pow2[Leading(x.m)]) * Pow2[WireFractionBits - Leading(x.m)]
            magnitude ==
              CASE x.kind = "nan" -> WireInfinity + Pow2[WireFractionBits - 1]
                [] x.kind = "infinite" -> WireInfinity
                [] x.kind = "finite" /\ x.m = 0 -> 0
                [] OTHER -> code
<1>1. y.kind = x.kind /\ y.m = x.m /\ y.e = x.e /\ y.negative = (s = 1)
      /\ (x.kind = "finite" \/ x.kind = "infinite" \/ x.kind = "nan")
  BY SignedFacts
<1>2. WriteDouble(y) = (IF y.negative THEN WireSign ELSE 0) + magnitude
  <2>. HIDE DEF y
  <2>. QED  BY <1>1 DEF WriteDouble
<1>3. (IF y.negative THEN WireSign ELSE 0) = s * WireSign
  <2>. HIDE DEF y
  <2>1. WireSign \in Nat
    BY SignFacts
  <2>2. CASE s = 1
    <3>1. y.negative
      BY <1>1, <2>2, Zenon
    <3>2. s * WireSign = WireSign
      BY <2>1, <2>2
    <3>. QED  BY <3>1, <3>2, Zenon
  <2>3. CASE s = 0
    <3>1. y.negative = FALSE
      <4>1. (s = 1) = FALSE
        BY <2>3
      <4>. QED  BY <1>1, <4>1, Zenon
    <3>2. s * WireSign = 0
      BY <2>1, <2>3
    <3>. QED  BY <3>1, <3>2, Zenon
  <2>. QED  BY <2>2, <2>3
<1>4. magnitude = Coded(x)
  <2>. HIDE DEF code
  <2>1. CASE x.kind = "nan"
    BY <2>1 DEF Coded
  <2>2. CASE x.kind = "infinite"
    BY <2>2 DEF Coded
  <2>3. CASE x.kind = "finite" /\ x.m = 0
    BY <2>3 DEF Coded
  <2>4. CASE x.kind = "finite" /\ x.m # 0
    BY <2>4 DEF Coded, code
  <2>. QED  BY <1>1, <2>1, <2>2, <2>3, <2>4
<1>. HIDE DEF y, magnitude
<1>5. WriteDouble(y) = s * WireSign + magnitude
  BY <1>2, <1>3
<1>. QED
  BY <1>4, <1>5 DEF y

\* What is sent can be read.
LEMMA SentReadable ==
  ASSUME NEW c \in Wired, NEW f \in WireFractions
  PROVE  /\ Readable(Sent(c, f)) /\ Readable(Got(c, f))
         /\ Sent(c, f) = NotANumber <=> Got(c, f) = NotANumber
         /\ c # 2 * Bias(WireExponentBits) + 1 <=> Plain(Sent(c, f))
<1>1. Held(Got(c, f)) \/ Got(c, f) = Infinite \/ Got(c, f) = NotANumber
  BY GotIs
<1>2. Readable(Got(c, f)) /\ (c # 2 * Bias(WireExponentBits) + 1 => Got(c, f) # NotANumber)
  <2>1. Held(Got(c, f)) => Plain(Got(c, f)) /\ Got(c, f) # NotANumber
    <3>. SUFFICES ASSUME Held(Got(c, f)) PROVE Plain(Got(c, f)) /\ Got(c, f) # NotANumber
      OBVIOUS
    <3>1. Plain(Got(c, f))
      BY HeldFacts
    <3>2. Got(c, f).kind = "finite"
      BY <3>1, PlainFacts, Zenon
    <3>. QED  BY <3>1, <3>2 DEF NotANumber
  <2>2. Infinite # NotANumber
    <3>1. Infinite.kind = "infinite" /\ NotANumber.kind = "nan"
      BY DEF Infinite, NotANumber
    <3>. QED  BY <3>1
  <2>. QED  BY <1>1, <2>1, <2>2, GotIs DEF Readable
<1>3. c # 2 * Bias(WireExponentBits) + 1 => Plain(Sent(c, f))
  <2>1. CASE c = 0
    BY <2>1, ByExponent, SmallFacts
  <2>2. CASE c # 0 /\ c # 2 * Bias(WireExponentBits) + 1
    BY <2>2, ByExponent, NormalFacts
  <2>3. CASE c = 2 * Bias(WireExponentBits) + 1
    BY <2>3
  <2>. QED  BY <2>1, <2>2, <2>3
<1>4. \A x : Plain(x) => x # NotANumber /\ x # Infinite
  <2>. SUFFICES ASSUME NEW x, Plain(x) PROVE x # NotANumber /\ x # Infinite
    OBVIOUS
  <2>1. x.kind = "finite"
    BY PlainFacts, Zenon
  <2>. QED  BY <2>1 DEF NotANumber, Infinite
<1>5. c = 2 * Bias(WireExponentBits) + 1 =>
        /\ Sent(c, f) = Infinite \/ Sent(c, f) = NotANumber
        /\ Got(c, f) = Sent(c, f)
  BY ByExponent
<1>. QED
  BY <1>2, <1>3, <1>4, <1>5 DEF Readable

\* The fields of the pattern of a NaN.
LEMMA CodedNaN ==
  \E f \in WireFractions :
     /\ f # 0 /\ 2 * Bias(WireExponentBits) + 1 \in Wired
     /\ Coded(NotANumber) = (2 * Bias(WireExponentBits) + 1) * Pow2[WireFractionBits] + f
<1>. DEFINE f == Pow2[WireFractionBits - 1]
            w == WireFractionBits - 1
<1>1. w \in Nat /\ w + 1 = WireFractionBits /\ WireFractionBits \in Nat
  BY FormatFacts
<1>2. f \in Nat \ {0} /\ Pow2[WireFractionBits] = 2 * f
  <2>. HIDE DEF w
  <2>1. Pow2[w] \in Nat \ {0} /\ Pow2[w + 1] = 2 * Pow2[w]
    BY <1>1, Pow2Positive, Pow2Unfolds
  <2>. QED  BY <1>1, <2>1 DEF w
<1>3. f \in WireFractions
  <2>. HIDE DEF f
  <2>. QED  BY <1>2 DEF WireFractions
<1>4. Coded(NotANumber) = WireInfinity + f
  <2>1. NotANumber.kind = "nan"
    BY DEF NotANumber
  <2>. QED  BY <2>1 DEF Coded
<1>5. WireInfinity = (2 * Bias(WireExponentBits) + 1) * Pow2[WireFractionBits]
  BY SignFacts
<1>6. 2 * Bias(WireExponentBits) + 1 \in Wired
  BY SignFacts DEF Wired
<1>. HIDE DEF f
<1>. QED
  BY <1>2, <1>3, <1>4, <1>5, <1>6

\* The parts of RepresentableExact and ResentIsRead: for all patterns, what is read
\* and what is sent back.
LEMMA DoubleExact ==
  ASSUME NEW bits \in Bits, Representable(OnWire(bits))
  PROVE  /\ ReadDouble(TRUE, bits) = OnWire(bits)
         /\ ReadDouble(TRUE, bits).kind # "nan" => WriteDouble(ReadDouble(TRUE, bits)) = bits
<1>1. PICK s \in {0, 1}, c \in Wired, f \in WireFractions : bits = Pattern(s, c, f)
  BY PatternOf DEF Wired
<1>2. OnWire(bits) = Signed(Sent(c, f), s) /\ ReadDouble(TRUE, bits) = Signed(Got(c, f), s)
  BY <1>1, PatternMeans DEF Wired
<1>3. Readable(Sent(c, f))
  BY SentReadable
<1>4. Representable(Sent(c, f))
  BY <1>2, <1>3, SignedFacts
<1>5. Got(c, f) = Sent(c, f)
  BY <1>4, GotExact
<1>6. ASSUME Signed(Sent(c, f), s).kind # "nan" PROVE WriteDouble(Signed(Sent(c, f), s)) = bits
  <2>1. Sent(c, f) # NotANumber
    BY <1>3, <1>6, SignedFacts
  <2>2. Coded(Sent(c, f)) = c * Pow2[WireFractionBits] + f
    BY <1>4, <2>1, CodedSent
  <2>3. WriteDouble(Signed(Sent(c, f), s)) = s * WireSign + Coded(Sent(c, f))
    BY <1>3, WrittenSigned
  <2>. QED  BY <1>1, <2>2, <2>3 DEF Pattern
<1>. QED
  BY <1>2, <1>5, <1>6

\* What a narrow board's double can be.
Native(x) == Held(x) \/ x = Infinite \/ x = NotANumber

\* Every native number, with a sign, is what its bits denote and are read as.
LEMMA NativeSent ==
  ASSUME NEW x, Native(x), NEW s \in {0, 1}
  PROVE  /\ Representable(Signed(x, s))
         /\ WriteDouble(Signed(x, s)) \in Bits
         /\ OnWire(WriteDouble(Signed(x, s))) = Signed(x, s)
         /\ ReadDouble(TRUE, WriteDouble(Signed(x, s))) = Signed(x, s)
<1>3. Readable(x) /\ (Held(x) \/ x = Infinite \/ x = NotANumber)
  BY HeldFacts DEF Native, Readable
<1>4. WriteDouble(Signed(x, s)) = s * WireSign + Coded(x)
  BY <1>3, WrittenSigned
<1>5. Representable(Signed(x, s))
  <2>1. Representable(x)
    <3>1. CASE Held(x)
      BY <3>1 DEF Held
    <3>2. CASE x = Infinite \/ x = NotANumber
      <4>1. x.kind # "finite"
        BY <3>2 DEF Infinite, NotANumber
      <4>. QED  BY <4>1 DEF Representable
    <3>. QED  BY <1>3, <3>1, <3>2
  <2>. QED  BY <1>3, <2>1, SignedFacts
<1>6. \E d \in Wired, g \in WireFractions :
         /\ Coded(x) = d * Pow2[WireFractionBits] + g
         /\ Sent(d, g) = x
  <2>1. CASE Held(x)
    BY <2>1, CodedMeans
  <2>2. CASE x = Infinite
    <3>. DEFINE M == 2 * Bias(WireExponentBits) + 1
    <3>1. M \in Wired /\ 0 \in WireFractions
      BY SignFacts, OneAndZero DEF Wired
    <3>2. Sent(M, 0) = Infinite
      BY <3>1, ByExponent
    <3>3. Coded(Infinite) = WireInfinity
      <4>1. Infinite.kind = "infinite"
        BY DEF Infinite
      <4>. QED  BY <4>1 DEF Coded
    <3>4. WireInfinity = M * Pow2[WireFractionBits] + 0
      BY SignFacts
    <3>. QED  BY <2>2, <3>1, <3>2, <3>3, <3>4
  <2>3. CASE x = NotANumber
    <3>. DEFINE M == 2 * Bias(WireExponentBits) + 1
    <3>1. PICK g \in WireFractions :
             g # 0 /\ M \in Wired /\ Coded(NotANumber) = M * Pow2[WireFractionBits] + g
      BY CodedNaN
    <3>2. Sent(M, g) = NotANumber
      BY <3>1, ByExponent
    <3>. QED  BY <2>3, <3>1, <3>2
  <2>. QED  BY <1>3, <2>1, <2>2, <2>3
<1>7. PICK d \in Wired, g \in WireFractions :
         /\ Coded(x) = d * Pow2[WireFractionBits] + g
         /\ Sent(d, g) = x
  BY <1>6
<1>8. WriteDouble(Signed(x, s)) = Pattern(s, d, g)
  BY <1>4, <1>7 DEF Pattern
<1>9. Pattern(s, d, g) \in Bits /\ OnWire(Pattern(s, d, g)) = Signed(x, s)
  BY <1>7, PatternIs, PatternMeans DEF Wired
<1>10. ReadDouble(TRUE, Pattern(s, d, g)) = Signed(x, s)
  BY <1>5, <1>9, DoubleExact
<1>. QED
  BY <1>5, <1>8, <1>9, <1>10

\* What is read is native, and what is sent back denotes it.
LEMMA DoubleResent ==
  ASSUME NEW bits \in Bits
  PROVE  /\ Representable(ReadDouble(TRUE, bits))
         /\ WriteDouble(ReadDouble(TRUE, bits)) \in Bits
         /\ OnWire(WriteDouble(ReadDouble(TRUE, bits))) = ReadDouble(TRUE, bits)
<1>1. PICK s \in {0, 1}, c \in Wired, f \in WireFractions : bits = Pattern(s, c, f)
  BY PatternOf DEF Wired
<1>2. ReadDouble(TRUE, bits) = Signed(Got(c, f), s)
  BY <1>1, PatternMeans DEF Wired
<1>3. Native(Got(c, f))
  BY GotIs DEF Native
<1>. QED
  BY <1>2, <1>3, NativeSent

----------------------------------------------------------------------------
(* Order *)

\* The order of the scaled values is the one AtMost compares fields for.
LEMMA BelowAtMost ==
  ASSUME NEW x, NEW y, Readable(x), Readable(y), Below(x, y), x # NotANumber,
         NEW s \in {0, 1}, NEW t \in {0, 1}
  PROVE  AtMost(Signed(x, s), Signed(y, t))
<1>. DEFINE u == Signed(x, s)
            v == Signed(y, t)
<1>1. /\ u.kind = x.kind /\ u.m = x.m /\ u.e = x.e
      /\ v.kind = y.kind /\ v.m = y.m /\ v.e = y.e
      /\ (y = Infinite => y.kind = "infinite") /\ (Plain(x) => x.kind = "finite")
  BY SignedFacts
<1>. HIDE DEF u, v
<1>2. CASE y = Infinite
  BY <1>1, <1>2 DEF AtMost, u, v
<1>3. CASE Plain(x) /\ Plain(y) /\ Val(x) <= Val(y)
  <2>1. CASE x.m = 0
    BY <1>1, <1>3, <2>1 DEF AtMost, u, v
  <2>2. CASE x.m # 0
    <3>1. /\ Val(x) \in Nat /\ Val(y) \in Nat /\ x.m \in Nat /\ y.m \in Nat
          /\ x.e \in Int /\ y.e \in Int
          /\ (Val(x) = 0 <=> x.m = 0) /\ (Val(y) = 0 <=> y.m = 0)
      BY <1>3, PlainFacts, Zenon
    <3>2. y.m # 0
      BY <1>3, <2>2, <3>1
    <3>. DEFINE a == Leading(x.m)
                b == Leading(y.m)
                p == a + x.e + Scale
                q == b + y.e + Scale
    <3>3. /\ a \in 0 .. WireFractionBits + 1 /\ p \in Nat
          /\ Pow2[p] <= Val(x)
      BY <1>3, <2>2, ValTop
    <3>4. /\ b \in 0 .. WireFractionBits + 1 /\ q \in Nat
          /\ Val(y) < Pow2[q + 1]
      BY <1>3, <3>2, ValTop
    <3>. HIDE DEF a, b
    <3>5. a + x.e <= b + y.e
      <4>1. p < q + 1
        <5>. HIDE DEF p, q
        <5>1. Pow2[p] \in Nat /\ Pow2[q + 1] \in Nat /\ q + 1 \in Nat
          BY <3>3, <3>4, Pow2Positive
        <5>2. Pow2[p] < Pow2[q + 1]
          BY <1>3, <3>1, <3>3, <3>4, <5>1
        <5>. QED  BY <3>3, <5>1, <5>2, Pow2Grows
      <4>. QED  BY <3>1, <3>3, <3>4, <4>1, ScaleFacts
    <3>6. ASSUME a + x.e = b + y.e
          PROVE  x.m * Pow2[WireFractionBits + 1 - a] <= y.m * Pow2[WireFractionBits + 1 - b]
      <4>. DEFINE w == WireFractionBits + 1
                  c == w - a
                  d == w - b
                  X == x.m * Pow2[c]
                  Y == y.m * Pow2[d]
      <4>1. w \in Nat /\ c \in Nat /\ d \in Nat /\ a \in Int /\ b \in Int
        BY <3>3, <3>4, FormatFacts
      <4>2. x.e + Scale \in Nat /\ y.e + Scale \in Nat /\ Val(x) = x.m * Pow2[x.e + Scale]
            /\ Val(y) = y.m * Pow2[y.e + Scale]
        <5>1. x.e + Scale \in Nat /\ y.e + Scale \in Nat
          BY <1>3, PlainFacts, Zenon
        <5>. QED  BY <5>1 DEF Val
      <4>3. c + p = (x.e + Scale) + w /\ d + p = (y.e + Scale) + w
        BY <3>1, <3>6, <4>1, ScaleFacts
      <4>. HIDE DEF w, c, d, p
      <4>4. Pow2[p] \in Nat \ {0} /\ Pow2[c] \in Nat /\ Pow2[d] \in Nat /\ Pow2[w] \in Nat
        BY <3>3, <4>1, Pow2Positive
      <4>5. Pow2[c] * Pow2[p] = Pow2[x.e + Scale] * Pow2[w]
        <5>1. Pow2[c + p] = Pow2[c] * Pow2[p]
          BY <3>3, <4>1, Pow2Sum
        <5>2. Pow2[(x.e + Scale) + w] = Pow2[x.e + Scale] * Pow2[w]
          BY <4>1, <4>2, Pow2Sum
        <5>. QED  BY <4>3, <5>1, <5>2
      <4>6. Pow2[d] * Pow2[p] = Pow2[y.e + Scale] * Pow2[w]
        <5>1. Pow2[d + p] = Pow2[d] * Pow2[p]
          BY <3>3, <4>1, Pow2Sum
        <5>2. Pow2[(y.e + Scale) + w] = Pow2[y.e + Scale] * Pow2[w]
          BY <4>1, <4>2, Pow2Sum
        <5>. QED  BY <4>3, <5>1, <5>2
      <4>7. Pow2[x.e + Scale] \in Nat /\ Pow2[y.e + Scale] \in Nat
        BY <4>2, Pow2Positive
      <4>8. \A i, j, k \in Nat : (i * j) * k = i * (j * k) /\ i * j \in Nat
        OBVIOUS
      <4>9. X * Pow2[p] = Val(x) * Pow2[w] /\ X \in Nat
        <5>1. (x.m * Pow2[c]) * Pow2[p] = x.m * (Pow2[c] * Pow2[p])
          BY <3>1, <4>4, <4>8
        <5>2. (x.m * Pow2[x.e + Scale]) * Pow2[w] = x.m * (Pow2[x.e + Scale] * Pow2[w])
          BY <3>1, <4>4, <4>7, <4>8
        <5>. QED  BY <3>1, <4>2, <4>4, <4>5, <4>8, <5>1, <5>2
      <4>10. Y * Pow2[p] = Val(y) * Pow2[w] /\ Y \in Nat
        <5>1. (y.m * Pow2[d]) * Pow2[p] = y.m * (Pow2[d] * Pow2[p])
          BY <3>1, <4>4, <4>8
        <5>2. (y.m * Pow2[y.e + Scale]) * Pow2[w] = y.m * (Pow2[y.e + Scale] * Pow2[w])
          BY <3>1, <4>4, <4>7, <4>8
        <5>. QED  BY <3>1, <4>2, <4>4, <4>6, <4>8, <5>1, <5>2
      <4>. HIDE DEF X, Y
      <4>11. Val(x) * Pow2[w] <= Val(y) * Pow2[w]
        <5>1. \A i, j, k \in Nat : i <= j => i * k <= j * k
          OBVIOUS
        <5>. QED  BY <1>3, <3>1, <4>4, <5>1
      <4>12. X <= Y
        BY <4>4, <4>9, <4>10, <4>11, Cancel
      <4>13. c = WireFractionBits + 1 - a /\ d = WireFractionBits + 1 - b
        BY <4>1, FormatFacts DEF c, d, w
      <4>. QED  BY <4>12, <4>13 DEF X, Y
    <3>7. \/ a + x.e < b + y.e
          \/ /\ a + x.e = b + y.e
             /\ x.m * Pow2[WireFractionBits + 1 - a] <= y.m * Pow2[WireFractionBits + 1 - b]
      <4>1. a + x.e \in Int /\ b + y.e \in Int
        BY <3>1, <3>3, <3>4
      <4>2. a + x.e < b + y.e \/ a + x.e = b + y.e
        BY <3>5, <4>1
      <4>. QED  BY <3>6, <4>2
    <3>. QED  BY <1>1, <1>3, <3>2, <3>7 DEF AtMost, a, b, u, v
  <2>. QED  BY <2>1, <2>2
<1>. QED
  BY <1>2, <1>3 DEF Below, u, v

\* A power of two of the wire.
LEMMA PowerPlain ==
  ASSUME NEW j \in Int, j >= - Scale
  PROVE  /\ Plain(Fin(1, j)) /\ Fin(1, j).m = 1 /\ Fin(1, j).e = j /\ Fin(1, j).m # 0
         /\ j + Scale \in Nat /\ Val(Fin(1, j)) = Pow2[j + Scale]
<1>1. 1 \in Nat /\ 1 < Wide /\ 1 % 2 = 1 /\ 1 # 0
  BY ScaleFacts
<1>2. Plain(Fin(1, j)) /\ Fin(1, j).m = 1 /\ Fin(1, j).e = j
  BY <1>1, FinPlain
<1>3. j + Scale \in Nat
  BY ScaleFacts
<1>4. Pow2[j + Scale] \in Nat
  BY <1>3, Pow2Positive
<1>. QED
  BY <1>2, <1>3, <1>4 DEF Val

\* ldexp() of a power of two.
LEMMA LdexpPower ==
  ASSUME NEW j \in Int, NEW k \in Int, j >= - Scale, j + k >= - Scale
  PROVE  Ldexp(Fin(1, j), k) = Rounded(Fin(1, j + k))
<1>1. Plain(Fin(1, j)) /\ Fin(1, j).m = 1 /\ Fin(1, j).e = j
  BY PowerPlain
<1>. DEFINE x == Fin(1, j)
<1>2. Plain(x) /\ x.m = 1 /\ x.e = j /\ x.m # 0 /\ x.e + k >= - Scale
  <2>. HIDE DEF x
  <2>1. 1 # 0
    OBVIOUS
  <2>. QED  BY <1>1, <2>1 DEF x
<1>3. [x EXCEPT !.e = @ + k] = Fin(1, j + k)
  <2>. HIDE DEF x
  <2>1. [x EXCEPT !.e = @ + k] = Fin(x.m, x.e + k)
    BY <1>2, ShiftedValue
  <2>. QED  BY <1>2, <2>1
<1>. HIDE DEF x
<1>4. Ldexp(x, k) = Rounded(Fin(1, j + k))
  BY <1>2, <1>3 DEF Ldexp
<1>. QED
  BY <1>4 DEF x

\* The magnitudes of a pattern and of the next one.
LEMMA NextRead ==
  ASSUME NEW c \in 0 .. 2 * Bias(WireExponentBits), NEW f \in WireFractions
  PROVE  /\ f + 1 \in WireFractions => Below(Got(c, f), Got(c, f + 1))
         /\ c + 1 \in Wired /\ Below(Got(c, f), Got(c + 1, 0))
<1>. DEFINE B == Bias(WireExponentBits)
            M == 2 * B + 1
<1>1. B \in Nat /\ c \in Nat /\ c <= 2 * B /\ c # M /\ c \in Wired /\ c + 1 \in Wired
  <2>1. B \in Nat
    BY SignFacts
  <2>. HIDE DEF B
  <2>2. c \in Nat /\ c <= 2 * B /\ c # 2 * B + 1 /\ c \in 0 .. 2 * B + 1
        /\ c + 1 \in 0 .. 2 * B + 1
    BY <2>1 DEF B
  <2>. QED  BY <2>1, <2>2 DEF Wired, B
<1>2. 0 \in WireFractions /\ OneAnd(0) = Fin(1, 0)
  BY OneAndZero
<1>3. Scale \in Nat /\ - Scale \in Int /\ Scale = B + WireFractionBits - 1
      /\ FractionBits <= WireFractionBits /\ FractionBits \in Nat /\ WireFractionBits \in Nat
      /\ WireFractionBits <= Scale
  BY ScaleFacts, FormatFacts DEF Scale
<1>. HIDE DEF B, M
<1>4. ASSUME NEW h \in WireFractions
      PROVE  /\ Plain(Whole(h)) /\ Plain(OneAnd(h))
             /\ Whole(h).m # 0 => Whole(h).e + (- Scale) >= - Scale
             /\ c # 0 => OneAnd(h).e + (c - B) >= - Scale
  <2>1. Held(Whole(h)) /\ (Whole(h).m # 0 => Whole(h).e >= 0)
    BY WholeFacts
  <2>2. Held(OneAnd(h)) /\ OneAnd(h).e \in Int /\ OneAnd(h).e >= - FractionBits
    BY OneAndFacts
  <2>3. Plain(Whole(h)) /\ Plain(OneAnd(h)) /\ Whole(h).e \in Int
    BY <2>1, <2>2, HeldFacts
  <2>. QED  BY <1>1, <1>3, <2>1, <2>2, <2>3
<1>5. ASSUME f + 1 \in WireFractions PROVE Below(Got(c, f), Got(c, f + 1))
  <2>1. f <= f + 1 /\ f \in Nat
    BY FractionFacts
  <2>2. CASE c = 0
    <3>1. Got(c, f) = Ldexp(Whole(f), - Scale) /\ Got(c, f + 1) = Ldexp(Whole(f + 1), - Scale)
      BY <1>1, <1>5, <2>2, ByExponent
    <3>2. Val(Whole(f)) <= Val(Whole(f + 1))
      BY <1>5, <2>1, WholeFacts
    <3>. QED  BY <1>3, <1>4, <1>5, <3>1, <3>2, LdexpMonotone
  <2>3. CASE c # 0
    <3>1. Got(c, f) = Ldexp(OneAnd(f), c - B) /\ Got(c, f + 1) = Ldexp(OneAnd(f + 1), c - B)
      BY <1>1, <1>5, <2>3, ByExponent DEF B, M
    <3>2. Val(OneAnd(f)) <= Val(OneAnd(f + 1))
      BY <1>5, <2>1, OneAndFacts
    <3>3. c - B \in Int
      BY <1>1
    <3>. QED  BY <1>4, <1>5, <2>3, <3>1, <3>2, <3>3, LdexpMonotone
  <2>. QED  BY <2>2, <2>3
<1>6. c + 1 = M => Got(c + 1, 0) = Infinite
  BY <1>1, <1>2, ByExponent DEF B, M
<1>7. ASSUME c + 1 # M PROVE Got(c + 1, 0) = Rounded(Fin(1, c + 1 - B))
  <2>1. c + 1 # 0 /\ c + 1 - B \in Int /\ 0 + (c + 1 - B) = c + 1 - B
        /\ c + 1 - B >= - Scale /\ 0 >= - Scale /\ 0 \in Int
    BY <1>1, <1>3
  <2>2. Got(c + 1, 0) = Ldexp(Fin(1, 0), c + 1 - B)
    BY <1>1, <1>2, <1>7, <2>1, ByExponent DEF B, M
  <2>3. Ldexp(Fin(1, 0), c + 1 - B) = Rounded(Fin(1, 0 + (c + 1 - B)))
    BY <2>1, LdexpPower
  <2>. QED  BY <2>1, <2>2, <2>3
<1>8. Below(Got(c, f), Rounded(Fin(1, c + 1 - B)))
  <2>1. CASE c = 0
    <3>. DEFINE y == Fin(1, WireFractionBits)
    <3>1. Got(c, f) = Ldexp(Whole(f), - Scale)
      BY <1>1, <2>1, ByExponent
    <3>2. /\ Plain(y) /\ Val(y) = Pow2[WireFractionBits + Scale]
          /\ y.m = 1 /\ y.e = WireFractionBits
      <4>1. WireFractionBits \in Int /\ WireFractionBits >= - Scale
        BY <1>3
      <4>. QED  BY <4>1, PowerPlain
    <3>3. Val(Whole(f)) <= Val(y)
      BY <3>2, WholeFacts
    <3>4. y.e + (- Scale) >= - Scale
      BY <1>3, <3>2
    <3>5. Below(Ldexp(Whole(f), - Scale), Ldexp(y, - Scale))
      <4>. HIDE DEF y
      <4>. QED  BY <1>3, <1>4, <3>2, <3>3, <3>4, LdexpMonotone
    <3>6. Ldexp(y, - Scale) = Rounded(Fin(1, c + 1 - B))
      <4>1. /\ WireFractionBits \in Int /\ WireFractionBits >= - Scale
            /\ WireFractionBits + (- Scale) = c + 1 - B
            /\ WireFractionBits + (- Scale) >= - Scale
        BY <1>1, <1>3, <2>1
      <4>2. Ldexp(y, - Scale) = Rounded(Fin(1, WireFractionBits + (- Scale)))
        BY <1>3, <4>1, LdexpPower
      <4>. QED  BY <4>1, <4>2
    <3>. QED  BY <3>1, <3>5, <3>6
  <2>2. CASE c # 0
    <3>1. Got(c, f) = Ldexp(OneAnd(f), c - B)
      BY <1>1, <2>2, ByExponent DEF B, M
    <3>2. /\ 1 \in Int /\ 1 >= - Scale /\ c - B \in Int /\ 1 + (c - B) = c + 1 - B
          /\ 1 + (c - B) >= - Scale
      BY <1>1, <1>3
    <3>3. Plain(Fin(1, 1)) /\ Fin(1, 1).e + (c - B) >= - Scale
      <4>1. Plain(Fin(1, 1)) /\ Fin(1, 1).e = 1
        BY <3>2, PowerPlain
      <4>. QED  BY <3>2, <4>1
    <3>4. Val(OneAnd(f)) <= Val(Fin(1, 1))
      BY OneAndFacts
    <3>5. Below(Ldexp(OneAnd(f), c - B), Ldexp(Fin(1, 1), c - B))
      BY <1>4, <2>2, <3>2, <3>3, <3>4, LdexpMonotone
    <3>6. Ldexp(Fin(1, 1), c - B) = Rounded(Fin(1, 1 + (c - B)))
      BY <3>2, LdexpPower
    <3>. QED  BY <3>1, <3>2, <3>5, <3>6
  <2>. QED  BY <2>1, <2>2
<1>9. Below(Got(c, f), Got(c + 1, 0))
  <2>1. CASE c + 1 = M
    BY <1>6, <2>1 DEF Below
  <2>2. CASE c + 1 # M
    BY <1>7, <1>8, <2>2
  <2>. QED  BY <2>1, <2>2
<1>. QED
  BY <1>1, <1>5, <1>9

\* OrderKept, of all patterns.
LEMMA DoubleOrder ==
  ASSUME NEW bits \in Bits
  PROVE  /\ ReadDouble(TRUE, bits).negative = OnWire(bits).negative
         /\ OnWire(bits).kind = "finite" =>
              AtMost(ReadDouble(TRUE, bits), ReadDouble(TRUE, bits + 1))
<1>1. PICK s \in {0, 1}, c \in Wired, f \in WireFractions : bits = Pattern(s, c, f)
  BY PatternOf DEF Wired
<1>2. OnWire(bits) = Signed(Sent(c, f), s) /\ ReadDouble(TRUE, bits) = Signed(Got(c, f), s)
  BY <1>1, PatternMeans DEF Wired
<1>3. Readable(Sent(c, f)) /\ Readable(Got(c, f))
  BY SentReadable
<1>4. ReadDouble(TRUE, bits).negative = OnWire(bits).negative
  <2>1. Signed(Sent(c, f), s).negative = (s = 1) /\ Signed(Got(c, f), s).negative = (s = 1)
    BY <1>3, SignedFacts, Zenon
  <2>. QED  BY <1>2, <2>1, Zenon
<1>5. ASSUME OnWire(bits).kind = "finite"
      PROVE  AtMost(ReadDouble(TRUE, bits), ReadDouble(TRUE, bits + 1))
  <2>1. Plain(Sent(c, f))
    BY <1>2, <1>3, <1>5, SignedFacts
  <2>2. c # 2 * Bias(WireExponentBits) + 1 /\ Got(c, f) # NotANumber
    <3>1. c # 2 * Bias(WireExponentBits) + 1
      BY <2>1, SentReadable
    <3>2. Held(Got(c, f)) \/ Got(c, f) = Infinite
      BY <3>1, GotIs
    <3>3. Held(Got(c, f)) => Got(c, f).kind = "finite"
      <4>1. Held(Got(c, f)) => Plain(Got(c, f))
        BY HeldFacts
      <4>2. Plain(Got(c, f)) => Got(c, f).kind = "finite"
        BY PlainFacts, Zenon
      <4>. QED  BY <4>1, <4>2
    <3>. QED  BY <3>1, <3>2, <3>3 DEF NotANumber, Infinite
  <2>3. c \in 0 .. 2 * Bias(WireExponentBits)
    BY <2>2, SignFacts DEF Wired
  <2>4. ASSUME NEW d \in Wired, NEW g \in WireFractions, bits + 1 = Pattern(s, d, g),
               Below(Got(c, f), Got(d, g))
        PROVE  AtMost(ReadDouble(TRUE, bits), ReadDouble(TRUE, bits + 1))
    <3>1. ReadDouble(TRUE, bits + 1) = Signed(Got(d, g), s)
      BY <2>4, PatternMeans DEF Wired
    <3>2. Readable(Got(d, g))
      BY SentReadable
    <3>. QED  BY <1>2, <1>3, <2>2, <2>4, <3>1, <3>2, BelowAtMost
  <2>5. f \in Nat /\ f < Pow2[WireFractionBits] /\ Pow2[WireFractionBits] \in Nat \ {0}
        /\ WireSign \in Nat /\ s \in Nat /\ c \in Nat
    BY FractionFacts, SignFacts DEF Wired
  <2>6. CASE f + 1 \in WireFractions
    <3>1. bits + 1 = Pattern(s, c, f + 1)
      <4>1. s * WireSign \in Nat /\ c * Pow2[WireFractionBits] \in Nat
        BY <2>5
      <4>. QED  BY <1>1, <2>5, <4>1 DEF Pattern
    <3>. QED  BY <2>3, <2>4, <2>6, <3>1, NextRead
  <2>7. CASE f + 1 \notin WireFractions
    <3>1. f + 1 = Pow2[WireFractionBits]
      BY <2>5, <2>7 DEF WireFractions
    <3>2. bits + 1 = Pattern(s, c + 1, 0)
      <4>1. s * WireSign \in Nat /\ c * Pow2[WireFractionBits] \in Nat
        BY <2>5
      <4>2. (c + 1) * Pow2[WireFractionBits] = c * Pow2[WireFractionBits] + Pow2[WireFractionBits]
        BY <2>5
      <4>. QED  BY <1>1, <2>5, <3>1, <4>1, <4>2 DEF Pattern
    <3>3. 0 \in WireFractions
      BY OneAndZero
    <3>. QED  BY <2>3, <2>4, <3>2, <3>3, NextRead
  <2>. QED  BY <2>6, <2>7
<1>. QED
  BY <1>4, <1>5

\* Beyond the largest native exponent ldexp() overflows, below it never does.
LEMMA RoundedPower ==
  ASSUME NEW x, Plain(x), x.m # 0
  PROVE  /\ Val(x) >= Top => Rounded(x) = Infinite
         /\ Val(x) <= Pow2[Bias(ExponentBits) + Scale] => Held(Rounded(x))
<1>1. Bias(ExponentBits) \in Int /\ 1 - Bias(ExponentBits) - FractionBits <= Bias(ExponentBits)
  BY FormatFacts
<1>2. ASSUME Val(x) <= Pow2[Bias(ExponentBits) + Scale] PROVE Held(Rounded(x))
  <2>. DEFINE y == Fin(1, Bias(ExponentBits))
  <2>1. Held(y) /\ Val(y) = Pow2[Bias(ExponentBits) + Scale]
    BY <1>1, PowerHeld
  <2>. HIDE DEF y
  <2>2. Rounded(y) = y /\ Plain(y) /\ y # Infinite
    BY <2>1, RoundedHeld, HeldFacts
  <2>3. Below(Rounded(x), y)
    BY <1>2, <2>1, <2>2, RoundedMonotone
  <2>4. Rounded(x) # Infinite
    BY <2>2, <2>3, InfinitePlain DEF Below
  <2>. QED  BY <2>4, RoundedIs
<1>3. ASSUME Val(x) >= Top PROVE Rounded(x) = Infinite
  <2>. DEFINE p == Bias(ExponentBits) + 1 + Scale
              g == Grid(x) + Scale
  <2>1. p \in Nat /\ g \in Nat /\ Val(x) \in Nat /\ Top = Pow2[p]
    <3>1. Val(x) \in Nat
      BY PlainFacts, Zenon
    <3>2. p \in Nat
      BY FormatFacts, ScaleFacts
    <3>3. g \in Nat
      BY GridFacts
    <3>. QED  BY <3>1, <3>2, <3>3 DEF Top
  <2>2. Nearest(Val(x), Pow2[g]) >= Top
    <3>1. CASE g <= p
      <4>. HIDE DEF g, p
      <4>. QED  BY <1>3, <2>1, <3>1, NearestPower
    <3>2. CASE g > p
      \* The grid is not wider than the number, but for numbers below the format.
      <4>1. /\ Leading(x.m) \in Nat /\ x.e \in Int
            /\ Grid(x) = IF Leading(x.m) + x.e >= 1 - Bias(ExponentBits)
                         THEN (Leading(x.m) + x.e) - FractionBits
                         ELSE 1 - Bias(ExponentBits) - FractionBits
        BY GridFacts
      <4>2. g <= Leading(x.m) + x.e + Scale
        BY <2>1, <3>2, <4>1, FormatFacts, ScaleFacts
      <4>. DEFINE t == Leading(x.m) + x.e + Scale
      <4>3. t \in Nat /\ Pow2[t] <= Val(x)
        BY ValTop
      <4>. HIDE DEF t, g, p
      <4>4. g <= t
        BY <4>2 DEF t
      <4>5. Pow2[t] <= Nearest(Val(x), Pow2[g])
        BY <2>1, <4>3, <4>4, NearestPower
      <4>6. Pow2[p] <= Pow2[t]
        <5>1. p <= t
          BY <2>1, <3>2, <4>3, <4>4
        <5>. QED  BY <2>1, <4>3, <5>1, Pow2Grows
      <4>7. Pow2[p] \in Nat /\ Pow2[t] \in Nat /\ Nearest(Val(x), Pow2[g]) \in Nat
        <5>1. Pow2[g] \in Nat \ {0}
          BY <2>1, Pow2Positive
        <5>2. Val(x) <= Val(x)
          BY <2>1
        <5>3. Nearest(Val(x), Pow2[g]) \in Nat
          BY <2>1, <5>1, <5>2, NearestMonotone
        <5>. QED  BY <2>1, <4>3, <5>3, Pow2Positive
      <4>. QED  BY <2>1, <4>5, <4>6, <4>7
    <3>. QED  BY <2>1, <3>1, <3>2
  <2>. QED  BY <2>2, RoundedValue DEF g
<1>. QED
  BY <1>2, <1>3

\* BeyondRangeInfinite, of all patterns.
LEMMA GotBeyond ==
  ASSUME NEW c \in Wired, NEW f \in WireFractions, c # 2 * Bias(WireExponentBits) + 1,
         Sent(c, f).m # 0
  PROVE  LET top == Leading(Sent(c, f).m) + Sent(c, f).e
         IN /\ top > Bias(ExponentBits) => Got(c, f) = Infinite
            /\ top < Bias(ExponentBits) => Held(Got(c, f))
<1>. DEFINE B == Bias(WireExponentBits)
            M == 2 * B + 1
            top == Leading(Sent(c, f).m) + Sent(c, f).e
<1>1. Scale \in Nat /\ - Scale \in Int /\ Scale = B + WireFractionBits - 1
      /\ FractionBits <= WireFractionBits /\ FractionBits \in Nat /\ WireFractionBits \in Nat
      /\ B \in Nat /\ c \in Nat /\ Bias(ExponentBits) \in Nat
      /\ WireFractionBits + 2 <= Bias(ExponentBits) /\ WireFractionBits <= Scale
  BY ScaleFacts, FormatFacts DEF Scale, Wired
<1>2. Bias(ExponentBits) + Scale \in Nat /\ Pow2[Bias(ExponentBits) + Scale] \in Nat
  <2>1. Bias(ExponentBits) + Scale \in Nat
    BY <1>1
  <2>. QED  BY <2>1, Pow2Positive
<1>. HIDE DEF B
\* ldexp() of a number below a power of two that is in range.
<1>3. ASSUME NEW x, Held(x), NEW k \in Int, NEW j \in Int, x.m # 0 => x.e + k >= - Scale,
             j >= - Scale, j + k >= - Scale, j + k <= Bias(ExponentBits),
             Val(x) <= Val(Fin(1, j))
      PROVE  Held(Ldexp(x, k))
  <2>. DEFINE y == Fin(1, j)
  <2>1. Plain(x) /\ Plain(y) /\ y.e = j
    BY <1>3, HeldFacts, PowerPlain
  <2>2. Ldexp(y, k) = Rounded(Fin(1, j + k))
    BY <1>3, LdexpPower
  <2>3. /\ Plain(Fin(1, j + k)) /\ Fin(1, j + k).m # 0
        /\ Val(Fin(1, j + k)) = Pow2[j + k + Scale] /\ j + k + Scale \in Nat
    <3>1. j + k \in Int
      BY <1>3
    <3>. QED  BY <1>3, <3>1, PowerPlain
  <2>4. Pow2[j + k + Scale] <= Pow2[Bias(ExponentBits) + Scale]
    <3>1. j + k + Scale <= Bias(ExponentBits) + Scale
      BY <1>1, <1>3
    <3>. QED  BY <1>2, <2>3, <3>1, Pow2Grows
  <2>5. Held(Ldexp(y, k))
    BY <2>2, <2>3, <2>4, RoundedPower
  <2>6. Below(Ldexp(x, k), Ldexp(y, k))
    <3>1. y.m # 0 => y.e + k >= - Scale
      BY <1>3, <2>1
    <3>. HIDE DEF y
    <3>. QED  BY <1>3, <2>1, <3>1, LdexpMonotone DEF y
  <2>7. Ldexp(x, k) # Infinite
    BY <2>5, <2>6, HeldFacts, InfinitePlain DEF Below
  <2>8. CASE x.m = 0
    BY <1>3, <2>8 DEF Ldexp
  <2>9. CASE x.m # 0
    <3>1. [x EXCEPT !.e = @ + k] = Fin(x.m, x.e + k) /\ Plain(Fin(x.m, x.e + k))
      BY <1>3, <2>1, <2>9, ShiftedValue
    <3>2. Ldexp(x, k) = Rounded(Fin(x.m, x.e + k))
      BY <2>9, <3>1 DEF Ldexp
    <3>. QED  BY <2>7, <3>1, <3>2, RoundedIs
  <2>. QED  BY <2>8, <2>9
<1>4. CASE c = 0
  <2>1. Sent(c, f) = Small(f) /\ Got(c, f) = Ldexp(Whole(f), - Scale)
    BY <1>4, ByExponent
  <2>2. top < 1 - Bias(ExponentBits) - FractionBits /\ top \in Int
    <3>1. f # 0
      <4>. SUFFICES ASSUME f = 0 PROVE FALSE
        OBVIOUS
      <4>1. Small(f) = Fin(0, 0)
        BY SmallFacts
      <4>. QED  BY <2>1, <4>1, WholeZero
    <3>2. Plain(Small(f)) /\ Small(f).m # 0
      BY <3>1, SmallFacts
    <3>3. Leading(Small(f).m) \in Nat
      BY <3>2, ValTop
    <3>4. Small(f).e \in Int
      BY <3>2, PlainFacts, Zenon
    <3>. QED  BY <2>1, <3>1, <3>3, <3>4, SmallFacts
  <2>3. ~(top > Bias(ExponentBits))
    BY <1>1, <2>2
  <2>4. Held(Ldexp(Whole(f), - Scale))
    <3>1. /\ Held(Whole(f)) /\ (Whole(f).m # 0 => Whole(f).e >= 0)
          /\ Val(Whole(f)) <= Pow2[WireFractionBits + Scale]
      BY WholeFacts
    <3>2. /\ WireFractionBits \in Int /\ WireFractionBits >= - Scale
          /\ WireFractionBits + (- Scale) >= - Scale
          /\ WireFractionBits + (- Scale) <= Bias(ExponentBits)
      BY <1>1
    <3>3. Val(Fin(1, WireFractionBits)) = Pow2[WireFractionBits + Scale]
      BY <3>2, PowerPlain
    <3>4. Whole(f).m # 0 => Whole(f).e + (- Scale) >= - Scale
      <4>1. Whole(f).e \in Int
        BY <3>1, HeldFacts
      <4>. QED  BY <1>1, <3>1, <4>1
    <3>. QED  BY <1>1, <1>3, <3>1, <3>2, <3>3, <3>4
  <2>. QED  BY <2>1, <2>3, <2>4
<1>5. CASE c # 0
  <2>. DEFINE o == OneAnd(f)
              d == c - B
  <2>1. /\ c \in Exponents /\ Sent(c, f) = Normal(c, f) /\ Got(c, f) = Ldexp(o, d)
    BY <1>5, ByExponent DEF B
  <2>2. top = d /\ d \in Int
    <3>1. PICK q \in Nat, k \in Nat :
             Normal(c, f).m = q /\ Leading(q) + Normal(c, f).e = d
      BY <2>1, NormalFacts DEF B
    <3>. QED  BY <1>1, <2>1, <3>1
  <2>3. /\ Held(o) /\ o.m # 0 /\ o.e \in Int /\ o.e + d >= - Scale
        /\ Val(Fin(1, 0)) <= Val(o) /\ Val(o) <= Val(Fin(1, 1))
    <3>1. /\ Held(o) /\ o.m # 0 /\ o.e \in Int /\ o.e >= - FractionBits
          /\ Val(Fin(1, 0)) <= Val(o) /\ Val(o) <= Val(Fin(1, 1))
      BY OneAndFacts
    <3>. QED  BY <1>1, <1>5, <3>1
  <2>. HIDE DEF o
  <2>4. ASSUME d < Bias(ExponentBits) PROVE Held(Ldexp(o, d))
    <3>1. 1 \in Int /\ 1 >= - Scale /\ 1 + d >= - Scale /\ 1 + d <= Bias(ExponentBits)
      BY <1>1, <1>5, <2>2, <2>4
    <3>. QED  BY <1>3, <2>2, <2>3, <3>1
  <2>5. ASSUME d > Bias(ExponentBits) PROVE Ldexp(o, d) = Infinite
    <3>. DEFINE x == Fin(1, 0)
    <3>1. 0 \in Int /\ 0 >= - Scale /\ 0 + d = d /\ d >= - Scale
      BY <1>1, <1>5, <2>2, <2>5
    <3>2. Plain(x) /\ x.e = 0
      BY <3>1, PowerPlain
    <3>3. Ldexp(x, d) = Rounded(Fin(1, d))
      <4>1. Ldexp(x, d) = Rounded(Fin(1, 0 + d))
        BY <2>2, <3>1, LdexpPower
      <4>. QED  BY <3>1, <4>1
    <3>4. Plain(Fin(1, d)) /\ Fin(1, d).m # 0 /\ Val(Fin(1, d)) = Pow2[d + Scale]
          /\ d + Scale \in Nat
      BY <2>2, <3>1, PowerPlain
    <3>5. Val(Fin(1, d)) >= Top
      <4>. DEFINE p == Bias(ExponentBits) + 1 + Scale
                  t == d + Scale
      <4>1. p \in Nat /\ p <= t /\ t \in Nat
        BY <1>1, <2>2, <2>5, <3>4
      <4>2. Pow2[p] <= Pow2[t] /\ Pow2[p] \in Nat /\ Pow2[t] \in Nat
        <5>. HIDE DEF p, t
        <5>. QED  BY <4>1, Pow2Grows, Pow2Positive
      <4>. QED  BY <3>4, <4>2 DEF Top
    <3>6. Ldexp(x, d) = Infinite
      BY <3>3, <3>4, <3>5, RoundedPower
    <3>7. Below(Ldexp(x, d), Ldexp(o, d))
      <4>1. Plain(o)
        BY <2>3, HeldFacts
      <4>2. x.m # 0 => x.e + d >= - Scale
        BY <3>1, <3>2
      <4>. HIDE DEF x
      <4>. QED  BY <2>2, <2>3, <3>2, <4>1, <4>2, LdexpMonotone DEF x
    <3>. QED  BY <3>6, <3>7, InfinitePlain DEF Below
  <2>. QED  BY <2>1, <2>2, <2>4, <2>5
<1>. QED
  BY <1>4, <1>5

\* BeyondRangeInfinite, of all patterns.
LEMMA DoubleBeyond ==
  ASSUME NEW bits \in Bits, OnWire(bits).kind = "finite", OnWire(bits).m # 0
  PROVE  LET top == Leading(OnWire(bits).m) + OnWire(bits).e
         IN /\ top > Bias(ExponentBits) => ReadDouble(TRUE, bits).kind = "infinite"
            /\ top < Bias(ExponentBits) => ReadDouble(TRUE, bits).kind = "finite"
<1>1. PICK s \in {0, 1}, c \in Wired, f \in WireFractions : bits = Pattern(s, c, f)
  BY PatternOf DEF Wired
<1>2. OnWire(bits) = Signed(Sent(c, f), s) /\ ReadDouble(TRUE, bits) = Signed(Got(c, f), s)
  BY <1>1, PatternMeans DEF Wired
<1>3. Readable(Sent(c, f)) /\ Readable(Got(c, f))
  BY SentReadable
<1>4. /\ OnWire(bits).kind = Sent(c, f).kind /\ OnWire(bits).m = Sent(c, f).m
      /\ OnWire(bits).e = Sent(c, f).e
      /\ ReadDouble(TRUE, bits).kind = Got(c, f).kind
  <2>. DEFINE x == Sent(c, f)
              y == Got(c, f)
  <2>1. Signed(x, s).kind = x.kind /\ Signed(x, s).m = x.m /\ Signed(x, s).e = x.e
    BY <1>3, SignedFacts, Zenon
  <2>2. Signed(y, s).kind = y.kind
    BY <1>3, SignedFacts, Zenon
  <2>. QED  BY <1>2, <2>1, <2>2
<1>5. c # 2 * Bias(WireExponentBits) + 1
  <2>1. Plain(Sent(c, f))
    BY <1>3, <1>4, SignedFacts
  <2>. QED  BY <2>1, SentReadable
<1>6. LET top == Leading(Sent(c, f).m) + Sent(c, f).e
      IN /\ top > Bias(ExponentBits) => Got(c, f) = Infinite
         /\ top < Bias(ExponentBits) => Held(Got(c, f))
  BY <1>4, <1>5, GotBeyond
<1>7. /\ Got(c, f) = Infinite => Got(c, f).kind = "infinite"
      /\ Held(Got(c, f)) => Got(c, f).kind = "finite"
  <2>1. Held(Got(c, f)) => Plain(Got(c, f))
    BY HeldFacts
  <2>2. Plain(Got(c, f)) => Got(c, f).kind = "finite"
    BY PlainFacts, Zenon
  <2>. QED  BY <2>1, <2>2 DEF Infinite
<1>. QED
  BY <1>4, <1>6, <1>7

----------------------------------------------------------------------------
(* Telemetry samples *)

\* The bytes of a field of a sample.
FieldWidth(topic) == IF topic = "MOTOR_FAULTS" THEN 1 ELSE DoubleBytes

\* The decoder's offsets, the sizes of the topics and the order of the fields agree.
LEMMA LayoutFacts ==
  ASSUME NEW topic \in Topics
  PROVE  /\ Len(SampleFields[topic]) \in Nat
         /\ DOMAIN SampleFields[topic] = 1 .. Len(SampleFields[topic])
         /\ DOMAIN Offsets[topic] = Fields(topic)
         /\ TopicSize[topic] = 10 + FieldWidth(topic) * Len(SampleFields[topic])
         /\ \A i \in DOMAIN SampleFields[topic] :
              Offsets[topic][SampleFields[topic][i]] = 10 + FieldWidth(topic) * (i - 1)
<1>1. CASE topic = "ENCODER_ODOMETRY"
  <2>1. /\ SampleFields[topic] = <<"angle">>
        /\ Offsets[topic] = [angle |-> 10]
        /\ TopicSize[topic] = 18 /\ FieldWidth(topic) = 8
    BY <1>1 DEF SampleFields, Offsets, TopicSize, FieldWidth, DoubleBytes
  <2>. QED  BY <2>1 DEF Fields
<1>2. CASE topic = "PLATFORM_ODOMETRY"
  <2>1. /\ SampleFields[topic] = <<"x", "y", "t">>
        /\ Offsets[topic] = [x |-> 10, y |-> 18, t |-> 26]
        /\ TopicSize[topic] = 34 /\ FieldWidth(topic) = 8
    BY <1>2 DEF SampleFields, Offsets, PlatformOffsets, TopicSize, FieldWidth, DoubleBytes
  <2>. QED  BY <2>1 DEF Fields
<1>3. CASE topic = "TEMPERATURE"
  <2>1. /\ SampleFields[topic] = <<"celsius">>
        /\ Offsets[topic] = [celsius |-> 10]
        /\ TopicSize[topic] = 18 /\ FieldWidth(topic) = 8
    BY <1>3 DEF SampleFields, Offsets, TopicSize, FieldWidth, DoubleBytes
  <2>. QED  BY <2>1 DEF Fields
<1>4. CASE topic = "IMU"
  <2>1. /\ SampleFields[topic] = <<"acceleration_x", "acceleration_y", "acceleration_z",
             "angular_velocity_x", "angular_velocity_y", "angular_velocity_z">>
        /\ Offsets[topic] = [acceleration_x |-> 10, acceleration_y |-> 18, acceleration_z |-> 26,
            angular_velocity_x |-> 34, angular_velocity_y |-> 42, angular_velocity_z |-> 50]
        /\ TopicSize[topic] = 58 /\ FieldWidth(topic) = 8
    BY <1>4 DEF SampleFields, Offsets, TopicSize, FieldWidth, DoubleBytes
  <2>. QED  BY <2>1 DEF Fields
<1>5. CASE topic = "MOTOR_CURRENT"
  <2>1. /\ SampleFields[topic] = <<"amps">>
        /\ Offsets[topic] = [amps |-> 10]
        /\ TopicSize[topic] = 18 /\ FieldWidth(topic) = 8
    BY <1>5 DEF SampleFields, Offsets, TopicSize, FieldWidth, DoubleBytes
  <2>. QED  BY <2>1 DEF Fields
<1>6. CASE topic = "MOTOR_FAULTS"
  <2>1. /\ SampleFields[topic] = <<"sleep_requested", "status_valid", "fault_active",
                      "overtemperature_warning", "undervoltage",
                      "charge_pump_undervoltage", "overcurrent",
                      "overtemperature_shutdown", "open_load", "current_regulation">>
        /\ Offsets[topic] = [sleep_requested |-> 10, status_valid |-> 11, fault_active |-> 12,
                     overtemperature_warning |-> 13, undervoltage |-> 14,
                     charge_pump_undervoltage |-> 15, overcurrent |-> 16,
                     overtemperature_shutdown |-> 17, open_load |-> 18,
                     current_regulation |-> 19]
        /\ TopicSize[topic] = 20 /\ FieldWidth(topic) = 1
    BY <1>6 DEF SampleFields, Offsets, TopicSize, FieldWidth
  <2>. QED  BY <2>1 DEF Fields
<1>. QED
  BY <1>1, <1>2, <1>3, <1>4, <1>5, <1>6 DEF Topics

\* The widths of the fields of a sample.
LEMMA WidthFacts ==
  ASSUME NEW topic \in Topics
  PROVE  /\ FieldWidth(topic) \in Nat \ {0}
         /\ topic = "MOTOR_FAULTS" => FieldWidth(topic) = 1
         /\ topic # "MOTOR_FAULTS" => FieldWidth(topic) = 8
         /\ Len(SampleFields[topic]) \in Nat
BY LayoutFacts DEF FieldWidth, DoubleBytes

\* Bits fit into the eight bytes of a double.
LEMMA BitsFit ==
  ASSUME NEW bits \in Bits
  PROVE  bits \in Nat /\ bits < Pow2[ByteBits * DoubleBytes]
<1>1. WireExponentBits + WireFractionBits \in Nat /\ ByteBits \in Nat
  BY FormatFacts, ByteFacts
<1>2. ByteBits * DoubleBytes = (WireExponentBits + WireFractionBits) + 1
  <2>1. DoubleBytes * ByteBits = 1 + WireExponentBits + WireFractionBits
    BY FormatAssumption
  <2>2. WireExponentBits \in Nat /\ WireFractionBits \in Nat
    BY FormatFacts
  <2>. QED  BY <1>1, <2>1, <2>2 DEF DoubleBytes
<1>3. Pow2[(WireExponentBits + WireFractionBits) + 1] = 2 * WireSign
  BY <1>1, Pow2Unfolds DEF WireSign
<1>4. WireSign \in Nat
  BY SignFacts
<1>. QED
  BY <1>2, <1>3, <1>4 DEF Bits

\* A sample of the constants, in the terms the proofs use.
LEMMA SampleFacts ==
  ASSUME NEW s \in Samples
  PROVE  /\ s.topic \in Topics
         /\ s.timestamp_us \in Nat /\ s.timestamp_us < Pow2[ByteBits * 8]
         /\ s.clock_mode \in Nat /\ s.clock_quality \in Nat
         /\ DOMAIN s.data = Fields(s.topic)
         /\ \A f \in Fields(s.topic) :
              /\ s.data[f] \in Nat
              /\ s.topic = "MOTOR_FAULTS" => s.data[f] < ByteBase
              /\ s.topic # "MOTOR_FAULTS" => s.data[f] \in Bits
<1>1. ByteBits \in Nat /\ 8 * ByteBits = ByteBits * 8 /\ ByteBase \in Nat
  BY ByteFacts
<1>2. Pow2[ByteBits * 8] \in Nat
  BY <1>1, Pow2Positive
<1>3. \A b \in Bits : b \in Nat
  BY BitsFit
<1>. QED
  BY <1>1, <1>2, <1>3, SamplesAssumption

\* The bytes of a packed sample.
LEMMA PackedFacts ==
  ASSUME NEW s \in Samples
  PROVE  /\ DOMAIN Packed(s) = 0 .. TopicSize[s.topic] - 1
         /\ \A b \in 0 .. 7 : Packed(s)[b] = WriteUnsigned(s.timestamp_us, 8)[b]
         /\ Packed(s)[8] = s.clock_mode /\ Packed(s)[9] = s.clock_quality
         /\ \A i \in DOMAIN SampleFields[s.topic], j \in 0 .. FieldWidth(s.topic) - 1 :
              /\ 10 + FieldWidth(s.topic) * (i - 1) + j \in 10 .. TopicSize[s.topic] - 1
              /\ Packed(s)[10 + FieldWidth(s.topic) * (i - 1) + j]
                  = WriteUnsigned(s.data[SampleFields[s.topic][i]], FieldWidth(s.topic))[j]
<1>. DEFINE w == FieldWidth(s.topic)
            fields == SampleFields[s.topic]
            n == Len(fields)
            Field(i) == s.data[fields[i]]
<1>1. /\ s.topic \in Topics /\ w \in Nat \ {0} /\ n \in Nat /\ DOMAIN fields = 1 .. n
      /\ TopicSize[s.topic] = 10 + w * n
  BY SampleFacts, LayoutFacts, WidthFacts
<1>2. Packed(s) = [b \in 0 .. 9 + w * n |->
        CASE b <= 7 -> WriteUnsigned(s.timestamp_us, 8)[b]
          [] b = 8 -> s.clock_mode
          [] b = 9 -> s.clock_quality
          [] OTHER -> WriteUnsigned(Field((b - 10) \div w + 1), w)[(b - 10) % w]]
  BY DEF Packed, FieldWidth
<1>3. w * n \in Nat
  BY <1>1
<1>. HIDE DEF w, n
<1>. DEFINE At(b) ==
        CASE b <= 7 -> WriteUnsigned(s.timestamp_us, 8)[b]
          [] b = 8 -> s.clock_mode
          [] b = 9 -> s.clock_quality
          [] OTHER -> WriteUnsigned(Field((b - 10) \div w + 1), w)[(b - 10) % w]
<1>4. \A b \in 0 .. 9 + w * n : Packed(s)[b] = At(b)
  BY <1>2
<1>5. DOMAIN Packed(s) = 0 .. TopicSize[s.topic] - 1
  BY <1>1, <1>2, <1>3
<1>6. ASSUME NEW b \in 0 .. 7 PROVE Packed(s)[b] = WriteUnsigned(s.timestamp_us, 8)[b]
  <2>1. b \in 0 .. 9 + w * n /\ b <= 7 /\ b # 8 /\ b # 9
    BY <1>3
  <2>2. At(b) = WriteUnsigned(s.timestamp_us, 8)[b]
    BY <2>1
  <2>. QED  BY <1>4, <2>1, <2>2
<1>7. Packed(s)[8] = s.clock_mode /\ Packed(s)[9] = s.clock_quality
  <2>1. 8 \in 0 .. 9 + w * n /\ 9 \in 0 .. 9 + w * n /\ ~(8 <= 7) /\ ~(9 <= 7) /\ 9 # 8
    BY <1>3
  <2>2. At(8) = s.clock_mode /\ At(9) = s.clock_quality
    BY <2>1
  <2>. QED  BY <1>4, <2>1, <2>2
<1>8. ASSUME NEW i \in DOMAIN fields, NEW j \in 0 .. w - 1
      PROVE  /\ 10 + w * (i - 1) + j \in 10 .. TopicSize[s.topic] - 1
             /\ Packed(s)[10 + w * (i - 1) + j] = WriteUnsigned(Field(i), w)[j]
  <2>. DEFINE k == i - 1
              b == 10 + w * k + j
  <2>1. i \in Nat /\ i >= 1 /\ i <= n /\ k \in Nat /\ k + 1 = i /\ k + 1 <= n
        /\ j \in Nat /\ j < w
    BY <1>1, <1>8
  <2>. HIDE DEF k
  <2>2. w * k \in Nat /\ w * k + w <= w * n
    <3>1. \A u, v, t \in Nat : u <= v => t * u <= t * v
      OBVIOUS
    <3>2. w * (k + 1) <= w * n
      BY <1>1, <2>1, <3>1
    <3>3. w * (k + 1) = w * k + w /\ w * k \in Nat
      BY <1>1, <2>1
    <3>. QED  BY <3>2, <3>3
  <2>3. b \in 0 .. 9 + w * n /\ ~(b <= 7) /\ b # 8 /\ b # 9 /\ b \in 10 .. TopicSize[s.topic] - 1
    BY <1>1, <1>3, <2>1, <2>2
  <2>4. (b - 10) \div w = k /\ (b - 10) % w = j
    <3>1. b - 10 = k * w + j
      BY <1>1, <2>1, <2>2
    <3>. HIDE DEF b
    <3>. QED  BY <1>1, <2>1, <3>1, DivModUnique
  <2>. HIDE DEF b
  <2>5. At(b) = WriteUnsigned(Field((b - 10) \div w + 1), w)[(b - 10) % w]
    BY <2>3
  <2>6. Field((b - 10) \div w + 1) = Field(i)
    BY <2>1, <2>4
  <2>7. At(b) = WriteUnsigned(Field(i), w)[j]
    BY <2>4, <2>5, <2>6
  <2>. QED  BY <1>4, <2>3, <2>7 DEF b, k
<1>. QED
  BY <1>5, <1>6, <1>7, <1>8 DEF w

\* What is found at the places of a sample.
LEMMA PackedRead ==
  ASSUME NEW s \in Samples
  PROVE  /\ ReadUnsigned(Packed(s), 0, 8) = s.timestamp_us
         /\ \A f \in Fields(s.topic) :
              /\ s.topic = "MOTOR_FAULTS" => Packed(s)[Offsets[s.topic][f]] = s.data[f]
              /\ s.topic # "MOTOR_FAULTS" =>
                   \A narrow \in BOOLEAN :
                     ReadDoubleAt(narrow, Packed(s), Offsets[s.topic][f])
                       = ReadDouble(narrow, s.data[f])
<1>1. ReadUnsigned(Packed(s), 0, 8) = s.timestamp_us
  <2>1. \A i \in 0 .. 8 - 1 : Packed(s)[0 + i] = WriteUnsigned(s.timestamp_us, 8)[i]
    BY PackedFacts
  <2>2. s.timestamp_us \in Nat /\ s.timestamp_us < Pow2[ByteBits * 8] /\ 8 \in Nat /\ 0 \in Nat
    BY SampleFacts
  <2>. QED  BY <2>1, <2>2, WrittenIsRead
<1>2. ASSUME NEW f \in Fields(s.topic)
      PROVE  /\ s.topic = "MOTOR_FAULTS" => Packed(s)[Offsets[s.topic][f]] = s.data[f]
             /\ s.topic # "MOTOR_FAULTS" =>
                  \A narrow \in BOOLEAN :
                    ReadDoubleAt(narrow, Packed(s), Offsets[s.topic][f])
                      = ReadDouble(narrow, s.data[f])
  <2>. DEFINE at == Offsets[s.topic][f]
              v == s.data[f]
              w == FieldWidth(s.topic)
  <2>1. s.topic \in Topics
    BY SampleFacts
  <2>2. PICK i \in DOMAIN SampleFields[s.topic] : f = SampleFields[s.topic][i]
    BY DEF Fields
  <2>3. w \in Nat \ {0} /\ i \in Nat /\ i >= 1 /\ at = 10 + w * (i - 1)
    BY <2>1, <2>2, LayoutFacts, WidthFacts
  <2>4. at \in Nat
    <3>1. w * (i - 1) \in Nat
      BY <2>3
    <3>. HIDE DEF at, w
    <3>. QED  BY <2>3, <3>1
  <2>5. \A j \in 0 .. w - 1 : Packed(s)[at + j] = WriteUnsigned(v, w)[j]
    <3>1. \A j \in 0 .. w - 1 : Packed(s)[10 + w * (i - 1) + j] = WriteUnsigned(v, w)[j]
      BY <2>2, PackedFacts
    <3>. HIDE DEF at, w, v
    <3>. QED  BY <2>3, <3>1
  <2>6. v \in Nat /\ (s.topic = "MOTOR_FAULTS" => v < ByteBase)
        /\ (s.topic # "MOTOR_FAULTS" => v \in Bits)
    BY SampleFacts
  <2>7. ASSUME s.topic = "MOTOR_FAULTS" PROVE Packed(s)[at] = v
    <3>1. w = 1
      BY <2>1, <2>7, WidthFacts
    <3>. HIDE DEF at, w, v
    <3>2. Packed(s)[at] = WriteUnsigned(v, 1)[0]
      <4>1. 0 \in 0 .. w - 1 /\ at + 0 = at
        BY <2>4, <3>1
      <4>. QED  BY <2>5, <3>1, <4>1
    <3>3. WriteUnsigned(v, 1)[0] = (v \div 1) % ByteBase
      <4>1. ByteBits * 0 = 0 /\ Pow2[0] = 1 /\ 0 \in 0 .. 1 - 1
        BY ByteFacts, Pow2Unfolds
      <4>. QED  BY <4>1 DEF WriteUnsigned
    <3>4. (v \div 1) % ByteBase = v
      <4>1. v \div 1 = v /\ v \in Nat /\ v < ByteBase /\ ByteBase \in Nat \ {0}
        BY <2>6, <2>7, ByteFacts
      <4>2. 0 * ByteBase + v = v
        BY <4>1
      <4>3. (0 * ByteBase + v) % ByteBase = v
        BY <4>1, DivModUnique
      <4>. QED  BY <4>1, <4>2, <4>3
    <3>. QED  BY <3>2, <3>3, <3>4
  <2>8. ASSUME s.topic # "MOTOR_FAULTS", NEW narrow \in BOOLEAN
        PROVE  ReadDoubleAt(narrow, Packed(s), at) = ReadDouble(narrow, v)
    <3>1. w = DoubleBytes /\ DoubleBytes \in Nat
      BY <2>1, <2>8, WidthFacts DEF DoubleBytes
    <3>. HIDE DEF at, w, v
    <3>2. v < Pow2[ByteBits * DoubleBytes]
      BY <2>6, <2>8, BitsFit
    <3>3. \A j \in 0 .. DoubleBytes - 1 : Packed(s)[at + j] = WriteUnsigned(v, DoubleBytes)[j]
      BY <2>5, <3>1
    <3>4. ReadUnsigned(Packed(s), at, DoubleBytes) = v
      BY <2>4, <2>6, <3>1, <3>2, <3>3, WrittenIsRead
    <3>. QED  BY <3>4 DEF ReadDoubleAt
  <2>. QED  BY <2>7, <2>8
<1>. QED
  BY <1>1, <1>2

\* A field as a board takes it from the sample, and its test.
Arrived(narrow, s, f) ==
  IF s.topic = "MOTOR_FAULTS" THEN s.data[f] ELSE ReadDouble(narrow, s.data[f])

\* The test of the generated decoder for a field.
Passes(s, x) == IF s.topic = "MOTOR_FAULTS" THEN x <= 1 ELSE DoubleAccepted(s.topic, x)

\* The decoder sees the fields that were packed.
LEMMA Decoded ==
  ASSUME NEW s \in Samples, NEW narrow \in BOOLEAN
  PROVE  DecodeTelemetry(narrow, s.topic, s.index, Packed(s)) =
           IF /\ TopicInfoValid(s.topic, s.index)
              /\ s.clock_mode <= 1 /\ s.clock_quality \in 1 .. 2
              /\ \A f \in Fields(s.topic) : Passes(s, Arrived(narrow, s, f))
           THEN [decoded |-> TRUE, topic |-> s.topic, index |-> s.index,
                 timestamp_us |-> s.timestamp_us,
                 clock_mode |-> s.clock_mode, clock_quality |-> s.clock_quality,
                 data |-> [f \in Fields(s.topic) |-> Arrived(narrow, s, f)]]
           ELSE Refused
<1>. DEFINE at == Offsets[s.topic]
            flags == s.topic = "MOTOR_FAULTS"
            payload == Packed(s)
            Field(f) == IF flags THEN payload[at[f]] ELSE ReadDoubleAt(narrow, payload, at[f])
            Accepted(x) == IF flags THEN x <= 1 ELSE DoubleAccepted(s.topic, x)
            time == ReadUnsigned(payload, 0, 8)
            sample == [decoded |-> TRUE, topic |-> s.topic, index |-> s.index,
                       timestamp_us |-> time,
                       clock_mode |-> payload[8], clock_quality |-> payload[9],
                       data |-> [f \in DOMAIN at |-> Field(f)]]
<1>1. DOMAIN at = Fields(s.topic)
  BY SampleFacts, LayoutFacts
<1>2. time = s.timestamp_us
  BY PackedRead
<1>3. payload[8] = s.clock_mode /\ payload[9] = s.clock_quality
      /\ DOMAIN payload = 0 .. TopicSize[s.topic] - 1
  BY PackedFacts
<1>4. \A f \in Fields(s.topic) : Field(f) = Arrived(narrow, s, f)
  BY PackedRead DEF Arrived
<1>5. DecodeTelemetry(narrow, s.topic, s.index, payload) =
        IF /\ TopicInfoValid(s.topic, s.index) /\ DOMAIN payload = 0 .. TopicSize[s.topic] - 1
           /\ sample.clock_mode <= 1 /\ sample.clock_quality \in 1 .. 2
           /\ \A f \in DOMAIN at : Accepted(sample.data[f])
        THEN sample ELSE Refused
  BY Zenon DEF DecodeTelemetry
<1>6. sample.clock_mode = s.clock_mode /\ sample.clock_quality = s.clock_quality
      /\ sample.data = [f \in DOMAIN at |-> Field(f)]
  BY <1>3
<1>7. [f \in DOMAIN at |-> Field(f)] = [f \in Fields(s.topic) |-> Arrived(narrow, s, f)]
  <2>. HIDE DEF at, Field
  <2>. QED  BY <1>1, <1>4
<1>8. sample = [decoded |-> TRUE, topic |-> s.topic, index |-> s.index,
                 timestamp_us |-> s.timestamp_us,
                 clock_mode |-> s.clock_mode, clock_quality |-> s.clock_quality,
                 data |-> [f \in Fields(s.topic) |-> Arrived(narrow, s, f)]]
  <2>. HIDE DEF payload, time, at, Field
  <2>. QED  BY <1>2, <1>3, <1>7, Zenon
<1>9. (\A f \in DOMAIN at : Accepted(sample.data[f]))
        <=> \A f \in Fields(s.topic) : Passes(s, Arrived(narrow, s, f))
  <2>1. \A f \in Fields(s.topic) : sample.data[f] = Arrived(narrow, s, f)
    <3>. HIDE DEF at, Field, sample
    <3>. QED  BY <1>6, <1>7
  <2>2. \A x : Accepted(x) <=> Passes(s, x)
    BY DEF Passes
  <2>. HIDE DEF at, sample, Accepted
  <2>. QED  BY <1>1, <2>1, <2>2
<1>. HIDE DEF at, payload, time, sample, Accepted, Field
<1>. QED
  BY <1>3, <1>5, <1>6, <1>8, <1>9 DEF payload

\* Signs and finiteness of what is read from bits.
LEMMA ReadLike ==
  ASSUME NEW bits \in Bits
  PROVE  /\ ReadDouble(TRUE, bits).negative = OnWire(bits).negative
         /\ ReadDouble(TRUE, bits).kind = "finite" => OnWire(bits).kind = "finite"
         /\ ReadDouble(TRUE, bits).kind = "finite" /\ ReadDouble(TRUE, bits).m = 0
              /\ ReadDouble(TRUE, bits).negative =>
                ReadDouble(TRUE, bits) = [Number(0, 0) EXCEPT !.negative = TRUE]
         /\ ReadDouble(FALSE, bits) = OnWire(bits)
<1>1. PICK s \in {0, 1}, c \in Wired, f \in WireFractions : bits = Pattern(s, c, f)
  BY PatternOf DEF Wired
<1>2. OnWire(bits) = Signed(Sent(c, f), s) /\ ReadDouble(TRUE, bits) = Signed(Got(c, f), s)
  BY <1>1, PatternMeans DEF Wired
<1>3. Readable(Sent(c, f)) /\ Readable(Got(c, f))
  BY SentReadable
<1>. DEFINE x == Sent(c, f)
            y == Got(c, f)
<1>4. /\ Signed(y, s).kind = y.kind /\ Signed(y, s).m = y.m
      /\ (y.kind = "finite" => Plain(y))
  BY <1>3, SignedFacts, Zenon
<1>5. /\ Signed(x, s).kind = x.kind /\ (Plain(x) => x.kind = "finite")
  BY <1>3, SignedFacts, Zenon
<1>6. y.kind = "finite" => x.kind = "finite"
  <2>1. c # 2 * Bias(WireExponentBits) + 1 => Plain(x)
    BY SentReadable
  <2>2. c = 2 * Bias(WireExponentBits) + 1 => y = Infinite \/ y = NotANumber
    BY ByExponent
  <2>3. y = Infinite \/ y = NotANumber => y.kind # "finite"
    BY DEF Infinite, NotANumber
  <2>. QED  BY <1>5, <2>1, <2>2, <2>3
<1>7. Signed(y, s).negative = (s = 1)
  BY <1>3, SignedFacts, Zenon
<1>8. ASSUME y.kind = "finite", y.m = 0, Signed(y, s).negative
      PROVE  Signed(y, s) = [Number(0, 0) EXCEPT !.negative = TRUE]
  <2>1. y = Fin(0, 0)
    BY <1>4, <1>8, PlainFacts
  <2>2. Number(0, 0) = Fin(0, 0)
    BY WholeZero
  <2>3. (s = 1) = TRUE
    <3>1. s = 1
      BY <1>7, <1>8, Zenon
    <3>. QED  BY <3>1
  <2>. QED  BY <2>1, <2>2, <2>3, Zenon DEF Signed
<1>9. ReadDouble(FALSE, bits) = OnWire(bits)
  BY DEF ReadDouble
<1>10. ReadDouble(TRUE, bits).negative = OnWire(bits).negative
  BY DoubleOrder
<1>. HIDE DEF x, y
<1>. QED
  BY <1>2, <1>4, <1>5, <1>6, <1>8, <1>9, <1>10 DEF x, y

\* SampleArrives, of all samples.
LEMMA SampleExact ==
  ASSUME NEW s \in Samples, Exact(s)
  PROVE  DecodeTelemetry(TRUE, s.topic, s.index, Packed(s))
           = IF Valid(s) THEN Meant(s) ELSE Refused
<1>. DEFINE F == Fields(s.topic)
<1>1. DOMAIN s.data = F /\ s.clock_mode \in Nat /\ s.clock_quality \in Nat
  BY SampleFacts
<1>2. \A f \in F : Arrived(TRUE, s, f) = Meant(s).data[f]
  <2>. SUFFICES ASSUME NEW f \in F PROVE Arrived(TRUE, s, f) = Meant(s).data[f]
    OBVIOUS
  <2>1. Meant(s).data[f] = IF s.topic = "MOTOR_FAULTS" THEN s.data[f] ELSE OnWire(s.data[f])
    BY <1>1 DEF Meant
  <2>2. s.topic # "MOTOR_FAULTS" => ReadDouble(TRUE, s.data[f]) = OnWire(s.data[f])
    BY <1>1, SampleFacts, DoubleExact DEF Exact
  <2>. QED  BY <2>1, <2>2 DEF Arrived
<1>3. [f \in F |-> Arrived(TRUE, s, f)]
        = [f \in DOMAIN s.data |->
             IF s.topic = "MOTOR_FAULTS" THEN s.data[f] ELSE OnWire(s.data[f])]
  <2>1. \A f \in F : Arrived(TRUE, s, f)
          = IF s.topic = "MOTOR_FAULTS" THEN s.data[f] ELSE OnWire(s.data[f])
    BY <1>1, <1>2 DEF Meant
  <2>. HIDE DEF F
  <2>. QED  BY <1>1, <2>1
<1>4. (\A f \in F : Passes(s, Arrived(TRUE, s, f)))
        <=> \A f \in DOMAIN s.data :
              LET x == Meant(s).data[f]
              IN IF s.topic = "MOTOR_FAULTS" THEN x \in {0, 1}
                 ELSE x.kind = "finite" /\ (s.topic = "MOTOR_CURRENT" => x.m = 0 \/ ~x.negative)
  <2>1. ASSUME NEW f \in F
        PROVE  Passes(s, Arrived(TRUE, s, f)) <=>
                 LET x == Meant(s).data[f]
                 IN IF s.topic = "MOTOR_FAULTS" THEN x \in {0, 1}
                    ELSE x.kind = "finite"
                    /\ (s.topic = "MOTOR_CURRENT" => x.m = 0 \/ ~x.negative)
    <3>1. CASE s.topic = "MOTOR_FAULTS"
      <4>1. s.data[f] \in Nat /\ Arrived(TRUE, s, f) = s.data[f]
        BY <3>1, SampleFacts DEF Arrived
      <4>2. Meant(s).data[f] = s.data[f]
        BY <1>2, <2>1, <4>1
      <4>. DEFINE v == s.data[f]
      <4>3. Passes(s, v) <=> v <= 1
        BY <3>1 DEF Passes
      <4>4. v <= 1 <=> v \in {0, 1}
        <5>1. v \in Nat
          BY <4>1
        <5>. HIDE DEF v
        <5>. QED  BY <5>1
      <4>. HIDE DEF v
      <4>5. v \in {0, 1} <=> LET x == Meant(s).data[f]
                            IN IF s.topic = "MOTOR_FAULTS" THEN x \in {0, 1}
                               ELSE x.kind = "finite"
                                      /\ (s.topic = "MOTOR_CURRENT" => x.m = 0 \/ ~x.negative)
        BY <3>1, <4>2 DEF v
      <4>. QED  BY <4>1, <4>3, <4>4, <4>5, Zenon DEF v
    <3>2. CASE s.topic # "MOTOR_FAULTS"
      BY <1>2, <3>2 DEF Passes, DoubleAccepted, Negative
    <3>. QED  BY <3>1, <3>2
  <2>. HIDE DEF F
  <2>. QED  BY <1>1, <2>1
<1>5. (s.clock_mode <= 1 <=> s.clock_mode \in {0, 1})
      /\ (s.clock_quality \in 1 .. 2 <=> s.clock_quality \in {1, 2})
  BY <1>1
<1>6. Valid(s) <=> /\ TopicInfoValid(s.topic, s.index)
                   /\ s.clock_mode <= 1 /\ s.clock_quality \in 1 .. 2
                   /\ \A f \in F : Passes(s, Arrived(TRUE, s, f))
  <2>. HIDE DEF F
  <2>. QED  BY <1>4, <1>5 DEF Valid
<1>7. Meant(s) = [decoded |-> TRUE, topic |-> s.topic, index |-> s.index,
                  timestamp_us |-> s.timestamp_us,
                  clock_mode |-> s.clock_mode, clock_quality |-> s.clock_quality,
                  data |-> [f \in F |-> Arrived(TRUE, s, f)]]
  BY <1>3, Zenon DEF Meant
<1>8. DecodeTelemetry(TRUE, s.topic, s.index, Packed(s)) =
           IF /\ TopicInfoValid(s.topic, s.index)
              /\ s.clock_mode <= 1 /\ s.clock_quality \in 1 .. 2
              /\ \A f \in F : Passes(s, Arrived(TRUE, s, f))
           THEN [decoded |-> TRUE, topic |-> s.topic, index |-> s.index,
                 timestamp_us |-> s.timestamp_us,
                 clock_mode |-> s.clock_mode, clock_quality |-> s.clock_quality,
                 data |-> [f \in F |-> Arrived(TRUE, s, f)]]
           ELSE Refused
  BY Decoded
<1>. QED
  BY <1>6, <1>7, <1>8, Zenon

\* WidthDecides, of all samples.
LEMMA SampleWidth ==
  ASSUME NEW s \in Samples
  PROVE  LET n == DecodeTelemetry(TRUE, s.topic, s.index, Packed(s))
             r == DecodeTelemetry(FALSE, s.topic, s.index, Packed(s))
         IN n.decoded # r.decoded =>
              IF r.decoded
              THEN \E f \in DOMAIN s.data :
                     LET x == OnWire(s.data[f])
                     IN ~Representable(x) /\ Leading(x.m) + x.e >= Bias(ExponentBits)
              ELSE /\ s.topic = "MOTOR_CURRENT"
                   /\ n.data["amps"] = [Number(0, 0) EXCEPT !.negative = TRUE]
<1>. DEFINE n == DecodeTelemetry(TRUE, s.topic, s.index, Packed(s))
            r == DecodeTelemetry(FALSE, s.topic, s.index, Packed(s))
            F == Fields(s.topic)
            common == /\ TopicInfoValid(s.topic, s.index)
                      /\ s.clock_mode <= 1 /\ s.clock_quality \in 1 .. 2
            AllPass(narrow) == \A f \in F : Passes(s, Arrived(narrow, s, f))
<1>1. DOMAIN s.data = F
  BY SampleFacts
<1>2. ASSUME NEW narrow \in BOOLEAN
      PROVE  LET d == DecodeTelemetry(narrow, s.topic, s.index, Packed(s))
             IN /\ d.decoded = TRUE \/ d.decoded = FALSE
                /\ d.decoded <=> common /\ AllPass(narrow)
                /\ d.decoded => \A f \in F : d.data[f] = Arrived(narrow, s, f)
  <2>. DEFINE d == DecodeTelemetry(narrow, s.topic, s.index, Packed(s))
              sample == [decoded |-> TRUE, topic |-> s.topic, index |-> s.index,
                 timestamp_us |-> s.timestamp_us,
                 clock_mode |-> s.clock_mode, clock_quality |-> s.clock_quality,
                 data |-> [f \in F |-> Arrived(narrow, s, f)]]
  <2>1. d = IF common /\ AllPass(narrow) THEN sample ELSE Refused
    BY Decoded, Zenon
  <2>2. sample.decoded = TRUE /\ sample.data = [f \in F |-> Arrived(narrow, s, f)]
    OBVIOUS
  <2>3. Refused.decoded = FALSE
    BY DEF Refused
  <2>4. \A f \in F : sample.data[f] = Arrived(narrow, s, f)
    <3>. HIDE DEF sample, F
    <3>. QED  BY <2>2
  <2>. HIDE DEF sample, d, common, AllPass
  <2>5. CASE common /\ AllPass(narrow)
    <3>1. d = sample
      BY <2>1, <2>5
    <3>2. d.decoded = TRUE
      BY <2>2, <3>1, Zenon
    <3>. QED  BY <2>4, <2>5, <3>1, <3>2, Zenon DEF d
  <2>6. CASE ~(common /\ AllPass(narrow))
    <3>1. d = Refused
      BY <2>1, <2>6
    <3>2. d.decoded = FALSE
      BY <2>3, <3>1, Zenon
    <3>. QED  BY <2>6, <3>2, Zenon DEF d
  <2>. QED  BY <2>5, <2>6
<1>. HIDE DEF common, AllPass, n, r
<1>3. /\ n.decoded <=> common /\ AllPass(TRUE)
      /\ n.decoded => \A f \in F : n.data[f] = Arrived(TRUE, s, f)
      /\ n.decoded = TRUE \/ n.decoded = FALSE
  BY <1>2, Zenon DEF n
<1>4. /\ r.decoded <=> common /\ AllPass(FALSE)
      /\ r.decoded = TRUE \/ r.decoded = FALSE
  BY <1>2, Zenon DEF r
<1>5. ASSUME s.topic = "MOTOR_FAULTS" PROVE n.decoded <=> r.decoded
  <2>1. \A f \in F : Arrived(TRUE, s, f) = Arrived(FALSE, s, f)
    BY <1>5 DEF Arrived
  <2>2. AllPass(TRUE) <=> AllPass(FALSE)
    <3>. HIDE DEF F
    <3>. QED  BY <2>1 DEF AllPass
  <2>. QED  BY <1>3, <1>4, <2>2, Zenon
<1>6. ASSUME NEW f \in F, s.topic # "MOTOR_FAULTS"
      PROVE  /\ s.data[f] \in Bits
             /\ Arrived(TRUE, s, f) = ReadDouble(TRUE, s.data[f])
             /\ Arrived(FALSE, s, f) = OnWire(s.data[f])
             /\ \A x : Passes(s, x) <=> DoubleAccepted(s.topic, x)
  <2>1. s.data[f] \in Bits
    BY <1>6, SampleFacts
  <2>2. ReadDouble(FALSE, s.data[f]) = OnWire(s.data[f])
    BY <2>1, ReadLike
  <2>. QED  BY <1>6, <2>1, <2>2 DEF Arrived, Passes
<1>7. ASSUME n.decoded = FALSE, r.decoded = TRUE
      PROVE  \E f \in F : LET x == OnWire(s.data[f])
                          IN ~Representable(x) /\ Leading(x.m) + x.e >= Bias(ExponentBits)
  <2>1. s.topic # "MOTOR_FAULTS"
    BY <1>5, <1>7, Zenon
  <2>2. PICK f \in F : ~Passes(s, Arrived(TRUE, s, f)) /\ Passes(s, Arrived(FALSE, s, f))
    <3>1. ~AllPass(TRUE) /\ AllPass(FALSE)
      BY <1>3, <1>4, <1>7, Zenon
    <3>. QED  BY <3>1 DEF AllPass
  <2>. DEFINE b == s.data[f]
              x == ReadDouble(TRUE, b)
              y == OnWire(b)
  <2>3. b \in Bits /\ ~DoubleAccepted(s.topic, x) /\ DoubleAccepted(s.topic, y)
    BY <1>6, <2>1, <2>2
  <2>. HIDE DEF b
  <2>4. ~Representable(y)
    BY <2>3, DoubleExact
  <2>5. y.kind = "finite" /\ y.m # 0
    BY <2>4 DEF Representable
  <2>6. x.negative = y.negative
    BY <2>3, ReadLike
  <2>7. ~(Leading(y.m) + y.e < Bias(ExponentBits))
    <3>. SUFFICES ASSUME Leading(y.m) + y.e < Bias(ExponentBits) PROVE FALSE
      OBVIOUS
    <3>1. x.kind = "finite"
      BY <2>3, <2>5, DoubleBeyond
    <3>. HIDE DEF x, y
    <3>. QED  BY <2>3, <2>5, <2>6, <3>1 DEF DoubleAccepted, Negative
  <2>8. Leading(y.m) + y.e >= Bias(ExponentBits)
    <3>1. Leading(y.m) + y.e \in Int
      <4>1. PICK t \in {0, 1}, c \in Wired, g \in WireFractions : b = Pattern(t, c, g)
        BY <2>3, PatternOf DEF Wired
      <4>2. y = Signed(Sent(c, g), t)
        BY <4>1, PatternMeans DEF Wired
      <4>. DEFINE z == Sent(c, g)
      <4>3. /\ Signed(z, t).kind = z.kind /\ Signed(z, t).m = z.m /\ Signed(z, t).e = z.e
            /\ (z.kind = "finite" => Plain(z))
        BY SentReadable, SignedFacts, Zenon
      <4>4. y.m = z.m /\ y.e = z.e /\ Plain(z) /\ z.m # 0
        BY <2>5, <4>2, <4>3, Zenon
      <4>. HIDE DEF z, y
      <4>5. z.e \in Int
        BY <4>4, PlainFacts, Zenon
      <4>6. Leading(z.m) \in Nat
        BY <4>4, ValTop, Zenon
      <4>. QED  BY <4>4, <4>5, <4>6
    <3>. HIDE DEF y
    <3>. QED  BY <2>7, <3>1, FormatFacts
  <2>. QED  BY <2>4, <2>8 DEF b
<1>8. ASSUME n.decoded = TRUE, r.decoded = FALSE
      PROVE  /\ s.topic = "MOTOR_CURRENT"
             /\ n.data["amps"] = [Number(0, 0) EXCEPT !.negative = TRUE]
  <2>1. s.topic # "MOTOR_FAULTS"
    BY <1>5, <1>8, Zenon
  <2>2. PICK f \in F : Passes(s, Arrived(TRUE, s, f)) /\ ~Passes(s, Arrived(FALSE, s, f))
    <3>1. AllPass(TRUE) /\ ~AllPass(FALSE)
      BY <1>3, <1>4, <1>8, Zenon
    <3>. QED  BY <3>1 DEF AllPass
  <2>. DEFINE b == s.data[f]
              x == ReadDouble(TRUE, b)
              y == OnWire(b)
  <2>3. b \in Bits /\ DoubleAccepted(s.topic, x) /\ ~DoubleAccepted(s.topic, y)
    BY <1>6, <2>1, <2>2
  <2>4. n.data[f] = x
    <3>1. n.data[f] = Arrived(TRUE, s, f)
      BY <1>3, <1>8, Zenon
    <3>. QED  BY <1>6, <2>1, <3>1
  <2>. HIDE DEF b
  <2>5. /\ x.negative = y.negative /\ (x.kind = "finite" => y.kind = "finite")
        /\ (x.kind = "finite" /\ x.m = 0 /\ x.negative =>
               x = [Number(0, 0) EXCEPT !.negative = TRUE])
    BY <2>3, ReadLike
  <2>. HIDE DEF x, y
  <2>6. s.topic = "MOTOR_CURRENT" /\ x.kind = "finite" /\ x.m = 0 /\ x.negative
    BY <2>3, <2>5 DEF DoubleAccepted, Negative
  <2>7. f = "amps"
    BY <2>6 DEF Fields, SampleFields
  <2>. QED  BY <2>4, <2>5, <2>6, <2>7
<1>. QED
  <2>. HIDE DEF F
  <2>1. n.decoded # r.decoded =>
          (n.decoded = FALSE /\ r.decoded = TRUE) \/ (n.decoded = TRUE /\ r.decoded = FALSE)
    BY <1>3, <1>4, Zenon
  <2>2. CASE n.decoded = FALSE /\ r.decoded = TRUE
    <3>1. r.decoded
      BY <2>2, Zenon
    <3>. QED  BY <1>1, <1>7, <2>2, <3>1, Zenon DEF n, r
  <2>3. CASE n.decoded = TRUE /\ r.decoded = FALSE
    <3>1. ~r.decoded
      BY <2>3, Zenon
    <3>. QED  BY <1>8, <2>3, <3>1, Zenon DEF n, r
  <2>4. CASE n.decoded = r.decoded
    BY <2>4 DEF n, r
  <2>. QED  BY <2>1, <2>2, <2>3, <2>4

----------------------------------------------------------------------------
(* The layout of arguments and results *)

\* The types of arguments and results.
Types == {"u8", "i8", "bool", "u16", "u32", "u64", "double"}

\* A list of types of n fields.
Listed(types, n) == n \in Nat /\ DOMAIN types = 1 .. n /\ \A k \in 1 .. n : types[k] \in Types

\* Their sizes.
LEMMA SizeFacts ==
  /\ SizeOf("u8") = 1 /\ SizeOf("i8") = 1 /\ SizeOf("bool") = 1 /\ SizeOf("u16") = 2
  /\ SizeOf("u32") = 4 /\ SizeOf("u64") = 8 /\ SizeOf("double") = 8
  /\ \A t \in Types : SizeOf(t) \in Nat \ {0}
<1>1. /\ SizeOf("u8") = 1 /\ SizeOf("i8") = 1 /\ SizeOf("bool") = 1 /\ SizeOf("u16") = 2
      /\ SizeOf("u32") = 4 /\ SizeOf("u64") = 8 /\ SizeOf("double") = 8
  BY DEF SizeOf
<1>. QED
  BY <1>1 DEF Types

\* Each field begins where the one before it ends.
LEMMA OffsetStep ==
  ASSUME NEW types, NEW n \in Nat, Listed(types, n)
  PROVE  /\ OffsetOf(types, 1) = 0
         /\ \A k \in 1 .. n : OffsetOf(types, k + 1) = OffsetOf(types, k) + SizeOf(types[k])
         /\ \A k \in 1 .. n + 1 : OffsetOf(types, k) \in Nat
<1>. DEFINE f == [k \in DOMAIN types |-> SizeOf(types[k])]
<1>1. \A k \in 1 .. n : f[k] = SizeOf(types[k]) /\ f[k] \in Nat
  BY SizeFacts DEF Listed
<1>2. \A i : OffsetOf(types, i) = Total(f, i - 1)
  BY DEF OffsetOf
<1>. HIDE DEF f
<1>3. /\ Total(f, 0) = 0
      /\ \A k \in 0 .. n : k < n => Total(f, k + 1) = Total(f, k) + f[k + 1]
      /\ \A k \in 0 .. n : Total(f, k) \in Nat
  BY <1>1, TotalStep
<1>4. OffsetOf(types, 1) = 0
  <2>1. 1 - 1 = 0
    OBVIOUS
  <2>. QED  BY <1>2, <1>3, <2>1
<1>5. ASSUME NEW k \in 1 .. n PROVE OffsetOf(types, k + 1) = OffsetOf(types, k) + SizeOf(types[k])
  <2>1. k - 1 \in 0 .. n /\ k - 1 < n /\ (k - 1) + 1 = k /\ (k + 1) - 1 = k
    OBVIOUS
  <2>2. Total(f, (k - 1) + 1) = Total(f, k - 1) + f[(k - 1) + 1]
    BY <1>3, <2>1
  <2>. QED  BY <1>1, <1>2, <2>1, <2>2
<1>6. ASSUME NEW k \in 1 .. n + 1 PROVE OffsetOf(types, k) \in Nat
  <2>1. k - 1 \in 0 .. n
    OBVIOUS
  <2>. QED  BY <1>2, <1>3, <2>1
<1>. QED
  BY <1>4, <1>5, <1>6

\* The offsets of fields of one type that follow each other.
LEMMA OffsetUniform ==
  ASSUME NEW types, NEW n \in Nat, Listed(types, n), NEW a \in Nat, NEW t \in Types, a <= n,
         \A k \in a + 1 .. n : types[k] = t
  PROVE  \A j \in 0 .. n - a : OffsetOf(types, a + 1 + j) = OffsetOf(types, a + 1) + SizeOf(t) * j
<1>. DEFINE Good(j) == j <= n - a =>
                         OffsetOf(types, a + 1 + j) = OffsetOf(types, a + 1) + SizeOf(t) * j
            P == {j \in Nat : Good(j)}
            z == SizeOf(t)
<1>1. z \in Nat
  BY SizeFacts
<1>2. \A k \in 1 .. n + 1 : OffsetOf(types, k) \in Nat
  BY OffsetStep
<1>. HIDE DEF z
<1>3. Good(0)
  <2>1. a + 1 + 0 = a + 1 /\ a + 1 \in 1 .. n + 1 /\ z * 0 = 0
    BY <1>1
  <2>2. OffsetOf(types, a + 1) \in Nat
    BY <1>2, <2>1
  <2>. QED  BY <2>1, <2>2 DEF z
<1>4. ASSUME NEW j \in Nat, Good(j) PROVE Good(j + 1)
  <2>. SUFFICES ASSUME j + 1 <= n - a
                PROVE  OffsetOf(types, a + 1 + (j + 1)) = OffsetOf(types, a + 1) + z * (j + 1)
    BY DEF z
  <2>. DEFINE k == a + 1 + j
  <2>1. k \in 1 .. n /\ k \in a + 1 .. n /\ a + 1 + (j + 1) = k + 1 /\ j <= n - a
        /\ a + 1 \in 1 .. n + 1
    OBVIOUS
  <2>. HIDE DEF k
  <2>2. OffsetOf(types, k + 1) = OffsetOf(types, k) + SizeOf(types[k]) /\ types[k] = t
    BY <2>1, OffsetStep
  <2>3. OffsetOf(types, k) = OffsetOf(types, a + 1) + z * j
    BY <1>4, <2>1 DEF k, z
  <2>4. z * (j + 1) = z * j + z /\ z * j \in Nat /\ OffsetOf(types, a + 1) \in Nat
    BY <1>1, <1>2, <2>1
  <2>5. OffsetOf(types, k + 1) = (OffsetOf(types, a + 1) + z * j) + z
    BY <2>2, <2>3 DEF z
  <2>. QED  BY <1>1, <2>1, <2>4, <2>5
<1>5. Nat \subseteq P
  <2>1. 0 \in P
    BY <1>3
  <2>2. \A j \in Nat : j \in P => j + 1 \in P
    BY <1>4
  <2>. HIDE DEF P
  <2>. QED  BY <2>1, <2>2, InductionOverNat
<1>. QED
  BY <1>5

\* Lists of doubles and of flags.
LEMMA DoublesFacts ==
  ASSUME NEW n \in Nat
  PROVE  /\ Doubles(n) \in Seq(Types) /\ Len(Doubles(n)) = n /\ Listed(Doubles(n), n)
         /\ \A k \in 1 .. n : Doubles(n)[k] = "double"
         /\ Bools(n) \in Seq(Types) /\ Len(Bools(n)) = n /\ Listed(Bools(n), n)
         /\ \A k \in 1 .. n : Bools(n)[k] = "bool"
<1>1. "double" \in Types /\ "bool" \in Types
  BY DEF Types
<1>2. /\ Doubles(n) \in [1 .. n -> Types] /\ Bools(n) \in [1 .. n -> Types]
      /\ \A k \in 1 .. n : Doubles(n)[k] = "double" /\ Bools(n)[k] = "bool"
  BY <1>1 DEF Doubles, Bools
<1>. HIDE DEF Types
<1>. QED
  BY <1>2 DEF Listed

\* The fields of two lists, one after the other.
LEMMA ConcatFacts ==
  ASSUME NEW p \in Seq(Types), NEW q \in Seq(Types)
  PROVE  /\ p \o q \in Seq(Types) /\ Len(p \o q) = Len(p) + Len(q)
         /\ Listed(p \o q, Len(p) + Len(q))
         /\ \A k \in 1 .. Len(p) : (p \o q)[k] = p[k]
         /\ \A k \in 1 .. Len(q) : (p \o q)[Len(p) + k] = q[k]
<1>1. p \o q \in Seq(Types) /\ Len(p \o q) = Len(p) + Len(q)
  OBVIOUS
<1>2. /\ \A k \in 1 .. Len(p) : (p \o q)[k] = p[k]
      /\ \A k \in 1 .. Len(q) : (p \o q)[Len(p) + k] = q[k]
  OBVIOUS
<1>3. Listed(p \o q, Len(p) + Len(q))
  BY <1>1 DEF Listed
<1>. QED
  BY <1>1, <1>2, <1>3

----------------------------------------------------------------------------
(* Readings of the data of a topic *)

\* The fields a method reads for the data of a topic.
FirstField(topic) == IF Timed(topic) THEN 3 ELSE 0
\* The place of the first field in a response, after the time.
FirstByte(topic) == IF Timed(topic) THEN 10 ELSE 0

\* The time that comes with an odometry reading.
LEMMA TimestampFacts ==
  /\ Timestamp \in Seq(Types) /\ Len(Timestamp) = 3
  /\ Timestamp[1] = "u64" /\ Timestamp[2] = "u8" /\ Timestamp[3] = "u8"
BY DEF Timestamp, Types

\* The offsets of an odometry reading.
LEMMA TimedLayout ==
  ASSUME NEW n \in Nat
  PROVE  LET types == Timestamp \o Doubles(n)
         IN /\ Listed(types, 3 + n)
            /\ types[1] = "u64" /\ types[2] = "u8" /\ types[3] = "u8"
            /\ OffsetOf(types, 1) = 0 /\ OffsetOf(types, 2) = 8 /\ OffsetOf(types, 3) = 9
            /\ \A i \in 1 .. n : types[3 + i] = "double"
               /\ OffsetOf(types, 3 + i) = 10 + 8 * (i - 1)
<1>. DEFINE types == Timestamp \o Doubles(n)
<1>1. /\ Timestamp \in Seq(Types) /\ Len(Timestamp) = 3
      /\ Doubles(n) \in Seq(Types) /\ Len(Doubles(n)) = n
      /\ \A k \in 1 .. n : Doubles(n)[k] = "double"
  BY TimestampFacts, DoublesFacts
<1>2. Listed(types, 3 + n) /\ types[1] = "u64" /\ types[2] = "u8" /\ types[3] = "u8"
      /\ \A i \in 1 .. n : types[3 + i] = "double"
  <2>1. /\ Listed(types, Len(Timestamp) + Len(Doubles(n)))
        /\ \A k \in 1 .. Len(Timestamp) : types[k] = Timestamp[k]
        /\ \A k \in 1 .. Len(Doubles(n)) : types[Len(Timestamp) + k] = Doubles(n)[k]
    BY <1>1, ConcatFacts
  <2>. HIDE DEF types
  <2>2. 1 \in 1 .. 3 /\ 2 \in 1 .. 3 /\ 3 \in 1 .. 3
    OBVIOUS
  <2>. QED  BY <1>1, <2>1, <2>2, TimestampFacts
<1>. HIDE DEF types
<1>3. 3 + n \in Nat /\ 1 \in 1 .. 3 + n /\ 2 \in 1 .. 3 + n /\ 3 \in 1 .. 3 + n
  OBVIOUS
<1>4. /\ OffsetOf(types, 1) = 0
      /\ \A k \in 1 .. 3 + n : OffsetOf(types, k + 1) = OffsetOf(types, k) + SizeOf(types[k])
  BY <1>2, <1>3, OffsetStep
<1>5. OffsetOf(types, 2) = 8 /\ OffsetOf(types, 3) = 9 /\ OffsetOf(types, 4) = 10
  <2>1. /\ OffsetOf(types, 1 + 1) = OffsetOf(types, 1) + SizeOf(types[1])
        /\ OffsetOf(types, 2 + 1) = OffsetOf(types, 2) + SizeOf(types[2])
        /\ OffsetOf(types, 3 + 1) = OffsetOf(types, 3) + SizeOf(types[3])
    BY <1>3, <1>4
  <2>2. 1 + 1 = 2 /\ 2 + 1 = 3 /\ 3 + 1 = 4
    OBVIOUS
  <2>. QED  BY <1>2, <1>4, <2>1, <2>2, SizeFacts
<1>6. ASSUME NEW i \in 1 .. n PROVE OffsetOf(types, 3 + i) = 10 + 8 * (i - 1)
  <2>1. \A k \in 3 + 1 .. 3 + n : types[k] = "double"
    <3>. SUFFICES ASSUME NEW k \in 3 + 1 .. 3 + n PROVE types[k] = "double"
      OBVIOUS
    <3>1. k - 3 \in 1 .. n /\ 3 + (k - 3) = k
      OBVIOUS
    <3>. QED  BY <1>2, <3>1
  <2>2. \A j \in 0 .. (3 + n) - 3 : OffsetOf(types, 3 + 1 + j)
          = OffsetOf(types, 3 + 1) + SizeOf("double") * j
    <3>1. "double" \in Types /\ 3 \in Nat /\ 3 <= 3 + n
      BY DEF Types
    <3>. DEFINE a == 3
                m == 3 + n
                t == "double"
    <3>2. /\ a \in Nat /\ m \in Nat /\ a <= m /\ t \in Types /\ Listed(types, m)
          /\ \A k \in a + 1 .. m : types[k] = t
      BY <1>2, <1>3, <2>1, <3>1
    <3>. HIDE DEF a, m, t
    <3>3. \A j \in 0 .. m - a : OffsetOf(types, a + 1 + j)
            = OffsetOf(types, a + 1) + SizeOf(t) * j
      BY <3>2, OffsetUniform
    <3>. QED  BY <3>3 DEF a, m, t
  <2>3. i - 1 \in 0 .. (3 + n) - 3 /\ 3 + 1 + (i - 1) = 3 + i /\ 3 + 1 = 4
    OBVIOUS
  <2>. QED  BY <1>5, <2>2, <2>3, SizeFacts
<1>. QED
  BY <1>2, <1>4, <1>5, <1>6 DEF types

\* The offsets of fields of one type.
LEMMA PlainLayout ==
  ASSUME NEW types, NEW n \in Nat, NEW t \in Types, Listed(types, n), \A k \in 1 .. n :
           types[k] = t
  PROVE  \A i \in 1 .. n : OffsetOf(types, i) = SizeOf(t) * (i - 1)
<1>1. \A j \in 0 .. n - 0 : OffsetOf(types, 0 + 1 + j) = OffsetOf(types, 0 + 1) + SizeOf(t) * j
  <2>1. 0 \in Nat /\ 0 <= n /\ \A k \in 0 + 1 .. n : types[k] = t
    OBVIOUS
  <2>. QED  BY <2>1, OffsetUniform
<1>2. OffsetOf(types, 0 + 1) = 0
  <2>1. 0 + 1 = 1
    OBVIOUS
  <2>. QED  BY <2>1, OffsetStep
<1>3. ASSUME NEW i \in 1 .. n PROVE OffsetOf(types, i) = SizeOf(t) * (i - 1)
  <2>1. i - 1 \in 0 .. n - 0 /\ 0 + 1 + (i - 1) = i
    OBVIOUS
  <2>2. SizeOf(t) * (i - 1) \in Nat
    <3>1. SizeOf(t) \in Nat /\ i - 1 \in Nat
      BY SizeFacts
    <3>. QED  BY <3>1
  <2>. DEFINE z == SizeOf(t) * (i - 1)
  <2>3. OffsetOf(types, i) = OffsetOf(types, 0 + 1) + z
    BY <1>1, <2>1
  <2>. HIDE DEF z
  <2>4. OffsetOf(types, i) = z
    BY <1>2, <2>2, <2>3 DEF z
  <2>. QED  BY <2>4 DEF z
<1>. QED
  BY <1>3

\* The layout of what the getter of a topic returns.
LEMMA GetterFacts ==
  ASSUME NEW topic \in Topics
  PROVE  LET types == Results[Getter[topic]]
             n == Len(SampleFields[topic])
             a == FirstField(topic)
         IN /\ Listed(types, a + n) /\ n \in Nat
            /\ \A i \in 1 .. n :
                 /\ types[a + i] = IF topic = "MOTOR_FAULTS" THEN "bool" ELSE "double"
                 /\ OffsetOf(types, a + i) = FirstByte(topic) + FieldWidth(topic) * (i - 1)
            /\ Timed(topic) =>
                 /\ types[1] = "u64" /\ types[2] = "u8" /\ types[3] = "u8"
                 /\ OffsetOf(types, 1) = 0 /\ OffsetOf(types, 2) = 8 /\ OffsetOf(types, 3) = 9
<1>. DEFINE types == Results[Getter[topic]]
            n == Len(SampleFields[topic])
            a == FirstField(topic)
<1>1. n \in Nat
  BY LayoutFacts
<1>2. CASE topic \in {"ENCODER_ODOMETRY", "PLATFORM_ODOMETRY"}
  <2>1. types = Timestamp \o Doubles(n)
    <3>1. topic = "ENCODER_ODOMETRY" => n = 1 /\ types = Timestamp \o Doubles(1)
      BY DEF SampleFields, Results, Getter
    <3>2. topic = "PLATFORM_ODOMETRY" => n = 3 /\ types = Timestamp \o Doubles(3)
      BY DEF SampleFields, Results, Getter
    <3>. QED  BY <1>2, <3>1, <3>2
  <2>2. Timed(topic) /\ a = 3 /\ FirstByte(topic) = 10 /\ FieldWidth(topic) = 8
        /\ topic # "MOTOR_FAULTS"
    BY <1>2 DEF Timed, FirstField, FirstByte, FieldWidth, DoubleBytes
  <2>. HIDE DEF n, types, a
  <2>. QED  BY <1>1, <2>1, <2>2, TimedLayout DEF n, types, a
<1>3. CASE topic \in {"TEMPERATURE", "IMU", "MOTOR_CURRENT"}
  <2>1. types = Doubles(n)
    <3>1. topic = "TEMPERATURE" => n = 1 /\ types = Doubles(1)
      BY DEF SampleFields, Results, Getter
    <3>2. topic = "IMU" => n = 6 /\ types = Doubles(6)
      BY DEF SampleFields, Results, Getter
    <3>3. topic = "MOTOR_CURRENT" => n = 1 /\ types = Doubles(1)
      BY DEF SampleFields, Results, Getter
    <3>. QED  BY <1>3, <3>1, <3>2, <3>3
  <2>2. ~Timed(topic) /\ a = 0 /\ FirstByte(topic) = 0 /\ FieldWidth(topic) = 8
        /\ topic # "MOTOR_FAULTS"
    BY <1>3 DEF Timed, FirstField, FirstByte, FieldWidth, DoubleBytes
  <2>. HIDE DEF n, types, a
  <2>3. Listed(types, n) /\ \A k \in 1 .. n : types[k] = "double"
    BY <1>1, <2>1, DoublesFacts
  <2>4. \A i \in 1 .. n : OffsetOf(types, i) = SizeOf("double") * (i - 1)
    <3>1. "double" \in Types
      BY DEF Types
    <3>. QED  BY <1>1, <2>3, <3>1, PlainLayout
  <2>5. 0 + n = n /\ \A i \in 1 .. n : 0 + i = i /\ 0 + 8 * (i - 1) = 8 * (i - 1)
    BY <1>1
  <2>6. SizeOf("double") = 8
    BY SizeFacts
  <2>. QED  BY <1>1, <2>2, <2>3, <2>4, <2>5, <2>6 DEF n, types, a
<1>4. CASE topic = "MOTOR_FAULTS"
  <2>1. types = Bools(n)
    BY <1>4 DEF SampleFields, Results, Getter, FaultStatus
  <2>2. ~Timed(topic) /\ a = 0 /\ FirstByte(topic) = 0 /\ FieldWidth(topic) = 1
    BY <1>4 DEF Timed, FirstField, FirstByte, FieldWidth
  <2>. HIDE DEF n, types, a
  <2>3. Listed(types, n) /\ \A k \in 1 .. n : types[k] = "bool"
    BY <1>1, <2>1, DoublesFacts
  <2>4. \A i \in 1 .. n : OffsetOf(types, i) = SizeOf("bool") * (i - 1)
    <3>1. "bool" \in Types
      BY DEF Types
    <3>. QED  BY <1>1, <2>3, <3>1, PlainLayout
  <2>5. 0 + n = n /\ \A i \in 1 .. n : 0 + i = i /\ 0 + 1 * (i - 1) = 1 * (i - 1)
    BY <1>1
  <2>6. SizeOf("bool") = 1
    BY SizeFacts
  <2>. QED  BY <1>1, <1>4, <2>2, <2>3, <2>4, <2>5, <2>6 DEF n, types, a
<1>. QED
  BY <1>2, <1>3, <1>4 DEF Topics

\* The response is the end of the sample.
LEMMA ResponseFacts ==
  ASSUME NEW s \in Samples
  PROVE  LET skipped == 10 - FirstByte(s.topic)
         IN /\ skipped \in Nat
            /\ FirstByte(s.topic) \in Nat
            /\ DOMAIN Response(s) = 0 .. TopicSize[s.topic] - skipped - 1
            /\ \A b \in DOMAIN Response(s) : Response(s)[b] = Packed(s)[b + skipped]
<1>1. 10 - FirstByte(s.topic) = IF Timed(s.topic) THEN 0 ELSE 10
  BY DEF FirstByte
<1>2. FirstByte(s.topic) \in Nat
  BY DEF FirstByte
<1>. QED
  BY <1>1, <1>2 DEF Response

\* Eight bytes read in the response and in the sample it was cut from.
LEMMA ReadEight ==
  ASSUME NEW r, NEW p, NEW off \in Nat, NEW d \in Nat,
         \A j \in 0 .. 8 - 1 : r[off + j] = p[(off + d) + j]
  PROVE  ReadUnsigned(r, off, 8) = ReadUnsigned(p, off + d, 8)
<1>. DEFINE o == off + d
<1>1. o \in Nat
  OBVIOUS
<1>2. \A i \in 1 .. 8 : r[off + i - 1] = p[o + i - 1]
  <2>1. ASSUME NEW i \in 1 .. 8 PROVE r[off + i - 1] = p[o + i - 1]
    <3>1. i - 1 \in 0 .. 8 - 1 /\ off + (i - 1) = off + i - 1
      OBVIOUS
    <3>2. r[off + (i - 1)] = p[o + (i - 1)]
      BY <3>1, Zenon
    <3>. HIDE DEF o
    <3>3. o + (i - 1) = o + i - 1
      BY <1>1
    <3>. QED  BY <3>1, <3>2, <3>3
  <2>. QED  BY <2>1
<1>. HIDE DEF o
<1>3. [i \in 1 .. 8 |-> r[off + i - 1] * Pow2[ByteBits * (i - 1)]]
        = [i \in 1 .. 8 |-> p[o + i - 1] * Pow2[ByteBits * (i - 1)]]
  BY <1>2
<1>. QED
  BY <1>3 DEF ReadUnsigned, o

\* Eight bytes are read as the number that was written.
LEMMA WrittenEight ==
  ASSUME NEW v \in Nat, NEW o \in Nat, NEW p, v < Pow2[ByteBits * 8],
         \A j \in 0 .. 8 - 1 : p[o + j] = WriteUnsigned(v, 8)[j]
  PROVE  ReadUnsigned(p, o, 8) = v
<1>. DEFINE size == 8
<1>1. size \in Nat
  OBVIOUS
<1>2. v < Pow2[ByteBits * size]
  OBVIOUS
<1>3. \A j \in 0 .. size - 1 : p[o + j] = WriteUnsigned(v, size)[j]
  OBVIOUS
<1>. HIDE DEF size
<1>4. ReadUnsigned(p, o, size) = v
  BY <1>1, <1>2, <1>3, WrittenIsRead, ZenonT(30)
<1>. QED  BY <1>4 DEF size

\* The first eight bytes, read in the response and in the sample.
LEMMA ReadFirstEight ==
  ASSUME NEW r, NEW p, \A j \in 0 .. 8 - 1 : r[0 + j] = p[0 + j]
  PROVE  ReadUnsigned(r, 0, 8) = ReadUnsigned(p, 0, 8)
<1>1. \A i \in 1 .. 8 : r[0 + i - 1] = p[0 + i - 1]
  <2>1. ASSUME NEW i \in 1 .. 8 PROVE r[0 + i - 1] = p[0 + i - 1]
    <3>1. i - 1 \in 0 .. 8 - 1 /\ 0 + (i - 1) = 0 + i - 1
      OBVIOUS
    <3>2. r[0 + (i - 1)] = p[0 + (i - 1)]
      BY <3>1, Zenon
    <3>. QED  BY <3>1, <3>2
  <2>. QED  BY <2>1
<1>2. [i \in 1 .. 8 |-> r[0 + i - 1] * Pow2[ByteBits * (i - 1)]]
        = [i \in 1 .. 8 |-> p[0 + i - 1] * Pow2[ByteBits * (i - 1)]]
  BY <1>1
<1>. QED  BY <1>2 DEF ReadUnsigned

\* A field of a sample, in the response of the getter.
LEMMA FieldInResponse ==
  ASSUME NEW s \in Samples, NEW i \in DOMAIN SampleFields[s.topic]
  PROVE  LET off == FirstByte(s.topic) + FieldWidth(s.topic) * (i - 1)
             f == SampleFields[s.topic][i]
         IN /\ off \in Nat /\ f \in Fields(s.topic) /\ off \in DOMAIN Response(s)
            /\ s.topic = "MOTOR_FAULTS" => Response(s)[off] = s.data[f]
            /\ s.topic # "MOTOR_FAULTS" =>
                 /\ ReadUnsigned(Response(s), off, 8) = s.data[f]
                 /\ ReadDoubleAt(TRUE, Response(s), off) = Arrived(TRUE, s, f)
<1>. DEFINE w == FieldWidth(s.topic)
            z == FirstByte(s.topic)
            d == 10 - z
            f == SampleFields[s.topic][i]
            off == z + w * (i - 1)
            n == TopicSize[s.topic]
<1>1. s.topic \in Topics /\ f \in Fields(s.topic)
  BY SampleFacts DEF Fields
<1>2. /\ w \in Nat \ {0} /\ i \in Nat /\ i >= 1 /\ n \in Nat
      /\ Offsets[s.topic][f] = 10 + w * (i - 1)
  <2>1. w \in Nat \ {0} /\ Len(SampleFields[s.topic]) \in Nat
    BY <1>1, WidthFacts
  <2>2. n = 10 + w * Len(SampleFields[s.topic]) /\ i \in Nat /\ i >= 1
        /\ Offsets[s.topic][f] = 10 + w * (i - 1)
    BY <1>1, LayoutFacts
  <2>3. w * Len(SampleFields[s.topic]) \in Nat
    BY <2>1
  <2>. QED  BY <2>1, <2>2, <2>3
<1>3. d \in Nat /\ z \in Nat /\ DOMAIN Response(s) = 0 .. n - d - 1
      /\ \A b \in DOMAIN Response(s) : Response(s)[b] = Packed(s)[b + d]
  BY ResponseFacts
<1>4. \A j \in 0 .. w - 1 : 10 + w * (i - 1) + j \in 10 .. n - 1
  BY PackedFacts
<1>. DEFINE k == w * (i - 1)
<1>5. k \in Nat /\ off = z + k /\ off \in Nat /\ off + d = 10 + k
  <2>1. i - 1 \in Nat
    BY <1>2
  <2>2. k \in Nat
    BY <1>2, <2>1
  <2>. HIDE DEF k, w
  <2>. QED  BY <1>3, <2>2 DEF k, w
<1>6. ASSUME NEW j \in 0 .. w - 1
      PROVE off + j \in DOMAIN Response(s) /\ Response(s)[off + j] = Packed(s)[(off + d) + j]
  <2>1. 10 + k + j \in 10 .. n - 1
    BY <1>4
  <2>. HIDE DEF k, w, off, z, d, n
  <2>2. off + j \in 0 .. n - d - 1 /\ (off + j) + d = (off + d) + j
    BY <1>2, <1>3, <1>5, <2>1 DEF d
  <2>. QED  BY <1>3, <2>2
<1>7. 0 \in 0 .. w - 1 /\ off + 0 = off /\ (off + d) + 0 = off + d
  <2>. HIDE DEF w, off, d
  <2>. QED  BY <1>2, <1>3, <1>5
<1>8. off \in DOMAIN Response(s) /\ Response(s)[off] = Packed(s)[off + d]
  <2>. HIDE DEF off, w, d
  <2>1. off + 0 \in DOMAIN Response(s) /\ Response(s)[off + 0] = Packed(s)[(off + d) + 0]
    BY <1>6, <1>7
  <2>. QED  BY <1>7, <2>1
<1>9. Offsets[s.topic][f] = off + d
  BY <1>2, <1>5
<1>10. ASSUME s.topic = "MOTOR_FAULTS" PROVE Response(s)[off] = s.data[f]
  <2>1. Packed(s)[Offsets[s.topic][f]] = s.data[f]
    BY <1>1, <1>10, PackedRead
  <2>. HIDE DEF off, d
  <2>. QED  BY <1>8, <1>9, <2>1
<1>11. ASSUME s.topic # "MOTOR_FAULTS"
       PROVE  /\ ReadUnsigned(Response(s), off, 8) = s.data[f]
              /\ ReadDoubleAt(TRUE, Response(s), off) = Arrived(TRUE, s, f)
  <2>1. w = 8
    BY <1>1, <1>11, WidthFacts
  <2>. HIDE DEF off, w, d, z, n
  <2>2. ReadUnsigned(Response(s), off, 8) = ReadUnsigned(Packed(s), off + d, 8)
    <3>1. off + d \in Nat /\ off \in Nat /\ 8 \in Nat
      BY <1>3, <1>5
    <3>2. \A j \in 0 .. 8 - 1 : Response(s)[off + j] = Packed(s)[(off + d) + j]
      BY <1>6, <2>1
    <3>. QED  BY <1>3, <3>1, <3>2, ReadEight
  <2>3. ReadDoubleAt(TRUE, Response(s), off) = ReadDoubleAt(TRUE, Packed(s), off + d)
    BY <2>2 DEF ReadDoubleAt, DoubleBytes
  <2>4. ReadDoubleAt(TRUE, Packed(s), off + d) = ReadDouble(TRUE, s.data[f])
    BY <1>1, <1>9, <1>11, PackedRead
  <2>5. ReadUnsigned(Packed(s), off + d, 8) = s.data[f]
    <3>1. i \in DOMAIN SampleFields[s.topic] /\ off + d = 10 + 8 * (i - 1)
      BY <1>2, <1>9, <2>1
    <3>2. \A j \in 0 .. 8 - 1 : Packed(s)[10 + 8 * (i - 1) + j] = WriteUnsigned(s.data[f], 8)[j]
      BY <2>1, PackedFacts DEF w
    <3>. DEFINE o == off + d
    <3>. HIDE DEF o, k, f
    <3>3. o \in Nat
      BY <1>3, <1>5 DEF o
    <3>6. \A j \in 0 .. 8 - 1 : Packed(s)[o + j] = WriteUnsigned(s.data[f], 8)[j]
      <4>1. o = 10 + 8 * (i - 1)
        BY <3>1 DEF o
      <4>. QED  BY <3>2, <4>1, Zenon DEF f
    <3>4. s.data[f] \in Nat /\ s.data[f] < Pow2[ByteBits * 8]
      <4>1. s.data[f] \in Bits
        BY <1>1, <1>11, SampleFacts
      <4>. QED  BY <4>1, BitsFit DEF DoubleBytes
    <3>5. ReadUnsigned(Packed(s), o, 8) = s.data[f]
      <4>. DEFINE v == s.data[f]
                  p == Packed(s)
      <4>1. v \in Nat
        BY <3>4
      <4>2. v < Pow2[ByteBits * 8]
        BY <3>4
      <4>3. \A j \in 0 .. 8 - 1 : p[o + j] = WriteUnsigned(v, 8)[j]
        BY <3>6
      <4>. HIDE DEF v, p
      <4>4. ReadUnsigned(p, o, 8) = v
        BY <3>3, <4>1, <4>2, <4>3, WrittenEight
      <4>. QED  BY <4>4 DEF v, p
    <3>. QED  BY <3>5 DEF o
  <2>. QED  BY <1>11, <2>2, <2>3, <2>4, <2>5 DEF Arrived
<1>. QED
  BY <1>1, <1>5, <1>8, <1>10, <1>11

\* What a method takes from the response for a field.
LEMMA TakenFields ==
  ASSUME NEW s \in Samples, NEW i \in DOMAIN SampleFields[s.topic]
  PROVE  LET types == Results[Getter[s.topic]]
             a == FirstField(s.topic)
             f == SampleFields[s.topic][i]
             taken == Taken(TRUE, types[a + i], Response(s), OffsetOf(types, a + i))
         IN /\ a + i \in DOMAIN types
            /\ s.topic = "MOTOR_FAULTS" => taken = IF s.data[f] # 0 THEN 1 ELSE 0
            /\ s.topic # "MOTOR_FAULTS" => taken = Arrived(TRUE, s, f)
<1>. DEFINE types == Results[Getter[s.topic]]
            a == FirstField(s.topic)
            f == SampleFields[s.topic][i]
            off == FirstByte(s.topic) + FieldWidth(s.topic) * (i - 1)
            n == Len(SampleFields[s.topic])
<1>1. s.topic \in Topics
  BY SampleFacts
<1>2. n \in Nat /\ i \in 1 .. n /\ a \in Nat
  BY <1>1, LayoutFacts DEF FirstField
<1>3. /\ Listed(types, a + n)
      /\ types[a + i] = IF s.topic = "MOTOR_FAULTS" THEN "bool" ELSE "double"
      /\ OffsetOf(types, a + i) = off
  BY <1>1, <1>2, GetterFacts
<1>4. a + i \in DOMAIN types
  <2>. HIDE DEF types, a, n
  <2>. QED  BY <1>2, <1>3 DEF Listed
<1>5. /\ off \in Nat
      /\ s.topic = "MOTOR_FAULTS" => Response(s)[off] = s.data[f]
      /\ s.topic # "MOTOR_FAULTS" => ReadDoubleAt(TRUE, Response(s), off) = Arrived(TRUE, s, f)
      /\ f \in Fields(s.topic)
  BY FieldInResponse
<1>6. s.data[f] \in Nat
  BY <1>5, SampleFacts
<1>. HIDE DEF types, a, off, f
<1>7. ASSUME s.topic = "MOTOR_FAULTS"
      PROVE  Taken(TRUE, types[a + i], Response(s), OffsetOf(types, a + i))
               = IF s.data[f] # 0 THEN 1 ELSE 0
  <2>1. types[a + i] = "bool" /\ OffsetOf(types, a + i) = off
    BY <1>3, <1>7
  <2>2. ReadUnsigned(Response(s), off, SizeOf("bool")) = s.data[f]
    <3>1. Response(s)[off] = s.data[f] /\ SizeOf("bool") = 1
      BY <1>5, <1>7, SizeFacts
    <3>2. ReadUnsigned(Response(s), off, 1) = Response(s)[off]
      BY <1>5, <1>6, <3>1, ReadByte
    <3>. QED  BY <3>1, <3>2
  <2>3. Taken(TRUE, "bool", Response(s), off) = IF s.data[f] # 0 THEN 1 ELSE 0
    BY <2>2 DEF Taken
  <2>. QED  BY <2>1, <2>3
<1>8. ASSUME s.topic # "MOTOR_FAULTS"
      PROVE  Taken(TRUE, types[a + i], Response(s), OffsetOf(types, a + i)) = Arrived(TRUE, s, f)
  <2>1. types[a + i] = "double" /\ OffsetOf(types, a + i) = off
    BY <1>3, <1>8
  <2>2. Taken(TRUE, "double", Response(s), off) = ReadDoubleAt(TRUE, Response(s), off)
    BY DEF Taken
  <2>. QED  BY <1>5, <1>8, <2>1, <2>2
<1>. QED
  BY <1>4, <1>7, <1>8 DEF types, a, f

\* A getter of odometry takes the time of the sample.
LEMMA TakenTime ==
  ASSUME NEW s \in Samples, Timed(s.topic)
  PROVE  LET types == Results[Getter[s.topic]]
             taken(i) == Taken(TRUE, types[i], Response(s), OffsetOf(types, i))
         IN /\ taken(1) = s.timestamp_us /\ taken(2) = s.clock_mode /\ taken(3) = s.clock_quality
            /\ {1, 2, 3} \subseteq DOMAIN types
<1>. DEFINE types == Results[Getter[s.topic]]
            r == Response(s)
            n == Len(SampleFields[s.topic])
<1>1. s.topic \in Topics /\ s.topic # "MOTOR_FAULTS"
  BY SampleFacts DEF Timed
<1>2. /\ types[1] = "u64" /\ types[2] = "u8" /\ types[3] = "u8"
      /\ OffsetOf(types, 1) = 0 /\ OffsetOf(types, 2) = 8 /\ OffsetOf(types, 3) = 9
      /\ n \in Nat /\ Listed(types, FirstField(s.topic) + n)
  BY <1>1, GetterFacts
<1>3. DOMAIN types = 1 .. 3 + n
  BY <1>2 DEF Listed, FirstField
<1>4. FirstByte(s.topic) = 10 /\ DOMAIN r = 0 .. TopicSize[s.topic] - 1
      /\ \A b \in DOMAIN r : r[b] = Packed(s)[b]
  <2>1. FirstByte(s.topic) = 10
    BY DEF FirstByte
  <2>2. TopicSize[s.topic] = 10 + 8 * n /\ n \in Nat
    BY <1>1, LayoutFacts, WidthFacts
  <2>3. /\ DOMAIN r = 0 .. TopicSize[s.topic] - 0 - 1
        /\ \A b \in DOMAIN r : r[b] = Packed(s)[b + 0]
    <3>1. 10 - FirstByte(s.topic) = 0
      BY <2>1
    <3>. QED  BY <3>1, ResponseFacts
  <2>. HIDE DEF r, n
  <2>4. TopicSize[s.topic] - 0 - 1 = TopicSize[s.topic] - 1
    BY <2>2
  <2>5. \A b \in DOMAIN r : b + 0 = b
    BY <2>3
  <2>. QED  BY <2>1, <2>3, <2>4, <2>5
<1>5. {b \in Nat : b <= 9} \subseteq DOMAIN r
  <2>1. TopicSize[s.topic] = 10 + 8 * n /\ n \in Nat
    BY <1>1, LayoutFacts, WidthFacts
  <2>2. 8 * n \in Nat
    BY <2>1
  <2>. HIDE DEF n
  <2>. QED  BY <1>4, <2>1, <2>2
<1>6. ReadUnsigned(r, 0, 8) = s.timestamp_us
  <2>. HIDE DEF r
  <2>1. \A j \in 0 .. 8 - 1 : r[0 + j] = Packed(s)[0 + j]
    BY <1>4, <1>5
  <2>2. ReadUnsigned(r, 0, 8) = ReadUnsigned(Packed(s), 0, 8)
    BY <2>1, ReadFirstEight
  <2>4. ReadUnsigned(Packed(s), 0, 8) = s.timestamp_us
    BY PackedRead
  <2>. QED  BY <2>2, <2>4
<1>7. ReadUnsigned(r, 8, 1) = s.clock_mode /\ ReadUnsigned(r, 9, 1) = s.clock_quality
  <2>1. r[8] = s.clock_mode /\ r[9] = s.clock_quality
    <3>. HIDE DEF r
    <3>. QED  BY <1>4, <1>5, PackedFacts
  <2>2. s.clock_mode \in Nat /\ s.clock_quality \in Nat
    BY SampleFacts
  <2>3. 8 \in Nat /\ 9 \in Nat
    OBVIOUS
  <2>. HIDE DEF r
  <2>4. ReadUnsigned(r, 8, 1) = r[8]
    BY <2>1, <2>2, <2>3, ReadByte
  <2>5. ReadUnsigned(r, 9, 1) = r[9]
    BY <2>1, <2>2, <2>3, ReadByte
  <2>. QED  BY <2>1, <2>4, <2>5
<1>8. \A o : /\ Taken(TRUE, "u64", r, o) = ReadUnsigned(r, o, 8)
             /\ Taken(TRUE, "u8", r, o) = ReadUnsigned(r, o, 1)
  BY SizeFacts DEF Taken
<1>9. {1, 2, 3} \subseteq DOMAIN types
  <2>. HIDE DEF types, n
  <2>. QED  BY <1>2, <1>3
<1>. HIDE DEF types, r, n
<1>10. /\ Taken(TRUE, types[1], r, OffsetOf(types, 1)) = s.timestamp_us
       /\ Taken(TRUE, types[2], r, OffsetOf(types, 2)) = s.clock_mode
       /\ Taken(TRUE, types[3], r, OffsetOf(types, 3)) = s.clock_quality
  BY <1>2, <1>6, <1>7, <1>8
<1>. QED
  BY <1>9, <1>10 DEF types, r

\* The checks of request() are those of the decoder, field by field.
LEMMA MalformedFields ==
  ASSUME NEW s \in Samples
  PROVE  ReplyMalformed(TRUE, Getter[s.topic], Response(s)) <=>
           /\ ~Timed(s.topic)
           /\ \E f \in Fields(s.topic) : ~Passes(s, Arrived(TRUE, s, f))
<1>. DEFINE r == Response(s)
            fields == SampleFields[s.topic]
            n == Len(fields)
            w == FieldWidth(s.topic)
<1>1. s.topic \in Topics /\ n \in Nat /\ DOMAIN fields = 1 .. n /\ w \in Nat
      /\ TopicSize[s.topic] = 10 + w * n
  BY SampleFacts, LayoutFacts, WidthFacts
<1>2. CASE Timed(s.topic)
  <2>1. Getter[s.topic] \in {"GET_ENCODER_ODOMETRY", "GET_PLATFORM_ODOMETRY"}
    BY <1>2 DEF Timed, Getter
  <2>2. ReplyMalformed(TRUE, Getter[s.topic], r) = FALSE
    BY <2>1 DEF ReplyMalformed
  <2>. QED  BY <1>2, <2>2
<1>3. CASE ~Timed(s.topic)
  <2>1. FirstByte(s.topic) = 0
    BY <1>3 DEF FirstByte
  <2>2. DOMAIN r = 0 .. w * n - 1
    <3>1. 10 - FirstByte(s.topic) = 10
      BY <2>1
    <3>2. DOMAIN r = 0 .. TopicSize[s.topic] - 10 - 1
      BY <3>1, ResponseFacts
    <3>3. w * n \in Nat
      BY <1>1
    <3>. HIDE DEF w, n, r
    <3>4. TopicSize[s.topic] - 10 - 1 = w * n - 1
      BY <1>1, <3>3
    <3>. QED  BY <3>2, <3>4
  <2>3. ASSUME NEW i \in 1 .. n
        PROVE  /\ w * (i - 1) \in DOMAIN r /\ fields[i] \in Fields(s.topic)
               /\ s.topic = "MOTOR_FAULTS" => r[w * (i - 1)] = s.data[fields[i]]
               /\ s.topic # "MOTOR_FAULTS" =>
                    ReadDoubleAt(TRUE, r, w * (i - 1)) = Arrived(TRUE, s, fields[i])
    <3>1. /\ 0 + w * (i - 1) \in DOMAIN r /\ fields[i] \in Fields(s.topic)
          /\ s.topic = "MOTOR_FAULTS" => r[0 + w * (i - 1)] = s.data[fields[i]]
          /\ s.topic # "MOTOR_FAULTS" =>
               ReadDoubleAt(TRUE, r, 0 + w * (i - 1)) = Arrived(TRUE, s, fields[i])
      BY <1>1, <2>1, <2>3, FieldInResponse
    <3>2. 0 + w * (i - 1) = w * (i - 1)
      BY <1>1, <2>3
    <3>. HIDE DEF r, fields, w, n
    <3>. QED  BY <3>1, <3>2
  <2>4. \A f \in Fields(s.topic) : \E i \in 1 .. n : f = fields[i]
    BY <1>1 DEF Fields
  <2>5. CASE s.topic = "MOTOR_FAULTS"
    <3>1. w = 1 /\ Getter[s.topic] = "GET_MOTOR_FAULTS"
      BY <1>1, <2>5, WidthFacts DEF Getter
    <3>2. ReplyMalformed(TRUE, Getter[s.topic], r) <=> \E b \in DOMAIN r : r[b] > 1
      BY <3>1 DEF ReplyMalformed
    <3>3. \A f \in Fields(s.topic) :
            s.data[f] \in Nat /\ (Passes(s, Arrived(TRUE, s, f)) <=> s.data[f] <= 1)
      BY <2>5, SampleFacts DEF Passes, Arrived
    <3>4. \A i \in 1 .. n : i - 1 \in DOMAIN r /\ r[i - 1] = s.data[fields[i]]
                            /\ fields[i] \in Fields(s.topic)
      <4>1. \A i \in 1 .. n : w * (i - 1) = i - 1
        BY <1>1, <3>1
      <4>. HIDE DEF r, fields, w, n
      <4>. QED  BY <2>3, <2>5, <4>1
    <3>5. \A b \in DOMAIN r : b + 1 \in 1 .. n /\ (b + 1) - 1 = b
      <4>1. w * n = n
        BY <1>1, <3>1
      <4>. HIDE DEF r, w, n
      <4>. QED  BY <1>1, <2>2, <4>1
    <3>6. (\E b \in DOMAIN r : r[b] > 1) <=> \E f \in Fields(s.topic) : ~(s.data[f] <= 1)
      <4>. HIDE DEF r, fields, n
      <4>1. ASSUME NEW b \in DOMAIN r, r[b] > 1 PROVE \E f \in Fields(s.topic) : ~(s.data[f] <= 1)
        <5>1. b + 1 \in 1 .. n /\ (b + 1) - 1 = b
          BY <3>5
        <5>2. r[b] = s.data[fields[b + 1]] /\ fields[b + 1] \in Fields(s.topic)
          BY <3>4, <5>1
        <5>3. s.data[fields[b + 1]] \in Nat
          BY <3>3, <5>2
        <5>. QED  BY <4>1, <5>2, <5>3
      <4>2. ASSUME NEW f \in Fields(s.topic), ~(s.data[f] <= 1) PROVE \E b \in DOMAIN r : r[b] > 1
        <5>1. PICK i \in 1 .. n : f = fields[i]
          BY <2>4
        <5>2. i - 1 \in DOMAIN r /\ r[i - 1] = s.data[f]
          BY <3>4, <5>1
        <5>3. s.data[f] \in Nat
          BY <3>3
        <5>. QED  BY <4>2, <5>2, <5>3
      <4>. QED  BY <4>1, <4>2
    <3>. QED  BY <1>3, <3>2, <3>3, <3>6
  <2>6. CASE s.topic # "MOTOR_FAULTS"
    <3>1. w = 8 /\ s.topic \in {"TEMPERATURE", "IMU", "MOTOR_CURRENT"}
      BY <1>1, <1>3, <2>6, WidthFacts DEF Topics, Timed
    <3>2. /\ Getter[s.topic] \in {"GET_TEMPERATURE", "GET_IMU", "GET_MOTOR_CURRENT"}
          /\ Getter[s.topic] = "GET_MOTOR_CURRENT" <=> s.topic = "MOTOR_CURRENT"
      BY <3>1 DEF Getter
    <3>3. ReplyMalformed(TRUE, Getter[s.topic], r) <=>
            \/ s.topic = "MOTOR_CURRENT" /\ Negative(ReadDoubleAt(TRUE, r, 0))
            \/ \E b \in DOMAIN r : b % 8 = 0 /\ ReadDoubleAt(TRUE, r, b).kind # "finite"
      BY <3>2 DEF ReplyMalformed
    <3>4. \A x : Passes(s, x) <=>
                   x.kind = "finite" /\ (s.topic = "MOTOR_CURRENT" => ~Negative(x))
      BY <2>6 DEF Passes, DoubleAccepted
    <3>5. \A i \in 1 .. n : /\ 8 * (i - 1) \in DOMAIN r /\ fields[i] \in Fields(s.topic)
                            /\ ReadDoubleAt(TRUE, r, 8 * (i - 1)) = Arrived(TRUE, s, fields[i])
      BY <2>3, <2>6, <3>1
    <3>6. \A b \in DOMAIN r : b % 8 = 0 => \E i \in 1 .. n : b = 8 * (i - 1)
      <4>. SUFFICES ASSUME NEW b \in DOMAIN r, b % 8 = 0 PROVE \E i \in 1 .. n : b = 8 * (i - 1)
        OBVIOUS
      <4>1. b \in 0 .. 8 * n - 1
        BY <2>2, <3>1
      <4>2. b \in Nat /\ 8 \in Nat \ {0} /\ b <= 8 * n - 1
        BY <1>1, <4>1
      <4>3. b \div 8 \in Nat /\ b = (b \div 8) * 8 + (b % 8)
        BY <4>2, DivMod
      <4>. DEFINE q == b \div 8
      <4>. HIDE DEF q
      <4>4. q \in Nat /\ b = q * 8
        BY <4>3 DEF q
      <4>5. q + 1 \in 1 .. n /\ b = 8 * ((q + 1) - 1)
        <5>. HIDE DEF n
        <5>. QED  BY <1>1, <4>2, <4>4
      <4>. QED  BY <4>5
    <3>7. s.topic = "MOTOR_CURRENT" => n = 1
      BY DEF SampleFields
    <3>. HIDE DEF r, fields, n, w
    <3>8. ASSUME NEW f \in Fields(s.topic), ~Passes(s, Arrived(TRUE, s, f))
          PROVE  ReplyMalformed(TRUE, Getter[s.topic], r)
      <4>1. PICK i \in 1 .. n : f = fields[i]
        BY <2>4
      <4>. DEFINE b == 8 * (i - 1)
      <4>2. b \in DOMAIN r /\ ReadDoubleAt(TRUE, r, b) = Arrived(TRUE, s, f)
        BY <3>5, <4>1
      <4>3. b % 8 = 0
        <5>1. i - 1 \in Nat /\ 8 \in Nat \ {0} /\ 0 \in Nat /\ 0 < 8 /\ b = (i - 1) * 8 + 0
          BY <1>1
        <5>2. ((i - 1) * 8 + 0) % 8 = 0
          BY <5>1, DivModUnique
        <5>. HIDE DEF b
        <5>. QED  BY <5>1, <5>2
      <4>4. s.topic = "MOTOR_CURRENT" => b = 0
        <5>1. s.topic = "MOTOR_CURRENT" => i = 1
          BY <3>7
        <5>. QED  BY <5>1
      <4>. HIDE DEF b
      <4>. QED  BY <3>3, <3>4, <3>8, <4>2, <4>3, <4>4
    <3>9. ASSUME ReplyMalformed(TRUE, Getter[s.topic], r)
          PROVE  \E f \in Fields(s.topic) : ~Passes(s, Arrived(TRUE, s, f))
      <4>1. CASE \E b \in DOMAIN r : b % 8 = 0 /\ ReadDoubleAt(TRUE, r, b).kind # "finite"
        <5>1. PICK b \in DOMAIN r : b % 8 = 0 /\ ReadDoubleAt(TRUE, r, b).kind # "finite"
          BY <4>1
        <5>2. PICK i \in 1 .. n : b = 8 * (i - 1)
          BY <3>6, <5>1
        <5>. QED  BY <3>4, <3>5, <5>1, <5>2
      <4>2. CASE s.topic = "MOTOR_CURRENT" /\ Negative(ReadDoubleAt(TRUE, r, 0))
        <5>1. 1 \in 1 .. n /\ 8 * (1 - 1) = 0
          BY <3>7, <4>2
        <5>2. fields[1] \in Fields(s.topic)
              /\ ReadDoubleAt(TRUE, r, 8 * (1 - 1)) = Arrived(TRUE, s, fields[1])
          BY <3>5, <5>1
        <5>. QED  BY <3>4, <4>2, <5>1, <5>2
      <4>. QED  BY <3>3, <3>9, <4>1, <4>2
    <3>. QED  BY <1>3, <3>8, <3>9 DEF r
  <2>. QED  BY <2>5, <2>6
<1>. QED
  BY <1>2, <1>3

\* A reading and a sample of the same data.
LEMMA ReadingAgrees ==
  ASSUME NEW s \in Samples, TopicInfoValid(s.topic, s.index),
         s.clock_mode <= 1, s.clock_quality \in {1, 2}
  PROVE  LET n == DecodeTelemetry(TRUE, s.topic, s.index, Packed(s))
             r == Reading(TRUE, Getter[s.topic], Response(s))
             fields == SampleFields[s.topic]
             first == IF Timed(s.topic) THEN Len(Timestamp) ELSE 0
         IN /\ r.decoded <=> (n.decoded \/ Timed(s.topic))
            /\ n.decoded =>
                 /\ \A i \in DOMAIN fields : r.values[first + i] = n.data[fields[i]]
                 /\ Timed(s.topic) =>
                      SubSeq(r.values, 1, first)
                        = <<n.timestamp_us, n.clock_mode, n.clock_quality>>
<1>. DEFINE n == DecodeTelemetry(TRUE, s.topic, s.index, Packed(s))
            r == Reading(TRUE, Getter[s.topic], Response(s))
            fields == SampleFields[s.topic]
            a == FirstField(s.topic)
            types == Results[Getter[s.topic]]
            values == [i \in DOMAIN types |->
                         Taken(TRUE, types[i], Response(s), OffsetOf(types, i))]
            sample == [decoded |-> TRUE, topic |-> s.topic, index |-> s.index,
                       timestamp_us |-> s.timestamp_us,
                       clock_mode |-> s.clock_mode, clock_quality |-> s.clock_quality,
                       data |-> [f \in Fields(s.topic) |-> Arrived(TRUE, s, f)]]
            AllPass == \A f \in Fields(s.topic) : Passes(s, Arrived(TRUE, s, f))
            malformed == ReplyMalformed(TRUE, Getter[s.topic], Response(s))
<1>1. (IF Timed(s.topic) THEN Len(Timestamp) ELSE 0) = a
  BY TimestampFacts DEF FirstField
<1>2. n = IF AllPass THEN sample ELSE Refused
  <2>1. s.clock_quality \in 1 .. 2
    OBVIOUS
  <2>2. TRUE \in BOOLEAN
    OBVIOUS
  <2>3. n = IF /\ TopicInfoValid(s.topic, s.index)
               /\ s.clock_mode <= 1 /\ s.clock_quality \in 1 .. 2
               /\ AllPass
            THEN sample ELSE Refused
    BY <2>2, Decoded, Zenon
  <2>. HIDE DEF n, sample, AllPass
  <2>. QED  BY <2>1, <2>3, Zenon
<1>3. r = IF malformed THEN Refused ELSE [decoded |-> TRUE, values |-> values]
  BY DEF Reading
<1>4. malformed <=> ~Timed(s.topic) /\ ~AllPass
  BY MalformedFields
<1>5. sample.decoded = TRUE /\ Refused.decoded = FALSE
      /\ [decoded |-> TRUE, values |-> values].decoded = TRUE
  BY DEF Refused
<1>6. r.decoded <=> (n.decoded \/ Timed(s.topic))
  <2>. HIDE DEF n, r, sample, AllPass, malformed, values
  <2>1. n.decoded <=> AllPass
    BY <1>2, <1>5
  <2>2. r.decoded <=> ~malformed
    BY <1>3, <1>5
  <2>. QED  BY <1>4, <2>1, <2>2
<1>7. ASSUME n.decoded
      PROVE  AllPass /\ n = sample /\ r = [decoded |-> TRUE, values |-> values]
  <2>. HIDE DEF n, r, sample, AllPass, malformed, values
  <2>. QED  BY <1>2, <1>3, <1>4, <1>5, <1>7
<1>8. ASSUME n.decoded, NEW i \in DOMAIN fields
      PROVE  r.values[a + i] = n.data[fields[i]]
  <2>1. AllPass /\ n = sample /\ r = [decoded |-> TRUE, values |-> values]
    BY <1>7, <1>8
  <2>2. /\ a + i \in DOMAIN types
        /\ s.topic = "MOTOR_FAULTS" =>
             Taken(TRUE, types[a + i], Response(s), OffsetOf(types, a + i))
               = IF s.data[fields[i]] # 0 THEN 1 ELSE 0
        /\ s.topic # "MOTOR_FAULTS" =>
             Taken(TRUE, types[a + i], Response(s), OffsetOf(types, a + i))
               = Arrived(TRUE, s, fields[i])
    BY TakenFields
  <2>3. fields[i] \in Fields(s.topic)
    BY DEF Fields
  <2>4. s.topic = "MOTOR_FAULTS" =>
          s.data[fields[i]] \in Nat /\ s.data[fields[i]] <= 1
          /\ Arrived(TRUE, s, fields[i]) = s.data[fields[i]]
    <3>. SUFFICES ASSUME s.topic = "MOTOR_FAULTS"
                  PROVE  s.data[fields[i]] \in Nat /\ s.data[fields[i]] <= 1
                         /\ Arrived(TRUE, s, fields[i]) = s.data[fields[i]]
      OBVIOUS
    <3>1. s.data[fields[i]] \in Nat
      BY <2>3, SampleFacts
    <3>2. Arrived(TRUE, s, fields[i]) = s.data[fields[i]]
      BY DEF Arrived
    <3>3. Passes(s, Arrived(TRUE, s, fields[i]))
      BY <2>1, <2>3
    <3>. QED  BY <3>1, <3>2, <3>3 DEF Passes
  <2>5. values[a + i] = Taken(TRUE, types[a + i], Response(s), OffsetOf(types, a + i))
    <3>. HIDE DEF types, a
    <3>. QED  BY <2>2
  <2>6. sample.data[fields[i]] = Arrived(TRUE, s, fields[i])
    BY <2>3
  <2>7. values[a + i] = Arrived(TRUE, s, fields[i])
    <3>. DEFINE v == s.data[fields[i]]
                t == Taken(TRUE, types[a + i], Response(s), OffsetOf(types, a + i))
                x == Arrived(TRUE, s, fields[i])
    <3>1. CASE s.topic = "MOTOR_FAULTS"
      <4>1. v \in Nat /\ v <= 1 /\ x = v /\ t = IF v # 0 THEN 1 ELSE 0
        BY <2>2, <2>4, <3>1, Zenon
      <4>. HIDE DEF v, t, x
      <4>2. t = x
        BY <4>1
      <4>. QED  BY <2>5, <4>2, Zenon DEF t, x
    <3>2. CASE s.topic # "MOTOR_FAULTS"
      BY <2>2, <2>5, <3>2, Zenon
    <3>. QED  BY <3>1, <3>2
  <2>8. r.values[a + i] = values[a + i]
    <3>. HIDE DEF r, values, a
    <3>. QED  BY <2>1
  <2>. HIDE DEF r, values, a, n, sample, fields
  <2>. QED  BY <2>1, <2>6, <2>7, <2>8
<1>9. ASSUME n.decoded, Timed(s.topic)
      PROVE  SubSeq(r.values, 1, a) = <<n.timestamp_us, n.clock_mode, n.clock_quality>>
  <2>1. n = sample /\ r = [decoded |-> TRUE, values |-> values]
    BY <1>7, <1>9
  <2>2. /\ Taken(TRUE, types[1], Response(s), OffsetOf(types, 1)) = s.timestamp_us
        /\ Taken(TRUE, types[2], Response(s), OffsetOf(types, 2)) = s.clock_mode
        /\ Taken(TRUE, types[3], Response(s), OffsetOf(types, 3)) = s.clock_quality
        /\ {1, 2, 3} \subseteq DOMAIN types
    BY <1>9, TakenTime
  <2>3. a = 3
    BY <1>9 DEF FirstField
  <2>4. r.values = values
    <3>. HIDE DEF r, values
    <3>. QED  BY <2>1
  <2>5. values[1] = s.timestamp_us /\ values[2] = s.clock_mode /\ values[3] = s.clock_quality
    <3>. HIDE DEF types
    <3>. QED  BY <2>2
  <2>6. n.timestamp_us = s.timestamp_us /\ n.clock_mode = s.clock_mode
        /\ n.clock_quality = s.clock_quality
    <3>. HIDE DEF n
    <3>. QED  BY <2>1
  <2>. HIDE DEF r, values, n, a, types
  <2>7. SubSeq(values, 1, 3) = <<values[1], values[2], values[3]>>
    <3>. DEFINE S == {values[1], values[2], values[3]}
    <3>1. \A i \in 1 .. 3 : values[i] \in S
      OBVIOUS
    <3>2. 1 \in Int /\ 3 \in Int
      OBVIOUS
    <3>. HIDE DEF S
    <3>. DEFINE t == SubSeq(values, 1, 3)
    <3>3. t \in Seq(S) /\ Len(t) = 3 /\ \A i \in 1 .. 3 - 1 + 1 : t[i] = values[1 + i - 1]
      BY <3>1, <3>2, SubSeqProperties
    <3>. HIDE DEF t
    <3>4. t[1] = values[1] /\ t[2] = values[2] /\ t[3] = values[3]
      BY <3>3
    <3>5. t = <<t[1], t[2], t[3]>>
      BY <3>3
    <3>. QED  BY <3>4, <3>5 DEF t
  <2>. QED  BY <2>3, <2>4, <2>5, <2>6, <2>7
<1>. HIDE DEF n, r, a, fields
<1>. QED
  BY <1>1, <1>6, <1>8, <1>9 DEF n, r, fields

----------------------------------------------------------------------------
(* Doubles of a narrow board *)

\* A number of the native format is one its arithmetic can hold.
LEMMA NumberHeld ==
  ASSUME NEW m \in Nat, m < Pow2[FractionBits + 1], NEW e \in Int,
         e >= 1 - Bias(ExponentBits) - FractionBits, e <= Bias(ExponentBits) - FractionBits
  PROVE  Held(Number(m, e))
<1>. DEFINE x == Number(m, e)
<1>1. /\ FractionBits \in Nat /\ FractionBits + 1 \in Nat /\ Bias(ExponentBits) \in Nat
      /\ WireFractionBits + 2 \in Nat /\ FractionBits + 1 <= WireFractionBits + 2
      /\ Scale \in Nat /\ Bias(ExponentBits) + FractionBits - 1 <= Scale
  BY FormatFacts, ScaleFacts
<1>2. m < Wide
  <2>1. Pow2[FractionBits + 1] <= Pow2[WireFractionBits + 2]
    BY <1>1, Pow2Grows
  <2>2. Pow2[FractionBits + 1] \in Nat /\ Pow2[WireFractionBits + 2] \in Nat
    BY <1>1, Pow2Positive
  <2>. QED  BY <2>1, <2>2 DEF Wide
<1>3. e >= - Scale /\ e + Scale \in Nat
  BY <1>1
<1>4. /\ Plain(x) /\ Val(x) = m * Pow2[e + Scale] /\ x.m \in Nat
  BY <1>2, <1>3, NumberPlain
<1>5. CASE x.m = 0
  BY <1>4, <1>5 DEF Held, Representable
<1>6. CASE x.m # 0
  <2>1. Val(x) < Top
    <3>. DEFINE a == FractionBits + 1
                b == e + Scale
                t == Bias(ExponentBits) + 1 + Scale
    <3>1. a \in Nat /\ b \in Nat /\ t \in Nat /\ a + b <= t
      BY <1>1, <1>3
    <3>2. Val(x) = m * Pow2[b] /\ m < Pow2[a] /\ Top = Pow2[t]
      BY <1>4 DEF Top
    <3>. HIDE DEF a, b, t, x
    <3>3. Pow2[a + b] = Pow2[a] * Pow2[b] /\ Pow2[a + b] <= Pow2[t]
      <4>1. Pow2[a + b] = Pow2[a] * Pow2[b]
        BY <3>1, Pow2Sum
      <4>2. a + b \in Nat
        BY <3>1
      <4>. QED  BY <3>1, <4>1, <4>2, Pow2Grows
    <3>4. Pow2[a] \in Nat /\ Pow2[b] \in Nat \ {0} /\ Pow2[a + b] \in Nat /\ Pow2[t] \in Nat
      BY <3>1, Pow2Positive
    <3>5. \A p, q \in Nat, r \in Nat \ {0} : p < q => p * r < q * r
      OBVIOUS
    <3>6. m * Pow2[b] < Pow2[a] * Pow2[b] /\ m * Pow2[b] \in Nat
      BY <3>2, <3>4, <3>5
    <3>. QED  BY <3>2, <3>3, <3>4, <3>6
  <2>. QED  BY <1>4, <1>6, <2>1, MultipleHeld
<1>. QED
  BY <1>5, <1>6

\* What a pattern of the native format denotes, but for its sign.
LEMMA NativeDouble ==
  ASSUME NEW v \in NativeDoubles
  PROVE  \E x : \E s \in {0, 1} : Native(x) /\ v = Signed(x, s)
<1>1. PICK bits \in 0 .. Pow2[1 + ExponentBits + FractionBits] - 1 :
             v = Denoted(ExponentBits, FractionBits, bits)
  BY DEF NativeDoubles
<1>. DEFINE P == Pow2[FractionBits]
            Q == Pow2[ExponentBits]
            c == (bits \div P) % Q
            f == bits % P
            least == 1 - Bias(ExponentBits) - FractionBits
            x == CASE c = Q - 1 -> IF f # 0 THEN NotANumber ELSE Infinite
                   [] c = 0 -> Number(f, least)
                   [] OTHER -> Number(P + f, least + c - 1)
            signed == bits \div Pow2[ExponentBits + FractionBits] = 1
            s == IF signed THEN 1 ELSE 0
<1>2. v = [x EXCEPT !.negative = signed]
  BY <1>1 DEF Denoted
<1>3. (s = 1) = signed /\ s \in {0, 1}
  <2>1. signed \in BOOLEAN
    OBVIOUS
  <2>. HIDE DEF signed
  <2>. QED  BY <2>1
<1>4. v = Signed(x, s)
  <2>. HIDE DEF x, s, signed
  <2>. QED  BY <1>2, <1>3 DEF Signed
<1>5. /\ FractionBits \in Nat /\ ExponentBits \in Nat \ {0} /\ Bias(ExponentBits) \in Nat
      /\ P \in Nat \ {0} /\ Pow2[FractionBits + 1] = 2 * P /\ Q = 2 * Bias(ExponentBits) + 2
  <2>1. FractionBits \in Nat /\ ExponentBits \in Nat \ {0} /\ Bias(ExponentBits) \in Nat
    BY FormatFacts
  <2>2. Pow2[FractionBits] \in Nat \ {0} /\ Pow2[FractionBits + 1] = 2 * Pow2[FractionBits]
    BY <2>1, Pow2Positive, Pow2Unfolds
  <2>3. Q = 2 * Bias(ExponentBits) + 2
    <3>1. ExponentBits - 1 \in Nat /\ (ExponentBits - 1) + 1 = ExponentBits
      BY <2>1
    <3>2. Pow2[(ExponentBits - 1) + 1] = 2 * Pow2[ExponentBits - 1]
          /\ Pow2[ExponentBits - 1] \in Nat
      BY <3>1, Pow2Unfolds
    <3>. QED  BY <3>1, <3>2 DEF Bias
  <2>. QED  BY <2>1, <2>2, <2>3
<1>6. f \in Nat /\ f < P /\ c \in Nat /\ c < Q
  <2>1. bits \in Nat
    OBVIOUS
  <2>2. \A a \in Nat, b \in Nat \ {0} : a \div b \in Nat /\ a % b \in Nat /\ a % b < b
    BY DivMod, Zenon
  <2>3. Q \in Nat \ {0}
    <3>. HIDE DEF Q
    <3>. QED  BY <1>5
  <2>. HIDE DEF P, Q
  <2>4. bits \div P \in Nat /\ f \in Nat /\ f < P
    BY <1>5, <2>1, <2>2
  <2>. QED  BY <2>2, <2>3, <2>4
<1>7. Native(x)
  <2>. HIDE DEF P, Q, f, c
  <2>1. CASE c = Q - 1
    <3>0. c # 0
      BY <1>5, <2>1
    <3>1. x = IF f # 0 THEN NotANumber ELSE Infinite
      BY <2>1, <3>0
    <3>. HIDE DEF x
    <3>. QED  BY <3>1 DEF Native
  <2>2. CASE c # Q - 1 /\ c = 0
    <3>1. x = Number(f, least)
      BY <2>2
    <3>2. f < Pow2[FractionBits + 1] /\ least \in Int
          /\ least <= Bias(ExponentBits) - FractionBits
      <4>1. f < Pow2[FractionBits + 1]
        BY <1>5, <1>6
      <4>2. least \in Int
        BY <1>5
      <4>3. least <= Bias(ExponentBits) - FractionBits
        <5>1. Bias(ExponentBits) >= 1
          BY FormatFacts
        <5>. QED  BY <1>5, <5>1
      <4>. QED  BY <4>1, <4>2, <4>3
    <3>3. Held(Number(f, least))
      BY <1>6, <3>2, NumberHeld
    <3>. QED  BY <3>1, <3>3 DEF Native
  <2>3. CASE c # Q - 1 /\ c # 0
    <3>. DEFINE e == least + c - 1
                m == P + f
    <3>1. x = Number(m, e)
      BY <2>3
    <3>2. m \in Nat /\ m < Pow2[FractionBits + 1]
      BY <1>5, <1>6
    <3>3. e \in Int /\ e >= least /\ e <= Bias(ExponentBits) - FractionBits
      <4>1. c >= 1 /\ c <= 2 * Bias(ExponentBits)
        BY <1>5, <1>6, <2>3
      <4>. QED  BY <1>5, <1>6, <4>1
    <3>4. e >= 1 - Bias(ExponentBits) - FractionBits
      BY <3>3
    <3>. HIDE DEF e, m, least, x
    <3>5. Held(Number(m, e))
      BY <3>2, <3>3, <3>4, NumberHeld
    <3>. QED  BY <3>1, <3>5 DEF Native
  <2>. QED  BY <2>1, <2>2, <2>3
<1>. HIDE DEF x, s
<1>. QED
  BY <1>3, <1>4, <1>7

\* A native double crosses the wire unharmed in both directions.
LEMMA NativeCrosses ==
  ASSUME NEW v \in NativeDoubles
  PROVE  /\ WriteDouble(v) \in Bits
         /\ OnWire(WriteDouble(v)) = v /\ ReadDouble(TRUE, WriteDouble(v)) = v
<1>1. PICK x : \E s \in {0, 1} : Native(x) /\ v = Signed(x, s)
  BY NativeDouble, Zenon
<1>. QED
  BY <1>1, NativeSent

----------------------------------------------------------------------------
(* Values in a payload *)

\* The largest of one number.
LEMMA MaxOfOne ==
  ASSUME NEW a \in Int
  PROVE  Max({a}) = a
<1>1. {a} = {a, a}
  OBVIOUS
<1>. QED
  BY <1>1, MaxOfTwo

\* Later fields begin later.
LEMMA OffsetsGrow ==
  ASSUME NEW types, NEW n \in Nat, Listed(types, n),
         NEW a \in 1 .. n + 1, NEW b \in 1 .. n + 1, a <= b
  PROVE  OffsetOf(types, a) <= OffsetOf(types, b)
<1>. DEFINE o(k) == OffsetOf(types, k)
            P == {j \in Nat : a + j <= n + 1 => o(a) <= o(a + j)}
<1>1. /\ \A k \in 1 .. n : o(k + 1) = o(k) + SizeOf(types[k]) /\ SizeOf(types[k]) \in Nat
      /\ \A k \in 1 .. n + 1 : o(k) \in Nat
  BY OffsetStep, SizeFacts DEF Listed
<1>. HIDE DEF o
<1>2. 0 \in P
  <2>1. a + 0 = a /\ o(a) \in Nat
    BY <1>1
  <2>. QED  BY <2>1
<1>3. ASSUME NEW j \in Nat, j \in P PROVE j + 1 \in P
  <2>. SUFFICES ASSUME a + (j + 1) <= n + 1 PROVE o(a) <= o(a + (j + 1))
    OBVIOUS
  <2>1. a + j \in 1 .. n /\ a + j \in 1 .. n + 1 /\ (a + j) + 1 = a + (j + 1)
    OBVIOUS
  <2>2. o(a) <= o(a + j)
    BY <1>3, <2>1
  <2>3. o(a + (j + 1)) = o(a + j) + SizeOf(types[a + j]) /\ SizeOf(types[a + j]) \in Nat
        /\ o(a + j) \in Nat /\ o(a) \in Nat
    BY <1>1, <2>1
  <2>. QED  BY <2>2, <2>3
<1>. HIDE DEF P
<1>4. Nat \subseteq P
  BY <1>2, <1>3, InductionOverNat
<1>5. b - a \in Nat /\ a + (b - a) = b
  OBVIOUS
<1>6. o(a) <= o(a + (b - a))
  BY <1>4, <1>5 DEF P
<1>. QED
  BY <1>5, <1>6 DEF o

\* The number that the bytes of a value of a type stand for.
Raw(t, v) == IF t = "double" THEN WriteDouble(v)
             ELSE IF t = "i8" /\ v < 0 THEN v + ByteBase ELSE v

\* A signed byte is read as it was written.
LEMMA SignedByte ==
  ASSUME NEW v \in Values("i8")
  PROVE  /\ Raw("i8", v) \in 0 .. ByteBase - 1
         /\ WriteUnsigned(v, 1) = WriteUnsigned(Raw("i8", v), 1)
         /\ (IF Raw("i8", v) >= ByteBase \div 2 THEN Raw("i8", v) - ByteBase ELSE Raw("i8", v))
              = v
<1>. DEFINE h == ByteBase \div 2
            B == ByteBase
            r == Raw("i8", v)
<1>1. B \in Nat \ {0} /\ h \in Nat /\ h <= B /\ B = 2 * h
  <2>1. ByteBits - 1 \in Nat /\ (ByteBits - 1) + 1 = ByteBits
    BY ByteFacts
  <2>2. Pow2[(ByteBits - 1) + 1] = 2 * Pow2[ByteBits - 1] /\ Pow2[ByteBits - 1] \in Nat
    BY <2>1, Pow2Unfolds
  <2>. DEFINE p == Pow2[ByteBits - 1]
  <2>3. B = 2 * p /\ p \in Nat
    BY <2>1, <2>2 DEF ByteBase
  <2>. HIDE DEF p, B
  <2>4. B \div 2 = p
    BY <2>3
  <2>5. B \in Nat \ {0}
    BY ByteFacts DEF B
  <2>. QED  BY <2>3, <2>4, <2>5 DEF B
<1>2. v \in - h .. h - 1
  BY DEF Values
<1>3. r = IF v < 0 THEN v + B ELSE v
  BY DEF Raw
<1>. HIDE DEF h, B, r
<1>4. r \in 0 .. B - 1 /\ (IF r >= h THEN r - B ELSE r) = v /\ v \in Int
  BY <1>1, <1>2, <1>3
<1>5. v % B = r /\ r % B = r
  <2>1. \A b \in Nat \ {0}, x \in Int : - b <= x /\ x < 0 => x % b = x + b
    OBVIOUS
  <2>2. \A b \in Nat \ {0}, x \in Nat : x < b => x % b = x
    OBVIOUS
  <2>3. CASE v < 0
    <3>1. v \in Int /\ - B <= v /\ r = v + B /\ r \in Nat /\ r < B
      BY <1>1, <1>2, <1>3, <1>4, <2>3
    <3>2. v % B = v + B
      BY <1>1, <2>1, <2>3, <3>1
    <3>3. r % B = r
      BY <1>1, <2>2, <3>1
    <3>. QED  BY <3>1, <3>2, <3>3
  <2>4. CASE ~(v < 0)
    BY <1>1, <1>2, <1>3, <1>4, <2>2, <2>4
  <2>. QED  BY <2>3, <2>4
<1>6. ASSUME NEW x \in Int, x % B = r PROVE WriteUnsigned(x, 1) = [i \in {0} |-> r]
  <2>1. \A i \in {0} : Pow2[ByteBits * i] = 1
    <3>1. ByteBits * 0 = 0
      BY ByteFacts
    <3>. QED  BY <3>1, Pow2Unfolds
  <2>2. x \div 1 = x
    OBVIOUS
  <2>3. 0 .. 1 - 1 = {0}
    OBVIOUS
  <2>4. [i \in 0 .. 1 - 1 |-> (x \div Pow2[ByteBits * i]) % ByteBase] = [i \in {0} |-> r]
    <3>1. \A i \in {0} : (x \div Pow2[ByteBits * i]) % ByteBase = r
      BY <1>6, <2>1, <2>2 DEF B
    <3>. QED  BY <2>3, <3>1
  <2>. QED  BY <2>4 DEF WriteUnsigned
<1>7. r \in Int
  BY <1>1, <1>4
<1>8. WriteUnsigned(v, 1) = WriteUnsigned(r, 1)
  BY <1>4, <1>5, <1>6, <1>7
<1>. QED
  BY <1>4, <1>8 DEF B, h, r

\* A value fits into the bytes of its type.
LEMMA RawFacts ==
  ASSUME NEW t \in Types, NEW v \in Values(t)
  PROVE  /\ Raw(t, v) \in Nat /\ Raw(t, v) < Pow2[ByteBits * SizeOf(t)]
         /\ Written(t, v) = WriteUnsigned(Raw(t, v), SizeOf(t))
<1>1. CASE t = "double"
  <2>1. v \in NativeDoubles
    BY <1>1 DEF Values
  <2>2. WriteDouble(v) \in Bits
    BY <2>1, NativeCrosses
  <2>3. WriteDouble(v) \in Nat /\ WriteDouble(v) < Pow2[ByteBits * DoubleBytes]
    BY <2>2, BitsFit
  <2>. QED  BY <1>1, <2>3, SizeFacts DEF Raw, Written, DoubleBytes
<1>2. CASE t = "i8"
  <2>1. /\ Raw("i8", v) \in 0 .. ByteBase - 1
        /\ WriteUnsigned(v, 1) = WriteUnsigned(Raw("i8", v), 1)
    BY <1>2, SignedByte
  <2>2. ByteBits * 1 = ByteBits /\ ByteBase \in Nat
    BY ByteFacts
  <2>3. SizeOf("i8") = 1 /\ Pow2[ByteBits * SizeOf("i8")] = ByteBase
    BY <2>2, SizeFacts DEF ByteBase
  <2>4. Written("i8", v) = WriteUnsigned(v, SizeOf("i8"))
    BY DEF Written
  <2>. QED  BY <1>2, <2>1, <2>2, <2>3, <2>4
<1>3. CASE t = "bool"
  <2>1. v \in {0, 1}
    BY <1>3 DEF Values
  <2>2. ByteBits * 1 = ByteBits /\ ByteBase \in Nat /\ ByteBase >= 2
    BY ByteFacts
  <2>3. SizeOf("bool") = 1 /\ Pow2[ByteBits * SizeOf("bool")] = ByteBase
    BY <2>2, SizeFacts DEF ByteBase
  <2>4. Written("bool", v) = WriteUnsigned(v, SizeOf("bool")) /\ Raw("bool", v) = v
    BY DEF Written, Raw
  <2>. QED  BY <1>3, <2>1, <2>2, <2>3, <2>4
<1>4. CASE t \notin {"double", "i8", "bool"}
  <2>1. v \in 0 .. Pow2[ByteBits * SizeOf(t)] - 1
    BY <1>4 DEF Values
  <2>2. SizeOf(t) \in Nat
    BY SizeFacts
  <2>3. Pow2[ByteBits * SizeOf(t)] \in Nat
    BY <2>2, ByteFacts
  <2>4. Written(t, v) = WriteUnsigned(v, SizeOf(t)) /\ Raw(t, v) = v
    BY <1>4 DEF Written, Raw
  <2>. QED  BY <2>1, <2>3, <2>4
<1>. QED
  BY <1>1, <1>2, <1>3, <1>4

\* Every field of a payload can be read where it was written.
LEMMA FieldRead ==
  ASSUME NEW types, NEW n \in Nat, Listed(types, n),
         NEW values, \A k \in 1 .. n : values[k] \in Values(types[k]),
         NEW size \in Nat, OffsetOf(types, n + 1) <= size, NEW i \in 1 .. n
  PROVE  LET p == PackInto(size, types, values)
         IN /\ OffsetOf(types, i) \in Nat
            /\ \A j \in 0 .. SizeOf(types[i]) - 1 :
                 /\ OffsetOf(types, i) + j \in DOMAIN p
                 /\ p[OffsetOf(types, i) + j]
                      = WriteUnsigned(Raw(types[i], values[i]), SizeOf(types[i]))[j]
            /\ ReadUnsigned(p, OffsetOf(types, i), SizeOf(types[i])) = Raw(types[i], values[i])
<1>. DEFINE o(k) == OffsetOf(types, k)
            z(k) == SizeOf(types[k])
            w(k) == Written(types[k], values[k])
            p == PackInto(size, types, values)
            over(b) == {k \in DOMAIN types : b - o(k) \in DOMAIN w(k)}
<1>1. DOMAIN types = 1 .. n /\ \A k \in 1 .. n : types[k] \in Types
  BY DEF Listed
<1>2. \A k \in 1 .. n : z(k) \in Nat \ {0}
  BY <1>1, SizeFacts
<1>3. /\ \A k \in 1 .. n : o(k + 1) = o(k) + z(k)
      /\ \A k \in 1 .. n + 1 : o(k) \in Nat
  BY OffsetStep
<1>4. \A a, b \in 1 .. n + 1 : a <= b => o(a) <= o(b)
  BY OffsetsGrow
<1>5. \A k \in 1 .. n : /\ w(k) = WriteUnsigned(Raw(types[k], values[k]), z(k))
                        /\ Raw(types[k], values[k]) \in Nat
                        /\ Raw(types[k], values[k]) < Pow2[ByteBits * z(k)]
  BY <1>1, RawFacts
<1>6. \A k \in 1 .. n : DOMAIN w(k) = 0 .. z(k) - 1
  BY <1>5 DEF WriteUnsigned
<1>7. p = [b \in 0 .. size - 1 |->
             IF over(b) = {} THEN 0 ELSE w(Max(over(b)))[b - o(Max(over(b)))]]
  BY DEF PackInto
<1>. HIDE DEF o, z, w, p
<1>8. ASSUME NEW j \in 0 .. z(i) - 1
      PROVE  /\ o(i) + j \in 0 .. size - 1 /\ over(o(i) + j) = {i}
             /\ (o(i) + j) - o(i) = j
  <2>1. o(i) \in Nat /\ z(i) \in Nat /\ j \in Nat /\ o(i) + z(i) = o(i + 1)
        /\ (o(i) + j) - o(i) = j
    BY <1>2, <1>3
  <2>2. o(i + 1) <= o(n + 1) /\ o(n + 1) \in Nat /\ o(n + 1) <= size
    <3>1. i + 1 \in 1 .. n + 1 /\ n + 1 \in 1 .. n + 1 /\ i + 1 <= n + 1
      OBVIOUS
    <3>2. o(n + 1) <= size
      BY DEF o
    <3>. QED  BY <1>3, <1>4, <3>1, <3>2
  <2>3. o(i) + j \in 0 .. size - 1
    BY <2>1, <2>2
  <2>4. ASSUME NEW k \in 1 .. n, k # i PROVE ~((o(i) + j) - o(k) \in 0 .. z(k) - 1)
    <3>1. k + 1 \in 1 .. n + 1 /\ i + 1 \in 1 .. n + 1 /\ k \in 1 .. n + 1 /\ i \in 1 .. n + 1
      OBVIOUS
    <3>2. o(k) \in Nat /\ z(k) \in Nat /\ o(k) + z(k) = o(k + 1) /\ o(k + 1) \in Nat
          /\ o(i + 1) \in Nat
      BY <1>2, <1>3, <3>1
    <3>3. CASE k < i
      <4>1. o(k + 1) <= o(i)
        BY <1>4, <3>1, <3>3
      <4>. QED  BY <2>1, <3>2, <4>1
    <3>4. CASE k > i
      <4>1. o(i + 1) <= o(k)
        BY <1>4, <3>1, <3>4
      <4>. QED  BY <2>1, <3>2, <4>1
    <3>. QED  BY <2>4, <3>3, <3>4
  <2>5. over(o(i) + j) = {i}
    <3>. DEFINE b == o(i) + j
    <3>1. \A k \in 1 .. n : b - o(k) \in 0 .. z(k) - 1 <=> k = i
      BY <2>1, <2>4
    <3>. HIDE DEF b
    <3>2. over(b) = {k \in 1 .. n : b - o(k) \in 0 .. z(k) - 1}
      BY <1>1, <1>6
    <3>3. {k \in 1 .. n : b - o(k) \in 0 .. z(k) - 1} = {i}
      BY <3>1
    <3>. QED  BY <3>2, <3>3 DEF b
  <2>. QED  BY <2>1, <2>3, <2>5
<1>9. DOMAIN p = 0 .. size - 1
  BY <1>7
<1>10. ASSUME NEW j \in 0 .. z(i) - 1
       PROVE  o(i) + j \in DOMAIN p /\ p[o(i) + j] = w(i)[j]
  <2>. DEFINE b == o(i) + j
  <2>1. b \in 0 .. size - 1 /\ over(b) = {i} /\ b - o(i) = j
    BY <1>8
  <2>2. Max({i}) = i
    BY MaxOfOne
  <2>. HIDE DEF b, over
  <2>3. p[b] = IF over(b) = {} THEN 0 ELSE w(Max(over(b)))[b - o(Max(over(b)))]
    BY <1>7, <2>1
  <2>4. p[b] = w(i)[b - o(i)]
    BY <2>1, <2>2, <2>3
  <2>. QED  BY <1>9, <2>1, <2>4 DEF b
<1>11. o(i) \in Nat /\ z(i) \in Nat
  BY <1>2, <1>3
<1>. DEFINE r == Raw(types[i], values[i])
<1>12. /\ r \in Nat /\ r < Pow2[ByteBits * z(i)] /\ w(i) = WriteUnsigned(r, z(i))
  BY <1>5
<1>. HIDE DEF r
<1>13. \A j \in 0 .. z(i) - 1 : o(i) + j \in DOMAIN p /\ p[o(i) + j] = WriteUnsigned(r, z(i))[j]
  BY <1>10, <1>12
<1>14. ReadUnsigned(p, o(i), z(i)) = r
  <2>. DEFINE off == o(i)
              len == z(i)
  <2>. HIDE DEF off, len
  <2>1. off \in Nat /\ len \in Nat /\ r < Pow2[ByteBits * len]
        /\ \A j \in 0 .. len - 1 : p[off + j] = WriteUnsigned(r, len)[j]
    BY <1>11, <1>12, <1>13 DEF off, len
  <2>2. ReadUnsigned(p, off, len) = r
    BY <1>12, <2>1, WrittenIsRead
  <2>. QED  BY <2>2 DEF off, len
<1>. QED
  BY <1>11, <1>13, <1>14 DEF o, z, p, r

\* The controller gets back from a payload what a method put into it.
LEMMA UnpackedPacked ==
  ASSUME NEW types, NEW n \in Nat, Listed(types, n), \A k \in 1 .. n : types[k] # "i8",
         NEW values, Typed(types, values),
         NEW size \in Nat, OffsetOf(types, n + 1) <= size
  PROVE  Unpacked(types, PackInto(size, types, values)) = values
<1>. DEFINE p == PackInto(size, types, values)
            width == [k \in DOMAIN types |-> IF types[k] = "double" THEN 8 ELSE SizeOf(types[k])]
            sizes == [k \in DOMAIN types |-> SizeOf(types[k])]
            Field(k) == ReadUnsigned(p, Total(width, k - 1), width[k])
<1>1. DOMAIN types = 1 .. n /\ \A k \in 1 .. n : types[k] \in Types
  BY DEF Listed
<1>2. \A k \in 1 .. n : values[k] \in Values(types[k])
  BY <1>1 DEF Typed
<1>3. \A k \in 1 .. n : width[k] = SizeOf(types[k]) /\ sizes[k] = SizeOf(types[k])
      /\ SizeOf(types[k]) \in Nat
  BY <1>1, SizeFacts
<1>4. ASSUME NEW k \in 1 .. n PROVE Total(width, k - 1) = OffsetOf(types, k)
  <2>1. OffsetOf(types, k) = Total(sizes, k - 1)
    BY DEF OffsetOf
  <2>. HIDE DEF width, sizes
  <2>. DEFINE m == k - 1
  <2>2. m \in Nat /\ \A j \in 1 .. m : sizes[j] \in Nat /\ width[j] = sizes[j]
    BY <1>3
  <2>. HIDE DEF m
  <2>3. Total(sizes, m) = Total(width, m)
    BY <2>2, TotalSame
  <2>. QED  BY <2>1, <2>3 DEF m
<1>5. \A k \in 1 .. n : ReadUnsigned(p, OffsetOf(types, k), SizeOf(types[k]))
        = Raw(types[k], values[k])
  BY <1>2, FieldRead
<1>6. ASSUME NEW k \in 1 .. n
      PROVE  (IF types[k] = "double" THEN OnWire(Field(k)) ELSE Field(k)) = values[k]
  <2>1. Field(k) = Raw(types[k], values[k])
    <3>. HIDE DEF width, p
    <3>. QED  BY <1>3, <1>4, <1>5
  <2>. HIDE DEF Field
  <2>2. CASE types[k] = "double"
    <3>1. values[k] \in NativeDoubles
      BY <1>2, <2>2 DEF Values
    <3>2. OnWire(WriteDouble(values[k])) = values[k]
      BY <3>1, NativeCrosses
    <3>. QED  BY <2>1, <2>2, <3>2 DEF Raw
  <2>3. CASE types[k] # "double"
    <3>1. Raw(types[k], values[k]) = values[k]
      BY <2>3 DEF Raw
    <3>. QED  BY <2>1, <2>3, <3>1
  <2>. QED  BY <2>2, <2>3
<1>7. Unpacked(types, p)
        = [k \in DOMAIN types |-> IF types[k] = "double" THEN OnWire(Field(k)) ELSE Field(k)]
  BY DEF Unpacked
<1>. HIDE DEF Field, p
<1>8. values = [k \in DOMAIN types |-> values[k]]
  BY DEF Typed
<1>9. [k \in DOMAIN types |-> IF types[k] = "double" THEN OnWire(Field(k)) ELSE Field(k)]
        = [k \in DOMAIN types |-> values[k]]
  BY <1>1, <1>6
<1>. QED
  BY <1>7, <1>8, <1>9 DEF p

\* A method takes from a response what the controller put into it.
LEMMA TakenPacked ==
  ASSUME NEW types, NEW n \in Nat, Listed(types, n), NEW values, Typed(types, values),
         NEW size \in Nat, OffsetOf(types, n + 1) <= size, NEW i \in 1 .. n
  PROVE  Taken(TRUE, types[i], PackInto(size, types, values), OffsetOf(types, i)) = values[i]
<1>. DEFINE p == PackInto(size, types, values)
            o == OffsetOf(types, i)
            t == types[i]
            v == values[i]
<1>1. DOMAIN types = 1 .. n /\ t \in Types /\ v \in Values(t)
      /\ \A k \in 1 .. n : values[k] \in Values(types[k])
  BY DEF Listed, Typed
<1>2. ReadUnsigned(p, o, SizeOf(t)) = Raw(t, v)
  BY <1>1, FieldRead
<1>. HIDE DEF p, o, t, v
<1>3. CASE t = "double"
  <2>1. v \in NativeDoubles
    BY <1>1, <1>3 DEF Values
  <2>2. ReadDouble(TRUE, WriteDouble(v)) = v
    BY <2>1, NativeCrosses
  <2>3. ReadUnsigned(p, o, 8) = WriteDouble(v)
    BY <1>2, <1>3, SizeFacts DEF Raw
  <2>4. ReadDoubleAt(TRUE, p, o) = v
    BY <2>2, <2>3 DEF ReadDoubleAt, DoubleBytes
  <2>5. Taken(TRUE, "double", p, o) = ReadDoubleAt(TRUE, p, o)
    BY DEF Taken
  <2>. QED  BY <1>3, <2>4, <2>5 DEF p, o, t, v
<1>4. CASE t = "bool"
  <2>1. v \in {0, 1} /\ Raw("bool", v) = v
    BY <1>1, <1>4 DEF Values, Raw
  <2>2. Taken(TRUE, "bool", p, o) = IF ReadUnsigned(p, o, SizeOf("bool")) # 0 THEN 1 ELSE 0
    BY DEF Taken
  <2>. QED  BY <1>2, <1>4, <2>1, <2>2 DEF p, o, t, v
<1>5. CASE t = "i8"
  <2>1. (IF Raw("i8", v) >= ByteBase \div 2 THEN Raw("i8", v) - ByteBase ELSE Raw("i8", v)) = v
    BY <1>1, <1>5, SignedByte
  <2>2. ReadUnsigned(p, o, SizeOf("i8")) = Raw("i8", v)
    BY <1>2, <1>5
  <2>3. Taken(TRUE, "i8", p, o)
          = IF ReadUnsigned(p, o, SizeOf("i8")) >= ByteBase \div 2
            THEN ReadUnsigned(p, o, SizeOf("i8")) - ByteBase ELSE ReadUnsigned(p, o, SizeOf("i8"))
    BY DEF Taken
  <2>. QED  BY <1>5, <2>1, <2>2, <2>3 DEF p, o, t, v
<1>6. CASE t \notin {"double", "bool", "i8"}
  <2>1. Raw(t, v) = v
    BY <1>6 DEF Raw
  <2>2. Taken(TRUE, t, p, o) = ReadUnsigned(p, o, SizeOf(t))
    BY <1>6 DEF Taken
  <2>. QED  BY <1>2, <2>1, <2>2 DEF p, o, t, v
<1>. QED
  BY <1>3, <1>4, <1>5, <1>6

\* A list of n fields that take b bytes.
Sized(types, n, b) == types \in Seq(Types) /\ Len(types) = n /\ Listed(types, n)
/\ OffsetOf(types, n + 1) = b

\* Lists of one field, of no fields, and those with a field more.
LEMMA SizedNone == Sized(<<>>, 0, 0)
<1>1. <<>> \in Seq(Types) /\ Len(<<>>) = 0 /\ Listed(<<>>, 0)
  BY DEF Listed
<1>2. OffsetOf(<<>>, 1) = 0
  BY <1>1, OffsetStep
<1>. QED
  BY <1>1, <1>2 DEF Sized

\* Offsets depend on the fields before only.
LEMMA OffsetPrefix ==
  ASSUME NEW types, NEW other, NEW n \in Nat, NEW m \in Nat, Listed(types, n), Listed(other, m),
         NEW a \in Nat, a <= n, a <= m, \A k \in 1 .. a : types[k] = other[k]
  PROVE  OffsetOf(types, a + 1) = OffsetOf(other, a + 1)
<1>. DEFINE f == [k \in DOMAIN types |-> SizeOf(types[k])]
            h == [k \in DOMAIN other |-> SizeOf(other[k])]
<1>1. \A k \in 1 .. a : f[k] \in Nat /\ h[k] = f[k]
  BY SizeFacts DEF Listed
<1>2. OffsetOf(types, a + 1) = Total(f, a) /\ OffsetOf(other, a + 1) = Total(h, a)
  <2>1. (a + 1) - 1 = a
    OBVIOUS
  <2>. HIDE DEF f, h
  <2>. QED  BY <2>1 DEF OffsetOf, f, h
<1>. HIDE DEF f, h
<1>3. Total(f, a) = Total(h, a)
  BY <1>1, TotalSame
<1>. QED
  BY <1>2, <1>3

\* A list that goes on with fields of one type.
LEMMA SizedConcat ==
  ASSUME NEW p, NEW a \in Nat, NEW b \in Nat, Sized(p, a, b), NEW q \in Seq(Types), NEW m \in Nat,
         Len(q) = m, NEW t \in Types, \A k \in 1 .. m : q[k] = t
  PROVE  Sized(p \o q, a + m, b + SizeOf(t) * m)
<1>. DEFINE r == p \o q
            n == a + m
<1>1. p \in Seq(Types) /\ Len(p) = a /\ Listed(p, a) /\ OffsetOf(p, a + 1) = b
  BY DEF Sized
<1>2. /\ r \in Seq(Types) /\ Len(r) = n /\ Listed(r, n)
      /\ \A k \in 1 .. a : r[k] = p[k]
      /\ \A k \in 1 .. m : r[a + k] = t
  <2>1. /\ r \in Seq(Types) /\ Len(r) = Len(p) + Len(q) /\ Listed(r, Len(p) + Len(q))
        /\ \A k \in 1 .. Len(p) : r[k] = p[k]
        /\ \A k \in 1 .. Len(q) : r[Len(p) + k] = q[k]
    BY <1>1, ConcatFacts
  <2>2. Len(p) = a /\ Len(q) = m
    BY <1>1
  <2>. HIDE DEF r
  <2>. QED  BY <2>1, <2>2
<1>. HIDE DEF r
<1>3. n \in Nat /\ a <= n /\ \A k \in a + 1 .. n : r[k] = t
  <2>1. ASSUME NEW k \in a + 1 .. n PROVE r[k] = t
    <3>1. k - a \in 1 .. m /\ a + (k - a) = k
      OBVIOUS
    <3>. QED  BY <1>2, <3>1
  <2>. QED  BY <2>1
<1>4. OffsetOf(r, a + 1) = b
  <2>1. OffsetOf(r, a + 1) = OffsetOf(p, a + 1)
    <3>. HIDE DEF n
    <3>. QED  BY <1>1, <1>2, <1>3, OffsetPrefix
  <2>. QED  BY <1>1, <2>1
<1>5. OffsetOf(r, a + 1 + m) = OffsetOf(r, a + 1) + SizeOf(t) * m
  <2>1. m \in 0 .. n - a
    OBVIOUS
  <2>2. \A j \in 0 .. n - a : OffsetOf(r, a + 1 + j) = OffsetOf(r, a + 1) + SizeOf(t) * j
    <3>. HIDE DEF n
    <3>. QED  BY <1>2, <1>3, OffsetUniform
  <2>. QED  BY <2>1, <2>2
<1>6. a + 1 + m = n + 1
  OBVIOUS
<1>. QED
  BY <1>2, <1>4, <1>5, <1>6 DEF Sized, r

\* A field more at the end.
LEMMA SizedNext ==
  ASSUME NEW p, NEW a \in Nat, NEW b \in Nat, Sized(p, a, b), NEW t \in Types
  PROVE  Sized(Append(p, t), a + 1, b + SizeOf(t))
<1>1. p \in Seq(Types) /\ <<t>> \in Seq(Types) /\ Len(<<t>>) = 1 /\ \A k \in 1 .. 1 : <<t>>[k] = t
  BY DEF Sized
<1>2. Append(p, t) = p \o <<t>>
  BY <1>1
<1>3. Sized(p \o <<t>>, a + 1, b + SizeOf(t) * 1)
  <2>. DEFINE q == <<t>>
              one == 1
  <2>1. q \in Seq(Types) /\ one \in Nat /\ Len(q) = one /\ \A k \in 1 .. one : q[k] = t
    BY <1>1
  <2>. HIDE DEF q, one
  <2>2. Sized(p \o q, a + one, b + SizeOf(t) * one)
    BY <2>1, SizedConcat
  <2>. QED  BY <2>2 DEF q, one
<1>4. SizeOf(t) * 1 = SizeOf(t)
  BY SizeFacts
<1>. QED
  BY <1>2, <1>3, <1>4

----------------------------------------------------------------------------
(* The argument lists of the methods *)

\* The same with the sizes written out.
LEMMA SizedAppend ==
  ASSUME NEW p, NEW a \in Nat, NEW b \in Nat, Sized(p, a, b), NEW t \in Types,
         NEW q, q = Append(p, t), NEW n, n = a + 1, NEW c, c = b + SizeOf(t)
  PROVE  Sized(q, n, c)
BY SizedNext

\* The short lists of the methods and their bytes.
LEMMA SizedLists ==
  /\ Sized(<<"u8">>, 1, 1)
  /\ Sized(<<"i8">>, 1, 1)
  /\ Sized(<<"bool">>, 1, 1)
  /\ Sized(<<"u16">>, 1, 2)
  /\ Sized(<<"u32">>, 1, 4)
  /\ Sized(<<"u64">>, 1, 8)
  /\ Sized(<<"u8", "bool">>, 2, 2)
  /\ Sized(<<"u8", "double">>, 2, 9)
  /\ Sized(<<"u8", "u8">>, 2, 2)
  /\ Sized(<<"bool", "u32">>, 2, 5)
  /\ Sized(<<"bool", "u16">>, 2, 3)
  /\ Sized(<<"u8", "u32">>, 2, 5)
  /\ Sized(<<"u8", "double", "bool">>, 3, 10)
  /\ Sized(<<"u8", "u8", "u32">>, 3, 6)
  /\ Sized(<<"u8", "bool", "u16">>, 3, 4)
  /\ Sized(<<"u8", "bool", "u8">>, 3, 3)
  /\ Sized(<<"u8", "bool", "u8", "bool">>, 4, 4)
  /\ Sized(<<"u8", "u8", "u32", "u8">>, 4, 7)
  /\ Sized(<<"u8", "u8", "u32", "u8", "u8">>, 5, 8)
  /\ Sized(<<"u8", "u8", "u32", "u8", "u8", "u32">>, 6, 12)
  /\ Sized(<<"u8", "u8", "u32", "u64">>, 4, 14)
  /\ Sized(<<"u64", "u8">>, 2, 9)
  /\ Sized(<<"u64", "u8", "u8">>, 3, 10)
<1>1. {"u8", "i8", "bool", "u16", "u32", "u64", "double"} \subseteq Types
  BY DEF Types
<1>2. Sized(<<"u8">>, 1, 1)
  <2>1. <<"u8">> = Append(<<>>, "u8") /\ 1 = 0 + 1 /\ 1 = 0 + SizeOf("u8")
    BY SizeFacts
  <2>2. 0 \in Nat /\ 0 \in Nat /\ "u8" \in Types
    BY <1>1
  <2>. QED  BY <2>1, <2>2, SizedNone, SizedAppend
<1>3. Sized(<<"i8">>, 1, 1)
  <2>1. <<"i8">> = Append(<<>>, "i8") /\ 1 = 0 + 1 /\ 1 = 0 + SizeOf("i8")
    BY SizeFacts
  <2>2. 0 \in Nat /\ 0 \in Nat /\ "i8" \in Types
    BY <1>1
  <2>. QED  BY <2>1, <2>2, SizedNone, SizedAppend
<1>4. Sized(<<"bool">>, 1, 1)
  <2>1. <<"bool">> = Append(<<>>, "bool") /\ 1 = 0 + 1 /\ 1 = 0 + SizeOf("bool")
    BY SizeFacts
  <2>2. 0 \in Nat /\ 0 \in Nat /\ "bool" \in Types
    BY <1>1
  <2>. QED  BY <2>1, <2>2, SizedNone, SizedAppend
<1>5. Sized(<<"u16">>, 1, 2)
  <2>1. <<"u16">> = Append(<<>>, "u16") /\ 1 = 0 + 1 /\ 2 = 0 + SizeOf("u16")
    BY SizeFacts
  <2>2. 0 \in Nat /\ 0 \in Nat /\ "u16" \in Types
    BY <1>1
  <2>. QED  BY <2>1, <2>2, SizedNone, SizedAppend
<1>6. Sized(<<"u32">>, 1, 4)
  <2>1. <<"u32">> = Append(<<>>, "u32") /\ 1 = 0 + 1 /\ 4 = 0 + SizeOf("u32")
    BY SizeFacts
  <2>2. 0 \in Nat /\ 0 \in Nat /\ "u32" \in Types
    BY <1>1
  <2>. QED  BY <2>1, <2>2, SizedNone, SizedAppend
<1>7. Sized(<<"u64">>, 1, 8)
  <2>1. <<"u64">> = Append(<<>>, "u64") /\ 1 = 0 + 1 /\ 8 = 0 + SizeOf("u64")
    BY SizeFacts
  <2>2. 0 \in Nat /\ 0 \in Nat /\ "u64" \in Types
    BY <1>1
  <2>. QED  BY <2>1, <2>2, SizedNone, SizedAppend
<1>8. Sized(<<"u8", "bool">>, 2, 2)
  <2>1. <<"u8", "bool">> = Append(<<"u8">>, "bool") /\ 2 = 1 + 1 /\ 2 = 1 + SizeOf("bool")
    BY SizeFacts
  <2>2. 1 \in Nat /\ 1 \in Nat /\ "bool" \in Types
    BY <1>1
  <2>. QED  BY <2>1, <2>2, <1>2, SizedAppend
<1>9. Sized(<<"u8", "double">>, 2, 9)
  <2>1. <<"u8", "double">> = Append(<<"u8">>, "double") /\ 2 = 1 + 1 /\ 9 = 1 + SizeOf("double")
    BY SizeFacts
  <2>2. 1 \in Nat /\ 1 \in Nat /\ "double" \in Types
    BY <1>1
  <2>. QED  BY <2>1, <2>2, <1>2, SizedAppend
<1>10. Sized(<<"u8", "u8">>, 2, 2)
  <2>1. <<"u8", "u8">> = Append(<<"u8">>, "u8") /\ 2 = 1 + 1 /\ 2 = 1 + SizeOf("u8")
    BY SizeFacts
  <2>2. 1 \in Nat /\ 1 \in Nat /\ "u8" \in Types
    BY <1>1
  <2>. QED  BY <2>1, <2>2, <1>2, SizedAppend
<1>11. Sized(<<"bool", "u32">>, 2, 5)
  <2>1. <<"bool", "u32">> = Append(<<"bool">>, "u32") /\ 2 = 1 + 1 /\ 5 = 1 + SizeOf("u32")
    BY SizeFacts
  <2>2. 1 \in Nat /\ 1 \in Nat /\ "u32" \in Types
    BY <1>1
  <2>. QED  BY <2>1, <2>2, <1>4, SizedAppend
<1>12. Sized(<<"bool", "u16">>, 2, 3)
  <2>1. <<"bool", "u16">> = Append(<<"bool">>, "u16") /\ 2 = 1 + 1 /\ 3 = 1 + SizeOf("u16")
    BY SizeFacts
  <2>2. 1 \in Nat /\ 1 \in Nat /\ "u16" \in Types
    BY <1>1
  <2>. QED  BY <2>1, <2>2, <1>4, SizedAppend
<1>13. Sized(<<"u8", "u32">>, 2, 5)
  <2>1. <<"u8", "u32">> = Append(<<"u8">>, "u32") /\ 2 = 1 + 1 /\ 5 = 1 + SizeOf("u32")
    BY SizeFacts
  <2>2. 1 \in Nat /\ 1 \in Nat /\ "u32" \in Types
    BY <1>1
  <2>. QED  BY <2>1, <2>2, <1>2, SizedAppend
<1>14. Sized(<<"u8", "double", "bool">>, 3, 10)
  <2>1. <<"u8", "double", "bool">> = Append(<<"u8", "double">>, "bool") /\ 3 = 2 + 1
        /\ 10 = 9 + SizeOf("bool")
    BY SizeFacts
  <2>2. 2 \in Nat /\ 9 \in Nat /\ "bool" \in Types
    BY <1>1
  <2>. QED  BY <2>1, <2>2, <1>9, SizedAppend
<1>15. Sized(<<"u8", "u8", "u32">>, 3, 6)
  <2>1. <<"u8", "u8", "u32">> = Append(<<"u8", "u8">>, "u32") /\ 3 = 2 + 1
        /\ 6 = 2 + SizeOf("u32")
    BY SizeFacts
  <2>2. 2 \in Nat /\ 2 \in Nat /\ "u32" \in Types
    BY <1>1
  <2>. QED  BY <2>1, <2>2, <1>10, SizedAppend
<1>16. Sized(<<"u8", "bool", "u16">>, 3, 4)
  <2>1. <<"u8", "bool", "u16">> = Append(<<"u8", "bool">>, "u16") /\ 3 = 2 + 1
        /\ 4 = 2 + SizeOf("u16")
    BY SizeFacts
  <2>2. 2 \in Nat /\ 2 \in Nat /\ "u16" \in Types
    BY <1>1
  <2>. QED  BY <2>1, <2>2, <1>8, SizedAppend
<1>17. Sized(<<"u8", "bool", "u8">>, 3, 3)
  <2>1. <<"u8", "bool", "u8">> = Append(<<"u8", "bool">>, "u8") /\ 3 = 2 + 1
        /\ 3 = 2 + SizeOf("u8")
    BY SizeFacts
  <2>2. 2 \in Nat /\ 2 \in Nat /\ "u8" \in Types
    BY <1>1
  <2>. QED  BY <2>1, <2>2, <1>8, SizedAppend
<1>18. Sized(<<"u8", "bool", "u8", "bool">>, 4, 4)
  <2>1. <<"u8", "bool", "u8", "bool">> = Append(<<"u8", "bool", "u8">>, "bool") /\ 4 = 3 + 1
        /\ 4 = 3 + SizeOf("bool")
    BY SizeFacts
  <2>2. 3 \in Nat /\ 3 \in Nat /\ "bool" \in Types
    BY <1>1
  <2>. QED  BY <2>1, <2>2, <1>17, SizedAppend
<1>19. Sized(<<"u8", "u8", "u32", "u8">>, 4, 7)
  <2>1. <<"u8", "u8", "u32", "u8">> = Append(<<"u8", "u8", "u32">>, "u8") /\ 4 = 3 + 1
        /\ 7 = 6 + SizeOf("u8")
    BY SizeFacts
  <2>2. 3 \in Nat /\ 6 \in Nat /\ "u8" \in Types
    BY <1>1
  <2>. QED  BY <2>1, <2>2, <1>15, SizedAppend
<1>20. Sized(<<"u8", "u8", "u32", "u8", "u8">>, 5, 8)
  <2>1. <<"u8", "u8", "u32", "u8", "u8">> = Append(<<"u8", "u8", "u32", "u8">>, "u8")
        /\ 5 = 4 + 1 /\ 8 = 7 + SizeOf("u8")
    BY SizeFacts
  <2>2. 4 \in Nat /\ 7 \in Nat /\ "u8" \in Types
    BY <1>1
  <2>. QED  BY <2>1, <2>2, <1>19, SizedAppend
<1>21. Sized(<<"u8", "u8", "u32", "u8", "u8", "u32">>, 6, 12)
  <2>1. <<"u8", "u8", "u32", "u8", "u8", "u32">>
          = Append(<<"u8", "u8", "u32", "u8", "u8">>, "u32") /\ 6 = 5 + 1 /\ 12 = 8 + SizeOf("u32")
    BY SizeFacts
  <2>2. 5 \in Nat /\ 8 \in Nat /\ "u32" \in Types
    BY <1>1
  <2>. QED  BY <2>1, <2>2, <1>20, SizedAppend
<1>22. Sized(<<"u8", "u8", "u32", "u64">>, 4, 14)
  <2>1. <<"u8", "u8", "u32", "u64">> = Append(<<"u8", "u8", "u32">>, "u64") /\ 4 = 3 + 1
        /\ 14 = 6 + SizeOf("u64")
    BY SizeFacts
  <2>2. 3 \in Nat /\ 6 \in Nat /\ "u64" \in Types
    BY <1>1
  <2>. QED  BY <2>1, <2>2, <1>15, SizedAppend
<1>23. Sized(<<"u64", "u8">>, 2, 9)
  <2>1. <<"u64", "u8">> = Append(<<"u64">>, "u8") /\ 2 = 1 + 1 /\ 9 = 8 + SizeOf("u8")
    BY SizeFacts
  <2>2. 1 \in Nat /\ 8 \in Nat /\ "u8" \in Types
    BY <1>1
  <2>. QED  BY <2>1, <2>2, <1>7, SizedAppend
<1>24. Sized(<<"u64", "u8", "u8">>, 3, 10)
  <2>1. <<"u64", "u8", "u8">> = Append(<<"u64", "u8">>, "u8") /\ 3 = 2 + 1
        /\ 10 = 9 + SizeOf("u8")
    BY SizeFacts
  <2>2. 2 \in Nat /\ 9 \in Nat /\ "u8" \in Types
    BY <1>1
  <2>. QED  BY <2>1, <2>2, <1>23, SizedAppend
<1>. QED
  BY <1>2, <1>3, <1>4, <1>5, <1>6, <1>7, <1>8, <1>9, <1>10, <1>11, <1>12, <1>13, <1>14, <1>15,
     <1>16, <1>17, <1>18, <1>19, <1>20, <1>21, <1>22, <1>23, <1>24

\* Lists that end in doubles.
LEMMA WithDoubles ==
  ASSUME NEW p, NEW a \in Nat, NEW b \in Nat, Sized(p, a, b), NEW n \in Nat,
         NEW m, m = a + n, NEW c, c = b + 8 * n
  PROVE  Sized(p \o Doubles(n), m, c)
<1>1. /\ Doubles(n) \in Seq(Types) /\ Len(Doubles(n)) = n /\ "double" \in Types
      /\ \A k \in 1 .. n : Doubles(n)[k] = "double"
  BY DoublesFacts DEF Types
<1>2. Sized(p \o Doubles(n), a + n, b + SizeOf("double") * n)
  BY <1>1, SizedConcat
<1>. QED
  BY <1>2, SizeFacts

\* Doubles and flags alone.
LEMMA SizedDoubles ==
  ASSUME NEW n \in Nat
  PROVE  Sized(Doubles(n), n, 8 * n) /\ Sized(Bools(n), n, n)
<1>1. \A q \in Seq(Types) : <<>> \o q = q
  OBVIOUS
<1>2. /\ Doubles(n) \in Seq(Types) /\ Bools(n) \in Seq(Types) /\ Len(Bools(n)) = n
         /\ "bool" \in Types
      /\ \A k \in 1 .. n : Bools(n)[k] = "bool"
  BY DoublesFacts DEF Types
<1>3. Sized(<<>> \o Doubles(n), n, 8 * n)
  <2>1. 0 \in Nat /\ n = 0 + n /\ 8 * n = 0 + 8 * n
    OBVIOUS
  <2>. QED  BY <2>1, SizedNone, WithDoubles
<1>4. Sized(<<>> \o Bools(n), n, n)
  <2>1. 0 \in Nat /\ 0 + n = n
    OBVIOUS
  <2>2. Sized(<<>> \o Bools(n), 0 + n, 0 + SizeOf("bool") * n)
    BY <1>2, <2>1, SizedNone, SizedConcat
  <2>3. 0 + SizeOf("bool") * n = n
    BY SizeFacts
  <2>. QED  BY <2>1, <2>2, <2>3
<1>. QED
  BY <1>1, <1>2, <1>3, <1>4

\* Arguments have no signed type.
ArgumentTypes == Types \ {"i8"}

\* The fields of a list fit into this many bytes.
Fits(types, bytes) ==
  /\ bytes \in Nat /\ types \in Seq(ArgumentTypes)
  /\ \E n, b \in Nat : Sized(types, n, b) /\ b <= bytes

\* A list fits into its own size.
LEMMA FitsSized ==
  ASSUME NEW types, types \in Seq(ArgumentTypes), NEW n \in Nat, NEW b \in Nat, Sized(types, n, b)
  PROVE  Fits(types, b)
BY DEF Fits

\* Doubles and flags can be arguments.
LEMMA DoublesFit ==
  ASSUME NEW n \in Nat
  PROVE  Doubles(n) \in Seq(ArgumentTypes) /\ Bools(n) \in Seq(ArgumentTypes)
<1>1. "double" \in ArgumentTypes /\ "bool" \in ArgumentTypes
  BY DEF ArgumentTypes, Types
<1>. HIDE DEF ArgumentTypes
<1>. QED
  BY <1>1 DEF Doubles, Bools

\* The argument lists written out.
LEMMA ShortListsFit ==
  /\ Fits(<<>>, 0) /\ Fits(<<"u8">>, 1) /\ Fits(<<"u16">>, 2) /\ Fits(<<"u32">>, 4)
  /\ Fits(<<"u8", "bool">>, 2) /\ Fits(<<"u8", "double">>, 9) /\ Fits(<<"u8", "u8">>, 2)
  /\ Fits(<<"bool", "u32">>, 5) /\ Fits(<<"u8", "u32">>, 5)
  /\ Fits(<<"u8", "double", "bool">>, 10) /\ Fits(<<"u8", "u8", "u32">>, 6)
  /\ Fits(<<"u8", "bool", "u16">>, 4) /\ Fits(<<"u8", "u8", "u32", "u8">>, 7)
  /\ Fits(<<"u8", "u8", "u32", "u8", "u8", "u32">>, 12)
<1>1. {"u8", "u16", "u32", "bool", "double"} \subseteq ArgumentTypes
  BY DEF ArgumentTypes, Types
<1>2. /\ <<>> \in Seq(ArgumentTypes) /\ <<"u8">> \in Seq(ArgumentTypes)
      /\ <<"u16">> \in Seq(ArgumentTypes) /\ <<"u32">> \in Seq(ArgumentTypes)
      /\ <<"u8", "bool">> \in Seq(ArgumentTypes) /\ <<"u8", "double">> \in Seq(ArgumentTypes)
      /\ <<"u8", "u8">> \in Seq(ArgumentTypes) /\ <<"bool", "u32">> \in Seq(ArgumentTypes)
      /\ <<"u8", "u32">> \in Seq(ArgumentTypes)
  BY <1>1
<1>3. /\ <<"u8", "double", "bool">> \in Seq(ArgumentTypes)
      /\ <<"u8", "u8", "u32">> \in Seq(ArgumentTypes)
      /\ <<"u8", "bool", "u16">> \in Seq(ArgumentTypes)
      /\ <<"u8", "u8", "u32", "u8">> \in Seq(ArgumentTypes)
      /\ <<"u8", "u8", "u32", "u8", "u8", "u32">> \in Seq(ArgumentTypes)
  BY <1>1
<1>4. {0, 1, 2, 3, 4, 5, 6, 7, 9, 10, 12} \subseteq Nat
  OBVIOUS
<1>5. Fits(<<>>, 0) /\ Fits(<<"u8">>, 1) /\ Fits(<<"u16">>, 2) /\ Fits(<<"u32">>, 4)
  BY <1>2, <1>4, SizedNone, SizedLists, FitsSized
<1>6. /\ Fits(<<"u8", "bool">>, 2) /\ Fits(<<"u8", "double">>, 9) /\ Fits(<<"u8", "u8">>, 2)
      /\ Fits(<<"bool", "u32">>, 5) /\ Fits(<<"u8", "u32">>, 5)
  BY <1>2, <1>4, SizedLists, FitsSized
<1>7. /\ Fits(<<"u8", "double", "bool">>, 10) /\ Fits(<<"u8", "u8", "u32">>, 6)
      /\ Fits(<<"u8", "bool", "u16">>, 4)
  BY <1>3, <1>4, SizedLists, FitsSized
<1>8. /\ Fits(<<"u8", "u8", "u32", "u8">>, 7)
         /\ Fits(<<"u8", "u8", "u32", "u8", "u8", "u32">>, 12)
  BY <1>3, <1>4, SizedLists, FitsSized
<1>. QED
  BY <1>5, <1>6, <1>7, <1>8

\* The argument lists with rows of doubles and flags.
LEMMA LongListsFit ==
  /\ Fits(Doubles(3), 24) /\ Fits(Doubles(4), 32) /\ Fits(Doubles(6), 48) /\ Fits(Doubles(12), 96)
  /\ Fits(One \o Doubles(3), 25) /\ Fits(One \o Doubles(6), 49)
  /\ Fits(<<"u8", "bool", "u8", "bool">> \o Doubles(5), 44)
  /\ Fits(Bools(8) \o Doubles(4), 40) /\ Fits(Bools(6) \o Doubles(3), 30)
  /\ Fits(Bools(4) \o Doubles(3), 28)
<1>1. ASSUME NEW p \in Seq(ArgumentTypes), NEW a \in Nat, NEW b \in Nat, Sized(p, a, b), NEW n \in Nat
      PROVE  Fits(p \o Doubles(n), b + 8 * n)
  <2>1. Sized(p \o Doubles(n), a + n, b + 8 * n)
    BY <1>1, WithDoubles
  <2>2. p \o Doubles(n) \in Seq(ArgumentTypes)
    <3>1. Doubles(n) \in Seq(ArgumentTypes)
      BY DoublesFit
    <3>. QED  BY <3>1
  <2>3. a + n \in Nat /\ b + 8 * n \in Nat
    OBVIOUS
  <2>. QED  BY <2>1, <2>2, <2>3, FitsSized
<1>2. ASSUME NEW n \in Nat PROVE Fits(Doubles(n), 8 * n)
  <2>1. 8 * n \in Nat
    OBVIOUS
  <2>. QED  BY <2>1, SizedDoubles, DoublesFit, FitsSized
<1>3. Fits(Doubles(3), 24) /\ Fits(Doubles(4), 32) /\ Fits(Doubles(6), 48)
      /\ Fits(Doubles(12), 96)
  <2>1. 8 * 3 = 24 /\ 8 * 4 = 32 /\ 8 * 6 = 48 /\ 8 * 12 = 96
    OBVIOUS
  <2>2. Fits(Doubles(3), 8 * 3) /\ Fits(Doubles(4), 8 * 4) /\ Fits(Doubles(6), 8 * 6)
        /\ Fits(Doubles(12), 8 * 12)
    BY <1>2
  <2>. QED  BY <2>1, <2>2
<1>4. /\ One \in Seq(ArgumentTypes) /\ <<"u8", "bool", "u8", "bool">> \in Seq(ArgumentTypes)
      /\ Sized(One, 1, 1) /\ Sized(<<"u8", "bool", "u8", "bool">>, 4, 4)
  <2>1. "u8" \in ArgumentTypes /\ "bool" \in ArgumentTypes
    BY DEF ArgumentTypes, Types
  <2>. QED  BY <2>1, SizedLists DEF One
<1>5. Fits(One \o Doubles(3), 1 + 8 * 3) /\ Fits(One \o Doubles(6), 1 + 8 * 6)
  BY <1>1, <1>4
<1>6. Fits(<<"u8", "bool", "u8", "bool">> \o Doubles(5), 4 + 8 * 5)
  BY <1>1, <1>4
<1>7. ASSUME NEW a \in Nat, NEW n \in Nat PROVE Fits(Bools(a) \o Doubles(n), a + 8 * n)
  BY <1>1, SizedDoubles, DoublesFit
<1>8. /\ Fits(Bools(8) \o Doubles(4), 8 + 8 * 4) /\ Fits(Bools(6) \o Doubles(3), 6 + 8 * 3)
      /\ Fits(Bools(4) \o Doubles(3), 4 + 8 * 3)
  BY <1>7
<1>9. /\ 1 + 8 * 3 = 25 /\ 1 + 8 * 6 = 49 /\ 4 + 8 * 5 = 44 /\ 8 + 8 * 4 = 40
      /\ 6 + 8 * 3 = 30 /\ 4 + 8 * 3 = 28
  OBVIOUS
<1>. QED
  BY <1>3, <1>5, <1>6, <1>8, <1>9

\* The methods of each group pack their arguments into the bytes of their payloads.
LEMMA SensorFit ==
  \A c \in DOMAIN SensorArguments :
    c \in DOMAIN SensorShapes /\ Fits(SensorArguments[c], SensorShapes[c][1])
<1>1. \A c \in DOMAIN SensorArguments :
        SensorArguments[c] = <<"u8">> /\ c \in DOMAIN SensorShapes /\ SensorShapes[c][1] = 1
  BY DEF SensorArguments, SensorShapes, One
<1>. QED
  BY <1>1, ShortListsFit

\* Motors.
LEMMA MotorFit ==
  \A c \in DOMAIN MotorArguments :
    c \in DOMAIN MotorShapes /\ Fits(MotorArguments[c], MotorShapes[c][1])
<1>1. \A c \in DOMAIN MotorArguments :
        c \in DOMAIN MotorShapes /\
        \/ MotorArguments[c] = <<"u8">> /\ MotorShapes[c][1] = 1
        \/ MotorArguments[c] = <<"u8", "bool">> /\ MotorShapes[c][1] = 2
        \/ MotorArguments[c] = <<"u8", "double">> /\ MotorShapes[c][1] = 9
        \/ MotorArguments[c] = <<"u8", "bool", "u8", "bool">> \o Doubles(5)
           /\ MotorShapes[c][1] = 44
        \/ MotorArguments[c] = <<"u16">> /\ MotorShapes[c][1] = 2
        \/ MotorArguments[c] = <<>> /\ MotorShapes[c][1] = 0
  BY DEF MotorArguments, MotorShapes, One, Beside
<1>. QED
  BY <1>1, ShortListsFit, LongListsFit, Zenon

\* Encoders.
LEMMA EncoderFit ==
  \A c \in DOMAIN EncoderArguments :
    c \in DOMAIN EncoderShapes /\ Fits(EncoderArguments[c], EncoderShapes[c][1])
<1>1. \A c \in DOMAIN EncoderArguments :
        c \in DOMAIN EncoderShapes /\
        \/ EncoderArguments[c] = <<"u8">> /\ EncoderShapes[c][1] = 1
        \/ EncoderArguments[c] = <<"u8", "double", "bool">> /\ EncoderShapes[c][1] = 10
        \/ EncoderArguments[c] = <<"u16">> /\ EncoderShapes[c][1] = 2
        \/ EncoderArguments[c] = <<>> /\ EncoderShapes[c][1] = 0
  BY DEF EncoderArguments, EncoderShapes, One, Beside
<1>. QED
  BY <1>1, ShortListsFit, Zenon

\* Pins and the status LED.
LEMMA BoardIoFit ==
  \A c \in DOMAIN BoardIoArguments :
    c \in DOMAIN BoardIoShapes /\ Fits(BoardIoArguments[c], BoardIoShapes[c][1])
<1>1. \A c \in DOMAIN BoardIoArguments :
        c \in DOMAIN BoardIoShapes /\
        \/ BoardIoArguments[c] = <<"u8">> /\ BoardIoShapes[c][1] = 1
        \/ BoardIoArguments[c] = <<"u8", "u8">> /\ BoardIoShapes[c][1] = 2
        \/ BoardIoArguments[c] = <<>> /\ BoardIoShapes[c][1] = 0
  BY DEF BoardIoArguments, BoardIoShapes, One, Beside
<1>. QED
  BY <1>1, ShortListsFit, Zenon

\* The platform.
LEMMA PlatformFit ==
  \A c \in DOMAIN PlatformArguments :
    c \in DOMAIN PlatformShapes /\ Fits(PlatformArguments[c], PlatformShapes[c][1])
<1>1. DOMAIN PlatformArguments = {
        "GET_PLATFORM_CURRENT_VELOCITY", "STOP_PLATFORM_CONTROLLER", "START_PLATFORM_ODOMETRY",
        "RESET_PLATFORM_ODOMETRY", "STOP_PLATFORM_ODOMETRY", "GET_PLATFORM_ODOMETRY",
        "BRAKE_PLATFORM", "COAST_PLATFORM", "SET_PLATFORM_VELOCITY",
        "SET_PLATFORM_TARGET_VELOCITY", "INITIALIZE_MECANUM_PLATFORM",
        "INITIALIZE_OMNI_PLATFORM", "INITIALIZE_DIFFERENTIAL_PLATFORM",
        "START_PLATFORM_CONTROLLER"}
  BY DEF PlatformArguments, Beside
<1>2. \A c \in DOMAIN PlatformArguments : c \in DOMAIN PlatformShapes
  BY <1>1 DEF PlatformShapes
<1>3. /\ PlatformArguments["GET_PLATFORM_CURRENT_VELOCITY"] = <<>>
      /\ PlatformArguments["STOP_PLATFORM_CONTROLLER"] = <<>>
      /\ PlatformArguments["START_PLATFORM_ODOMETRY"] = <<>>
      /\ PlatformArguments["RESET_PLATFORM_ODOMETRY"] = <<>>
      /\ PlatformArguments["STOP_PLATFORM_ODOMETRY"] = <<>>
      /\ PlatformArguments["GET_PLATFORM_ODOMETRY"] = <<>>
      /\ PlatformArguments["BRAKE_PLATFORM"] = <<>>
      /\ PlatformArguments["COAST_PLATFORM"] = <<>>
      /\ PlatformArguments["SET_PLATFORM_VELOCITY"] = Doubles(3)
      /\ PlatformArguments["SET_PLATFORM_TARGET_VELOCITY"] = Doubles(3)
      /\ PlatformArguments["INITIALIZE_MECANUM_PLATFORM"] = Bools(8) \o Doubles(4)
      /\ PlatformArguments["INITIALIZE_OMNI_PLATFORM"] = Bools(6) \o Doubles(3)
      /\ PlatformArguments["INITIALIZE_DIFFERENTIAL_PLATFORM"] = Bools(4) \o Doubles(3)
      /\ PlatformArguments["START_PLATFORM_CONTROLLER"] = Doubles(4)
  BY DEF PlatformArguments, Beside
<1>4. /\ PlatformShapes["GET_PLATFORM_CURRENT_VELOCITY"][1] = 0
      /\ PlatformShapes["STOP_PLATFORM_CONTROLLER"][1] = 0
      /\ PlatformShapes["START_PLATFORM_ODOMETRY"][1] = 0
      /\ PlatformShapes["RESET_PLATFORM_ODOMETRY"][1] = 0
      /\ PlatformShapes["STOP_PLATFORM_ODOMETRY"][1] = 0
      /\ PlatformShapes["GET_PLATFORM_ODOMETRY"][1] = 0
      /\ PlatformShapes["BRAKE_PLATFORM"][1] = 0
      /\ PlatformShapes["COAST_PLATFORM"][1] = 0
      /\ PlatformShapes["SET_PLATFORM_VELOCITY"][1] = 24
      /\ PlatformShapes["SET_PLATFORM_TARGET_VELOCITY"][1] = 24
      /\ PlatformShapes["INITIALIZE_MECANUM_PLATFORM"][1] = 40
      /\ PlatformShapes["INITIALIZE_OMNI_PLATFORM"][1] = 30
      /\ PlatformShapes["INITIALIZE_DIFFERENTIAL_PLATFORM"][1] = 28
      /\ PlatformShapes["START_PLATFORM_CONTROLLER"][1] = 32
  BY DEF PlatformShapes
<1>5. <<"u8">> = One
  BY DEF One
<1>6. /\ Fits(PlatformArguments["GET_PLATFORM_CURRENT_VELOCITY"], 0)
      /\ Fits(PlatformArguments["STOP_PLATFORM_CONTROLLER"], 0)
      /\ Fits(PlatformArguments["START_PLATFORM_ODOMETRY"], 0)
      /\ Fits(PlatformArguments["RESET_PLATFORM_ODOMETRY"], 0)
      /\ Fits(PlatformArguments["STOP_PLATFORM_ODOMETRY"], 0)
      /\ Fits(PlatformArguments["GET_PLATFORM_ODOMETRY"], 0)
      /\ Fits(PlatformArguments["BRAKE_PLATFORM"], 0)
      /\ Fits(PlatformArguments["COAST_PLATFORM"], 0)
      /\ Fits(PlatformArguments["SET_PLATFORM_VELOCITY"], 24)
      /\ Fits(PlatformArguments["SET_PLATFORM_TARGET_VELOCITY"], 24)
      /\ Fits(PlatformArguments["INITIALIZE_MECANUM_PLATFORM"], 40)
      /\ Fits(PlatformArguments["INITIALIZE_OMNI_PLATFORM"], 30)
      /\ Fits(PlatformArguments["INITIALIZE_DIFFERENTIAL_PLATFORM"], 28)
      /\ Fits(PlatformArguments["START_PLATFORM_CONTROLLER"], 32)
  BY <1>3, <1>5, ShortListsFit, LongListsFit, Zenon
<1>. QED
  BY <1>1, <1>2, <1>4, <1>6, Zenon

\* Time, heartbeat and odometry subscriptions.
LEMMA ConnectionFit ==
  \A c \in DOMAIN ConnectionArguments :
    c \in DOMAIN ConnectionShapes /\ Fits(ConnectionArguments[c], ConnectionShapes[c][1])
<1>1. \A c \in DOMAIN ConnectionArguments :
        c \in DOMAIN ConnectionShapes /\
        \/ ConnectionArguments[c] = <<>> /\ ConnectionShapes[c][1] = 0
        \/ ConnectionArguments[c] = <<"u32">> /\ ConnectionShapes[c][1] = 4
        \/ ConnectionArguments[c] = <<"bool", "u32">> /\ ConnectionShapes[c][1] = 5
        \/ ConnectionArguments[c] = <<"u8", "u32">> /\ ConnectionShapes[c][1] = 5
        \/ ConnectionArguments[c] = <<"u8">> /\ ConnectionShapes[c][1] = 1
  BY DEF ConnectionArguments, ConnectionShapes, One, Beside
<1>. QED
  BY <1>1, ShortListsFit, Zenon

\* Position control.
LEMMA PositionFit ==
  \A c \in DOMAIN PositionArguments :
    c \in DOMAIN PositionShapes /\ Fits(PositionArguments[c], PositionShapes[c][1])
<1>1. DOMAIN PositionArguments = {
        "INITIALIZE_MOTOR_POSITION_CONTROLLER", "RESET_MOTOR_POSITION", "SET_MOTOR_POSITION",
        "GET_MOTOR_POSITION", "INITIALIZE_PLATFORM_POSITION_CONTROLLER",
        "RESET_PLATFORM_POSITION", "SET_PLATFORM_POSITION",
        "INITIALIZE_MOTOR_POSITION_PID_CONTROLLER",
        "INITIALIZE_PLATFORM_POSITION_PID_CONTROLLER"}
  BY DEF PositionArguments
<1>2. \A c \in DOMAIN PositionArguments : c \in DOMAIN PositionShapes
  BY <1>1 DEF PositionShapes
<1>3. /\ PositionArguments["INITIALIZE_MOTOR_POSITION_CONTROLLER"] = One \o Doubles(3)
      /\ PositionArguments["RESET_MOTOR_POSITION"] = One
      /\ PositionArguments["SET_MOTOR_POSITION"] = <<"u8", "double">>
      /\ PositionArguments["GET_MOTOR_POSITION"] = One
      /\ PositionArguments["INITIALIZE_PLATFORM_POSITION_CONTROLLER"] = Doubles(6)
      /\ PositionArguments["RESET_PLATFORM_POSITION"] = <<>>
      /\ PositionArguments["SET_PLATFORM_POSITION"] = Doubles(3)
      /\ PositionArguments["INITIALIZE_MOTOR_POSITION_PID_CONTROLLER"] = One \o Doubles(6)
      /\ PositionArguments["INITIALIZE_PLATFORM_POSITION_PID_CONTROLLER"] = Doubles(12)
  BY DEF PositionArguments
<1>4. /\ PositionShapes["INITIALIZE_MOTOR_POSITION_CONTROLLER"][1] = 25
      /\ PositionShapes["RESET_MOTOR_POSITION"][1] = 1
      /\ PositionShapes["SET_MOTOR_POSITION"][1] = 9
      /\ PositionShapes["GET_MOTOR_POSITION"][1] = 1
      /\ PositionShapes["INITIALIZE_PLATFORM_POSITION_CONTROLLER"][1] = 48
      /\ PositionShapes["RESET_PLATFORM_POSITION"][1] = 0
      /\ PositionShapes["SET_PLATFORM_POSITION"][1] = 24
      /\ PositionShapes["INITIALIZE_MOTOR_POSITION_PID_CONTROLLER"][1] = 49
      /\ PositionShapes["INITIALIZE_PLATFORM_POSITION_PID_CONTROLLER"][1] = 96
  BY DEF PositionShapes
<1>5. <<"u8">> = One
  BY DEF One
<1>6. /\ Fits(PositionArguments["INITIALIZE_MOTOR_POSITION_CONTROLLER"], 25)
      /\ Fits(PositionArguments["RESET_MOTOR_POSITION"], 1)
      /\ Fits(PositionArguments["SET_MOTOR_POSITION"], 9)
      /\ Fits(PositionArguments["GET_MOTOR_POSITION"], 1)
      /\ Fits(PositionArguments["INITIALIZE_PLATFORM_POSITION_CONTROLLER"], 48)
      /\ Fits(PositionArguments["RESET_PLATFORM_POSITION"], 0)
      /\ Fits(PositionArguments["SET_PLATFORM_POSITION"], 24)
      /\ Fits(PositionArguments["INITIALIZE_MOTOR_POSITION_PID_CONTROLLER"], 49)
      /\ Fits(PositionArguments["INITIALIZE_PLATFORM_POSITION_PID_CONTROLLER"], 96)
  BY <1>3, <1>5, ShortListsFit, LongListsFit, Zenon
<1>7. ASSUME NEW c \in DOMAIN PositionArguments
      PROVE  Fits(PositionArguments[c], PositionShapes[c][1])
  <2>. DEFINE Q(n) == Fits(PositionArguments[n], PositionShapes[n][1])
  <2>1. /\ Q("INITIALIZE_MOTOR_POSITION_CONTROLLER") /\ Q("RESET_MOTOR_POSITION")
        /\ Q("SET_MOTOR_POSITION") /\ Q("GET_MOTOR_POSITION")
        /\ Q("INITIALIZE_PLATFORM_POSITION_CONTROLLER") /\ Q("RESET_PLATFORM_POSITION")
        /\ Q("SET_PLATFORM_POSITION") /\ Q("INITIALIZE_MOTOR_POSITION_PID_CONTROLLER")
        /\ Q("INITIALIZE_PLATFORM_POSITION_PID_CONTROLLER")
    BY <1>4, <1>6, Zenon
  <2>. HIDE DEF Q
  <2>2. Q(c)
    BY <1>1, <2>1, Zenon
  <2>. QED  BY <2>2 DEF Q
<1>. QED
  BY <1>2, <1>7

\* Subscriptions.
LEMMA SubscriptionFit ==
  \A c \in DOMAIN SubscriptionArguments :
    c \in DOMAIN SubscriptionShapes /\ Fits(SubscriptionArguments[c], SubscriptionShapes[c][1])
<1>1. \A c \in DOMAIN SubscriptionArguments :
        c \in DOMAIN SubscriptionShapes /\
        \/ SubscriptionArguments[c] = <<"u8", "u8", "u32">> /\ SubscriptionShapes[c][1] = 6
        \/ SubscriptionArguments[c] = <<"u8", "u8">> /\ SubscriptionShapes[c][1] = 2
        \/ SubscriptionArguments[c] = <<"u8", "u8", "u32", "u8">> /\ SubscriptionShapes[c][1] = 7
        \/ SubscriptionArguments[c] = <<"u8", "u8", "u32", "u8", "u8", "u32">>
             /\ SubscriptionShapes[c][1] = 12
  BY DEF SubscriptionArguments, SubscriptionShapes
<1>. QED
  BY <1>1, ShortListsFit, Zenon

\* Faults, current limits and PWM frequency.
LEMMA HardwareLimitFit ==
  \A c \in DOMAIN HardwareLimitArguments :
    c \in DOMAIN HardwareLimitShapes /\ Fits(HardwareLimitArguments[c], HardwareLimitShapes[c][1])
<1>1. \A c \in DOMAIN HardwareLimitArguments :
        c \in DOMAIN HardwareLimitShapes /\
        \/ HardwareLimitArguments[c] = <<"u8">> /\ HardwareLimitShapes[c][1] = 1
        \/ HardwareLimitArguments[c] = <<"u8", "bool", "u16">> /\ HardwareLimitShapes[c][1] = 4
        \/ HardwareLimitArguments[c] = <<>> /\ HardwareLimitShapes[c][1] = 0
        \/ HardwareLimitArguments[c] = <<"u32">> /\ HardwareLimitShapes[c][1] = 4
  BY DEF HardwareLimitArguments, HardwareLimitShapes, One
<1>. QED
  BY <1>1, ShortListsFit, Zenon

\* An entry of one of two tables, and what is in the second table only.
LEMMA BesideEither ==
  ASSUME NEW f, NEW g, NEW c \in DOMAIN Beside(f, g)
  PROVE  (c \in DOMAIN f /\ Beside(f, g)[c] = f[c]) \/ (c \in DOMAIN g /\ Beside(f, g)[c] = g[c])
BY DEF Beside

\* The entries of the first table.
LEMMA BesideFirst ==
  ASSUME NEW f, NEW g, NEW c \in DOMAIN f
  PROVE  c \in DOMAIN Beside(f, g) /\ Beside(f, g)[c] = f[c]
BY DEF Beside

\* The entries that only the second table has.
LEMMA BesideSecond ==
  ASSUME NEW f, NEW g, NEW c \in DOMAIN g, c \notin DOMAIN f
  PROVE  c \in DOMAIN Beside(f, g) /\ Beside(f, g)[c] = g[c]
BY DEF Beside

\* A method belongs to one of the groups.
LEMMA ArgumentsOf ==
  ASSUME NEW c \in DOMAIN Arguments
  PROVE  \/ c \in DOMAIN SensorArguments /\ Arguments[c] = SensorArguments[c]
         \/ c \in DOMAIN MotorArguments /\ Arguments[c] = MotorArguments[c]
         \/ c \in DOMAIN EncoderArguments /\ Arguments[c] = EncoderArguments[c]
         \/ c \in DOMAIN BoardIoArguments /\ Arguments[c] = BoardIoArguments[c]
         \/ c \in DOMAIN PlatformArguments /\ Arguments[c] = PlatformArguments[c]
         \/ c \in DOMAIN ConnectionArguments /\ Arguments[c] = ConnectionArguments[c]
         \/ c \in DOMAIN PositionArguments /\ Arguments[c] = PositionArguments[c]
         \/ c \in DOMAIN SubscriptionArguments /\ Arguments[c] = SubscriptionArguments[c]
         \/ c \in DOMAIN HardwareLimitArguments /\ Arguments[c] = HardwareLimitArguments[c]
<1>. DEFINE Tail8 == Beside(SubscriptionArguments, HardwareLimitArguments)
            Tail7 == Beside(PositionArguments, Tail8)
            Tail6 == Beside(ConnectionArguments, Tail7)
            Tail5 == Beside(PlatformArguments, Tail6)
            Tail4 == Beside(BoardIoArguments, Tail5)
            Tail3 == Beside(EncoderArguments, Tail4)
            Tail2 == Beside(MotorArguments, Tail3)
<1>1. Arguments = Beside(SensorArguments, Tail2)
  BY DEF Arguments
<1>2. c \in DOMAIN Beside(SensorArguments, Tail2)
  BY <1>1
<1>. HIDE DEF Tail2
<1>3. \/ c \in DOMAIN SensorArguments /\ Arguments[c] = SensorArguments[c]
      \/ c \in DOMAIN Tail2 /\ Arguments[c] = Tail2[c]
  BY <1>1, <1>2, BesideEither
<1>. HIDE DEF Tail3
<1>4. ASSUME c \in DOMAIN Tail2
      PROVE  \/ c \in DOMAIN MotorArguments /\ Tail2[c] = MotorArguments[c]
             \/ c \in DOMAIN Tail3 /\ Tail2[c] = Tail3[c]
  BY <1>4, BesideEither, Zenon DEF Tail2
<1>. HIDE DEF Tail4
<1>5. ASSUME c \in DOMAIN Tail3
      PROVE  \/ c \in DOMAIN EncoderArguments /\ Tail3[c] = EncoderArguments[c]
             \/ c \in DOMAIN Tail4 /\ Tail3[c] = Tail4[c]
  BY <1>5, BesideEither, Zenon DEF Tail3
<1>. HIDE DEF Tail5
<1>6. ASSUME c \in DOMAIN Tail4
      PROVE  \/ c \in DOMAIN BoardIoArguments /\ Tail4[c] = BoardIoArguments[c]
             \/ c \in DOMAIN Tail5 /\ Tail4[c] = Tail5[c]
  BY <1>6, BesideEither, Zenon DEF Tail4
<1>. HIDE DEF Tail6
<1>7. ASSUME c \in DOMAIN Tail5
      PROVE  \/ c \in DOMAIN PlatformArguments /\ Tail5[c] = PlatformArguments[c]
             \/ c \in DOMAIN Tail6 /\ Tail5[c] = Tail6[c]
  BY <1>7, BesideEither, Zenon DEF Tail5
<1>. HIDE DEF Tail7
<1>8. ASSUME c \in DOMAIN Tail6
      PROVE  \/ c \in DOMAIN ConnectionArguments /\ Tail6[c] = ConnectionArguments[c]
             \/ c \in DOMAIN Tail7 /\ Tail6[c] = Tail7[c]
  BY <1>8, BesideEither, Zenon DEF Tail6
<1>. HIDE DEF Tail8
<1>9. ASSUME c \in DOMAIN Tail7
      PROVE  \/ c \in DOMAIN PositionArguments /\ Tail7[c] = PositionArguments[c]
             \/ c \in DOMAIN Tail8 /\ Tail7[c] = Tail8[c]
  BY <1>9, BesideEither, Zenon DEF Tail7
<1>10. ASSUME c \in DOMAIN Tail8
      PROVE  \/ c \in DOMAIN SubscriptionArguments /\ Tail8[c] = SubscriptionArguments[c]
             \/ c \in DOMAIN HardwareLimitArguments /\ Tail8[c] = HardwareLimitArguments[c]
  BY <1>10, BesideEither, Zenon DEF Tail8
<1>. QED
  BY <1>3, <1>4, <1>5, <1>6, <1>7, <1>8, <1>9, <1>10, Zenon

----------------------------------------------------------------------------
(* The tables of shapes *)

\* A table has the rows of another one; two tables have no row in common.
Includes(t, g) == \A c \in DOMAIN g : c \in DOMAIN t /\ t[c] = g[c]

\* Two tables have no row in common.
Apart(g, h) == \A c \in DOMAIN h : c \notin DOMAIN g

\* A table keeps its rows beside another one, in front of it or apart from it.
LEMMA BesideIncludes ==
  ASSUME NEW g, NEW t
  PROVE  /\ Includes(Beside(g, t), g)
         /\ \A h : Apart(g, h) /\ Includes(t, h) => Includes(Beside(g, t), h)
BY BesideFirst, BesideSecond DEF Includes, Apart

\* No method is in two groups.
LEMMA GroupsApart ==
  /\ Apart(SensorShapes, HardwareLimitShapes)
  /\ Apart(SensorShapes, SubscriptionShapes) /\ Apart(HardwareLimitShapes, SubscriptionShapes)
  /\ Apart(SensorShapes, MotorShapes) /\ Apart(HardwareLimitShapes, MotorShapes) /\
     Apart(SubscriptionShapes, MotorShapes)
  /\ Apart(SensorShapes, EncoderShapes) /\ Apart(HardwareLimitShapes, EncoderShapes) /\
     Apart(SubscriptionShapes, EncoderShapes) /\ Apart(MotorShapes, EncoderShapes)
  /\ Apart(SensorShapes, BoardIoShapes) /\ Apart(HardwareLimitShapes, BoardIoShapes) /\
     Apart(SubscriptionShapes, BoardIoShapes) /\ Apart(MotorShapes, BoardIoShapes) /\
     Apart(EncoderShapes, BoardIoShapes)
  /\ Apart(SensorShapes, PlatformShapes) /\ Apart(HardwareLimitShapes, PlatformShapes) /\
     Apart(SubscriptionShapes, PlatformShapes) /\ Apart(MotorShapes, PlatformShapes) /\
     Apart(EncoderShapes, PlatformShapes) /\ Apart(BoardIoShapes, PlatformShapes)
  /\ Apart(SensorShapes, ConnectionShapes) /\ Apart(HardwareLimitShapes, ConnectionShapes) /\
     Apart(SubscriptionShapes, ConnectionShapes) /\ Apart(MotorShapes, ConnectionShapes) /\
     Apart(EncoderShapes, ConnectionShapes) /\ Apart(BoardIoShapes, ConnectionShapes) /\
     Apart(PlatformShapes, ConnectionShapes)
  /\ Apart(SensorShapes, PositionShapes) /\ Apart(HardwareLimitShapes, PositionShapes) /\
     Apart(SubscriptionShapes, PositionShapes) /\ Apart(MotorShapes, PositionShapes) /\
     Apart(EncoderShapes, PositionShapes) /\ Apart(BoardIoShapes, PositionShapes) /\
     Apart(PlatformShapes, PositionShapes) /\ Apart(ConnectionShapes, PositionShapes)
BY DEF Apart, SensorShapes, HardwareLimitShapes, SubscriptionShapes, MotorShapes, EncoderShapes,
       BoardIoShapes, PlatformShapes, ConnectionShapes, PositionShapes

\* Every group has its rows in the table of shapes.
LEMMA GroupShapes ==
  /\ Includes(Shapes, SensorShapes) /\ Includes(Shapes, HardwareLimitShapes) /\
     Includes(Shapes, SubscriptionShapes) /\ Includes(Shapes, MotorShapes) /\
     Includes(Shapes, EncoderShapes) /\ Includes(Shapes, BoardIoShapes) /\
     Includes(Shapes, PlatformShapes) /\ Includes(Shapes, ConnectionShapes) /\
     Includes(Shapes, PositionShapes)
<1>. DEFINE Tail9 == Beside(PositionShapes, InitShape)
            Tail8 == Beside(ConnectionShapes, Tail9)
            Tail7 == Beside(PlatformShapes, Tail8)
            Tail6 == Beside(BoardIoShapes, Tail7)
            Tail5 == Beside(EncoderShapes, Tail6)
            Tail4 == Beside(MotorShapes, Tail5)
            Tail3 == Beside(SubscriptionShapes, Tail4)
            Tail2 == Beside(HardwareLimitShapes, Tail3)
            Tail1 == Beside(SensorShapes, Tail2)
<1>1. Shapes = Tail1
  BY DEF Shapes
<1>. HIDE DEF Tail1, Tail2, Tail3, Tail4, Tail5, Tail6, Tail7, Tail8, Tail9
<1>2. Includes(Tail9, PositionShapes)
  BY GroupsApart, BesideIncludes, Zenon DEF Tail9
<1>3. Includes(Tail8, ConnectionShapes) /\ Includes(Tail8, PositionShapes)
  BY GroupsApart, <1>2, BesideIncludes, Zenon DEF Tail8
<1>4. Includes(Tail7, PlatformShapes) /\ Includes(Tail7, ConnectionShapes) /\
      Includes(Tail7, PositionShapes)
  BY GroupsApart, <1>3, BesideIncludes, Zenon DEF Tail7
<1>5. Includes(Tail6, BoardIoShapes) /\ Includes(Tail6, PlatformShapes) /\
      Includes(Tail6, ConnectionShapes) /\ Includes(Tail6, PositionShapes)
  BY GroupsApart, <1>4, BesideIncludes, Zenon DEF Tail6
<1>6. Includes(Tail5, EncoderShapes) /\ Includes(Tail5, BoardIoShapes) /\
      Includes(Tail5, PlatformShapes) /\ Includes(Tail5, ConnectionShapes) /\
      Includes(Tail5, PositionShapes)
  BY GroupsApart, <1>5, BesideIncludes, Zenon DEF Tail5
<1>7. Includes(Tail4, MotorShapes) /\ Includes(Tail4, EncoderShapes) /\
      Includes(Tail4, BoardIoShapes) /\ Includes(Tail4, PlatformShapes) /\
      Includes(Tail4, ConnectionShapes) /\ Includes(Tail4, PositionShapes)
  BY GroupsApart, <1>6, BesideIncludes, Zenon DEF Tail4
<1>8. Includes(Tail3, SubscriptionShapes) /\ Includes(Tail3, MotorShapes) /\
      Includes(Tail3, EncoderShapes) /\ Includes(Tail3, BoardIoShapes) /\
      Includes(Tail3, PlatformShapes) /\ Includes(Tail3, ConnectionShapes) /\
      Includes(Tail3, PositionShapes)
  BY GroupsApart, <1>7, BesideIncludes, Zenon DEF Tail3
<1>9. Includes(Tail2, HardwareLimitShapes) /\ Includes(Tail2, SubscriptionShapes) /\
      Includes(Tail2, MotorShapes) /\ Includes(Tail2, EncoderShapes) /\
      Includes(Tail2, BoardIoShapes) /\ Includes(Tail2, PlatformShapes) /\
      Includes(Tail2, ConnectionShapes) /\ Includes(Tail2, PositionShapes)
  BY GroupsApart, <1>8, BesideIncludes, Zenon DEF Tail2
<1>10. Includes(Tail1, SensorShapes) /\ Includes(Tail1, HardwareLimitShapes) /\
      Includes(Tail1, SubscriptionShapes) /\ Includes(Tail1, MotorShapes) /\
      Includes(Tail1, EncoderShapes) /\ Includes(Tail1, BoardIoShapes) /\
      Includes(Tail1, PlatformShapes) /\ Includes(Tail1, ConnectionShapes) /\
      Includes(Tail1, PositionShapes)
  BY GroupsApart, <1>9, BesideIncludes, Zenon DEF Tail1
<1>. QED
  BY <1>1, <1>10, Zenon

\* Every method packs its arguments into the bytes of its payload.
LEMMA ArgumentsFit ==
  ASSUME NEW c \in DOMAIN Arguments
  PROVE  c \in DOMAIN Shapes /\ Fits(Arguments[c], Shapes[c][1])
<1>1. ASSUME NEW g, NEW h, Includes(Shapes, h), c \in DOMAIN g, Arguments[c] = g[c],
             \A d \in DOMAIN g : d \in DOMAIN h /\ Fits(g[d], h[d][1])
      PROVE  c \in DOMAIN Shapes /\ Fits(Arguments[c], Shapes[c][1])
  <2>1. c \in DOMAIN h /\ Fits(g[c], h[c][1])
    BY <1>1
  <2>2. c \in DOMAIN Shapes /\ Shapes[c] = h[c]
    BY <1>1, <2>1 DEF Includes
  <2>. QED  BY <1>1, <2>1, <2>2
<1>2. CASE c \in DOMAIN SensorArguments /\ Arguments[c] = SensorArguments[c]
  BY <1>1, <1>2, SensorFit, GroupShapes
<1>3. CASE c \in DOMAIN MotorArguments /\ Arguments[c] = MotorArguments[c]
  BY <1>1, <1>3, MotorFit, GroupShapes
<1>4. CASE c \in DOMAIN EncoderArguments /\ Arguments[c] = EncoderArguments[c]
  BY <1>1, <1>4, EncoderFit, GroupShapes
<1>5. CASE c \in DOMAIN BoardIoArguments /\ Arguments[c] = BoardIoArguments[c]
  BY <1>1, <1>5, BoardIoFit, GroupShapes
<1>6. CASE c \in DOMAIN PlatformArguments /\ Arguments[c] = PlatformArguments[c]
  BY <1>1, <1>6, PlatformFit, GroupShapes
<1>7. CASE c \in DOMAIN ConnectionArguments /\ Arguments[c] = ConnectionArguments[c]
  BY <1>1, <1>7, ConnectionFit, GroupShapes
<1>8. CASE c \in DOMAIN PositionArguments /\ Arguments[c] = PositionArguments[c]
  BY <1>1, <1>8, PositionFit, GroupShapes
<1>9. CASE c \in DOMAIN SubscriptionArguments /\ Arguments[c] = SubscriptionArguments[c]
  BY <1>1, <1>9, SubscriptionFit, GroupShapes
<1>10. CASE c \in DOMAIN HardwareLimitArguments /\ Arguments[c] = HardwareLimitArguments[c]
  BY <1>1, <1>10, HardwareLimitFit, GroupShapes
<1>. QED
  BY <1>2, <1>3, <1>4, <1>5, <1>6, <1>7, <1>8, <1>9, <1>10, ArgumentsOf

\* The arguments of every method reach the controller.
LEMMA ArgumentsArrive ==
  ASSUME NEW c \in DOMAIN Arguments, NEW values, Typed(Arguments[c], values)
  PROVE  Unpacked(Arguments[c], Payload(c, values)) = values
<1>. DEFINE types == Arguments[c]
            size == Shapes[c][1]
<1>1. Fits(types, size)
  BY ArgumentsFit
<1>2. Payload(c, values) = PackInto(size, types, values)
  BY DEF Payload
<1>3. Typed(types, values)
  OBVIOUS
<1>. HIDE DEF types, size
<1>4. PICK n \in Nat : \E b \in Nat : Sized(types, n, b) /\ b <= size
  BY <1>1 DEF Fits
<1>5. Listed(types, n) /\ OffsetOf(types, n + 1) <= size
  BY <1>4 DEF Sized
<1>6. size \in Nat /\ \A k \in 1 .. n : types[k] # "i8"
  <2>1. types \in Seq(ArgumentTypes) /\ size \in Nat /\ "i8" \notin ArgumentTypes
    BY <1>1 DEF Fits, ArgumentTypes
  <2>2. DOMAIN types = 1 .. n
    BY <1>5 DEF Listed
  <2>3. \A k \in 1 .. n : types[k] \in ArgumentTypes
    BY <2>1, <2>2
  <2>. QED  BY <2>1, <2>3
<1>7. Unpacked(types, PackInto(size, types, values)) = values
  BY <1>3, <1>5, <1>6, UnpackedPacked
<1>. QED
  BY <1>2, <1>7 DEF types

----------------------------------------------------------------------------
(* Results *)

\* The fields of a list fit into this many bytes of a response.
Returns(types, bytes) ==
  bytes \in Nat /\ \E n, b \in Nat : Sized(types, n, b) /\ b <= bytes

\* A list fits into a response of its own size.
LEMMA ReturnsSized ==
  ASSUME NEW types, NEW n \in Nat, NEW b \in Nat, Sized(types, n, b)
  PROVE  Returns(types, b)
BY DEF Returns

\* The lists of results and their bytes.
LEMMA ResultsSized ==
  /\ Returns(Doubles(1), 8) /\ Returns(Doubles(6), 48) /\ Returns(FaultStatus, 10)
  /\ Returns(MotorControllerState, 57) /\ Returns(<<"u16">>, 2)
  /\ Returns(Timestamp \o Doubles(1), 18) /\ Returns(One, 1) /\ Returns(PlatformVelocity, 24)
  /\ Returns(Timestamp \o Doubles(3), 34) /\ Returns(<<"u8", "u8", "u32", "u64">>, 14)
  /\ Returns(<<"bool", "u32">>, 5) /\ Returns(CurrentLimit, 3) /\ Returns(<<"u32">>, 4)
<1>1. ASSUME NEW n \in Nat PROVE Returns(Doubles(n), 8 * n) /\ Returns(Bools(n), n)
  <2>1. 8 * n \in Nat
    OBVIOUS
  <2>. QED  BY <2>1, SizedDoubles, ReturnsSized
<1>2. ASSUME NEW p, NEW a \in Nat, NEW b \in Nat, Sized(p, a, b), NEW n \in Nat
      PROVE  Returns(p \o Doubles(n), b + 8 * n)
  <2>1. Sized(p \o Doubles(n), a + n, b + 8 * n)
    BY <1>2, WithDoubles
  <2>2. a + n \in Nat /\ b + 8 * n \in Nat
    OBVIOUS
  <2>. QED  BY <2>1, <2>2, ReturnsSized
<1>3. /\ Returns(Doubles(1), 8 * 1) /\ Returns(Doubles(6), 8 * 6) /\ Returns(Doubles(3), 8 * 3)
      /\ Returns(Bools(10), 10)
  BY <1>1
<1>4. Sized(<<"i8">>, 1, 1) /\ Sized(Timestamp, 3, 10)
  BY SizedLists, Zenon DEF Timestamp
<1>5. Returns(<<"i8">> \o Doubles(7), 1 + 8 * 7)
  BY <1>2, <1>4
<1>6. Returns(Timestamp \o Doubles(1), 10 + 8 * 1) /\ Returns(Timestamp \o Doubles(3), 10 + 8 * 3)
  BY <1>2, <1>4
<1>7. {1, 2, 3, 4, 5, 10, 14} \subseteq Nat
  OBVIOUS
<1>8. Returns(<<"u8">>, 1) /\ Returns(<<"u16">>, 2) /\ Returns(<<"u32">>, 4)
  BY <1>7, SizedLists, ReturnsSized
<1>9. /\ Returns(<<"u8", "u8", "u32", "u64">>, 14) /\ Returns(<<"bool", "u32">>, 5)
      /\ Returns(<<"bool", "u16">>, 3)
  BY <1>7, SizedLists, ReturnsSized
<1>10. /\ 8 * 1 = 8 /\ 8 * 6 = 48 /\ 8 * 3 = 24 /\ 1 + 8 * 7 = 57 /\ 10 + 8 * 1 = 18
       /\ 10 + 8 * 3 = 34
  OBVIOUS
<1>11. Returns(Doubles(1), 8) /\ Returns(Doubles(6), 48) /\ Returns(Doubles(3), 24)
  BY <1>3, <1>10
<1>12. /\ Returns(<<"i8">> \o Doubles(7), 57) /\ Returns(Timestamp \o Doubles(1), 18)
       /\ Returns(Timestamp \o Doubles(3), 34)
  BY <1>5, <1>6, <1>10
<1>. QED
  BY <1>3, <1>8, <1>9, <1>11, <1>12
     DEF FaultStatus, MotorControllerState, One, PlatformVelocity, CurrentLimit

\* The rows of the table of shapes for the methods that return something.
LEMMA ResponseSizes ==
  /\ "GET_TEMPERATURE" \in DOMAIN Shapes /\ Shapes["GET_TEMPERATURE"][2] = 8
  /\ "GET_IMU" \in DOMAIN Shapes /\ Shapes["GET_IMU"][2] = 48
  /\ "GET_MOTOR_CURRENT" \in DOMAIN Shapes /\ Shapes["GET_MOTOR_CURRENT"][2] = 8
  /\ "GET_MOTOR_FAULTS" \in DOMAIN Shapes /\ Shapes["GET_MOTOR_FAULTS"][2] = 10
  /\ "CLEAR_MOTOR_FAULTS" \in DOMAIN Shapes /\ Shapes["CLEAR_MOTOR_FAULTS"][2] = 10
  /\ "GET_MOTOR_CONTROLLER_STATE" \in DOMAIN Shapes
     /\ Shapes["GET_MOTOR_CONTROLLER_STATE"][2] = 57
  /\ "GET_MOTOR_POSITION" \in DOMAIN Shapes /\ Shapes["GET_MOTOR_POSITION"][2] = 8
  /\ "GET_ENCODER_VALUE" \in DOMAIN Shapes /\ Shapes["GET_ENCODER_VALUE"][2] = 2
  /\ "GET_ENCODER_ODOMETRY" \in DOMAIN Shapes /\ Shapes["GET_ENCODER_ODOMETRY"][2] = 18
  /\ "GET_GPIO_PIN_STATE" \in DOMAIN Shapes /\ Shapes["GET_GPIO_PIN_STATE"][2] = 1
  /\ "GET_PLATFORM_CURRENT_VELOCITY" \in DOMAIN Shapes
     /\ Shapes["GET_PLATFORM_CURRENT_VELOCITY"][2] = 24
  /\ "GET_PLATFORM_ODOMETRY" \in DOMAIN Shapes /\ Shapes["GET_PLATFORM_ODOMETRY"][2] = 34
  /\ "GET_TIME_STATUS" \in DOMAIN Shapes /\ Shapes["GET_TIME_STATUS"][2] = 14
  /\ "GET_HEARTBEAT_CONFIG" \in DOMAIN Shapes /\ Shapes["GET_HEARTBEAT_CONFIG"][2] = 5
  /\ "GET_CONTROLLER_FREQUENCY" \in DOMAIN Shapes /\ Shapes["GET_CONTROLLER_FREQUENCY"][2] = 2
  /\ "GET_ODOMETRY_FREQUENCY" \in DOMAIN Shapes /\ Shapes["GET_ODOMETRY_FREQUENCY"][2] = 2
  /\ "GET_MOTOR_CURRENT_LIMIT" \in DOMAIN Shapes /\ Shapes["GET_MOTOR_CURRENT_LIMIT"][2] = 3
  /\ "SET_MOTOR_CURRENT_LIMIT" \in DOMAIN Shapes /\ Shapes["SET_MOTOR_CURRENT_LIMIT"][2] = 3
  /\ "GET_PWM_FREQUENCY" \in DOMAIN Shapes /\ Shapes["GET_PWM_FREQUENCY"][2] = 4
  /\ "SET_PWM_FREQUENCY" \in DOMAIN Shapes /\ Shapes["SET_PWM_FREQUENCY"][2] = 4
<1>1. /\ "GET_TEMPERATURE" \in DOMAIN Shapes /\ Shapes["GET_TEMPERATURE"][2] = 8
      /\ "GET_IMU" \in DOMAIN Shapes /\ Shapes["GET_IMU"][2] = 48
      /\ "GET_MOTOR_CURRENT" \in DOMAIN Shapes /\ Shapes["GET_MOTOR_CURRENT"][2] = 8
      /\ "GET_MOTOR_FAULTS" \in DOMAIN Shapes /\ Shapes["GET_MOTOR_FAULTS"][2] = 10
  <2>1. /\ "GET_TEMPERATURE" \in DOMAIN SensorShapes /\ SensorShapes["GET_TEMPERATURE"][2] = 8
        /\ "GET_IMU" \in DOMAIN SensorShapes /\ SensorShapes["GET_IMU"][2] = 48
        /\ "GET_MOTOR_CURRENT" \in DOMAIN SensorShapes /\ SensorShapes["GET_MOTOR_CURRENT"][2] = 8
        /\ "GET_MOTOR_FAULTS" \in DOMAIN SensorShapes /\ SensorShapes["GET_MOTOR_FAULTS"][2] = 10
    BY DEF SensorShapes
  <2>. QED  BY <2>1, GroupShapes DEF Includes
<1>2. /\ "CLEAR_MOTOR_FAULTS" \in DOMAIN Shapes /\ Shapes["CLEAR_MOTOR_FAULTS"][2] = 10
      /\ "GET_MOTOR_CURRENT_LIMIT" \in DOMAIN Shapes /\ Shapes["GET_MOTOR_CURRENT_LIMIT"][2] = 3
      /\ "SET_MOTOR_CURRENT_LIMIT" \in DOMAIN Shapes /\ Shapes["SET_MOTOR_CURRENT_LIMIT"][2] = 3
      /\ "GET_PWM_FREQUENCY" \in DOMAIN Shapes /\ Shapes["GET_PWM_FREQUENCY"][2] = 4
      /\ "SET_PWM_FREQUENCY" \in DOMAIN Shapes /\ Shapes["SET_PWM_FREQUENCY"][2] = 4
  <2>1. /\ "CLEAR_MOTOR_FAULTS" \in DOMAIN HardwareLimitShapes
           /\ HardwareLimitShapes["CLEAR_MOTOR_FAULTS"][2] = 10
        /\ "GET_MOTOR_CURRENT_LIMIT" \in DOMAIN HardwareLimitShapes
           /\ HardwareLimitShapes["GET_MOTOR_CURRENT_LIMIT"][2] = 3
        /\ "SET_MOTOR_CURRENT_LIMIT" \in DOMAIN HardwareLimitShapes
           /\ HardwareLimitShapes["SET_MOTOR_CURRENT_LIMIT"][2] = 3
        /\ "GET_PWM_FREQUENCY" \in DOMAIN HardwareLimitShapes
           /\ HardwareLimitShapes["GET_PWM_FREQUENCY"][2] = 4
        /\ "SET_PWM_FREQUENCY" \in DOMAIN HardwareLimitShapes
           /\ HardwareLimitShapes["SET_PWM_FREQUENCY"][2] = 4
    BY DEF HardwareLimitShapes
  <2>. QED  BY <2>1, GroupShapes DEF Includes
<1>3. /\ "GET_MOTOR_CONTROLLER_STATE" \in DOMAIN Shapes
         /\ Shapes["GET_MOTOR_CONTROLLER_STATE"][2] = 57
      /\ "GET_CONTROLLER_FREQUENCY" \in DOMAIN Shapes /\ Shapes["GET_CONTROLLER_FREQUENCY"][2] = 2
  <2>1. /\ "GET_MOTOR_CONTROLLER_STATE" \in DOMAIN MotorShapes
           /\ MotorShapes["GET_MOTOR_CONTROLLER_STATE"][2] = 57
        /\ "GET_CONTROLLER_FREQUENCY" \in DOMAIN MotorShapes
           /\ MotorShapes["GET_CONTROLLER_FREQUENCY"][2] = 2
    BY DEF MotorShapes
  <2>. QED  BY <2>1, GroupShapes DEF Includes
<1>4. /\ "GET_ENCODER_VALUE" \in DOMAIN Shapes /\ Shapes["GET_ENCODER_VALUE"][2] = 2
      /\ "GET_ENCODER_ODOMETRY" \in DOMAIN Shapes /\ Shapes["GET_ENCODER_ODOMETRY"][2] = 18
      /\ "GET_ODOMETRY_FREQUENCY" \in DOMAIN Shapes /\ Shapes["GET_ODOMETRY_FREQUENCY"][2] = 2
  <2>1. /\ "GET_ENCODER_VALUE" \in DOMAIN EncoderShapes
           /\ EncoderShapes["GET_ENCODER_VALUE"][2] = 2
        /\ "GET_ENCODER_ODOMETRY" \in DOMAIN EncoderShapes
           /\ EncoderShapes["GET_ENCODER_ODOMETRY"][2] = 18
        /\ "GET_ODOMETRY_FREQUENCY" \in DOMAIN EncoderShapes
           /\ EncoderShapes["GET_ODOMETRY_FREQUENCY"][2] = 2
    BY DEF EncoderShapes
  <2>. QED  BY <2>1, GroupShapes DEF Includes
<1>5. /\ "GET_GPIO_PIN_STATE" \in DOMAIN Shapes /\ Shapes["GET_GPIO_PIN_STATE"][2] = 1
  <2>1. /\ "GET_GPIO_PIN_STATE" \in DOMAIN BoardIoShapes
           /\ BoardIoShapes["GET_GPIO_PIN_STATE"][2] = 1
    BY DEF BoardIoShapes
  <2>. QED  BY <2>1, GroupShapes DEF Includes
<1>6. /\ "GET_PLATFORM_CURRENT_VELOCITY" \in DOMAIN Shapes
         /\ Shapes["GET_PLATFORM_CURRENT_VELOCITY"][2] = 24
      /\ "GET_PLATFORM_ODOMETRY" \in DOMAIN Shapes /\ Shapes["GET_PLATFORM_ODOMETRY"][2] = 34
  <2>1. /\ "GET_PLATFORM_CURRENT_VELOCITY" \in DOMAIN PlatformShapes
           /\ PlatformShapes["GET_PLATFORM_CURRENT_VELOCITY"][2] = 24
        /\ "GET_PLATFORM_ODOMETRY" \in DOMAIN PlatformShapes
           /\ PlatformShapes["GET_PLATFORM_ODOMETRY"][2] = 34
    BY DEF PlatformShapes
  <2>. QED  BY <2>1, GroupShapes DEF Includes
<1>7. /\ "GET_TIME_STATUS" \in DOMAIN Shapes /\ Shapes["GET_TIME_STATUS"][2] = 14
      /\ "GET_HEARTBEAT_CONFIG" \in DOMAIN Shapes /\ Shapes["GET_HEARTBEAT_CONFIG"][2] = 5
  <2>1. /\ "GET_TIME_STATUS" \in DOMAIN ConnectionShapes
           /\ ConnectionShapes["GET_TIME_STATUS"][2] = 14
        /\ "GET_HEARTBEAT_CONFIG" \in DOMAIN ConnectionShapes
           /\ ConnectionShapes["GET_HEARTBEAT_CONFIG"][2] = 5
    BY DEF ConnectionShapes
  <2>. QED  BY <2>1, GroupShapes DEF Includes
<1>8. /\ "GET_MOTOR_POSITION" \in DOMAIN Shapes /\ Shapes["GET_MOTOR_POSITION"][2] = 8
  <2>1. /\ "GET_MOTOR_POSITION" \in DOMAIN PositionShapes
           /\ PositionShapes["GET_MOTOR_POSITION"][2] = 8
    BY DEF PositionShapes
  <2>. QED  BY <2>1, GroupShapes DEF Includes
<1>. QED
  BY <1>1, <1>2, <1>3, <1>4, <1>5, <1>6, <1>7, <1>8, Zenon

\* What a method returns fits into its response.
LEMMA ResultsFit ==
  ASSUME NEW c \in DOMAIN Results
  PROVE  c \in DOMAIN Shapes /\ Returns(Results[c], Shapes[c][2])
<1>1. DOMAIN Results = {
        "GET_TEMPERATURE", "GET_IMU", "GET_MOTOR_CURRENT", "GET_MOTOR_FAULTS",
        "CLEAR_MOTOR_FAULTS", "GET_MOTOR_CONTROLLER_STATE", "GET_MOTOR_POSITION",
        "GET_ENCODER_VALUE", "GET_ENCODER_ODOMETRY", "GET_GPIO_PIN_STATE",
        "GET_PLATFORM_CURRENT_VELOCITY", "GET_PLATFORM_ODOMETRY", "GET_TIME_STATUS",
        "GET_HEARTBEAT_CONFIG", "GET_CONTROLLER_FREQUENCY", "GET_ODOMETRY_FREQUENCY",
        "GET_MOTOR_CURRENT_LIMIT", "SET_MOTOR_CURRENT_LIMIT", "GET_PWM_FREQUENCY",
        "SET_PWM_FREQUENCY"}
  BY DEF Results
<1>2. /\ Results["GET_TEMPERATURE"] = Doubles(1)
      /\ Results["GET_IMU"] = Doubles(6)
      /\ Results["GET_MOTOR_CURRENT"] = Doubles(1)
      /\ Results["GET_MOTOR_FAULTS"] = FaultStatus
      /\ Results["CLEAR_MOTOR_FAULTS"] = FaultStatus
      /\ Results["GET_MOTOR_CONTROLLER_STATE"] = MotorControllerState
      /\ Results["GET_MOTOR_POSITION"] = Doubles(1)
      /\ Results["GET_ENCODER_VALUE"] = <<"u16">>
      /\ Results["GET_ENCODER_ODOMETRY"] = Timestamp \o Doubles(1)
      /\ Results["GET_GPIO_PIN_STATE"] = One
      /\ Results["GET_PLATFORM_CURRENT_VELOCITY"] = PlatformVelocity
      /\ Results["GET_PLATFORM_ODOMETRY"] = Timestamp \o Doubles(3)
      /\ Results["GET_TIME_STATUS"] = <<"u8", "u8", "u32", "u64">>
      /\ Results["GET_HEARTBEAT_CONFIG"] = <<"bool", "u32">>
      /\ Results["GET_CONTROLLER_FREQUENCY"] = <<"u16">>
      /\ Results["GET_ODOMETRY_FREQUENCY"] = <<"u16">>
      /\ Results["GET_MOTOR_CURRENT_LIMIT"] = CurrentLimit
      /\ Results["SET_MOTOR_CURRENT_LIMIT"] = CurrentLimit
      /\ Results["GET_PWM_FREQUENCY"] = <<"u32">>
      /\ Results["SET_PWM_FREQUENCY"] = <<"u32">>
  BY DEF Results
<1>. DEFINE Q(d) == d \in DOMAIN Shapes /\ Returns(Results[d], Shapes[d][2])
<1>3. /\ Q("GET_TEMPERATURE")
      /\ Q("GET_IMU")
      /\ Q("GET_MOTOR_CURRENT")
      /\ Q("GET_MOTOR_FAULTS")
      /\ Q("CLEAR_MOTOR_FAULTS")
      /\ Q("GET_MOTOR_CONTROLLER_STATE")
      /\ Q("GET_MOTOR_POSITION")
      /\ Q("GET_ENCODER_VALUE")
      /\ Q("GET_ENCODER_ODOMETRY")
      /\ Q("GET_GPIO_PIN_STATE")
      /\ Q("GET_PLATFORM_CURRENT_VELOCITY")
      /\ Q("GET_PLATFORM_ODOMETRY")
      /\ Q("GET_TIME_STATUS")
      /\ Q("GET_HEARTBEAT_CONFIG")
      /\ Q("GET_CONTROLLER_FREQUENCY")
      /\ Q("GET_ODOMETRY_FREQUENCY")
      /\ Q("GET_MOTOR_CURRENT_LIMIT")
      /\ Q("SET_MOTOR_CURRENT_LIMIT")
      /\ Q("GET_PWM_FREQUENCY")
      /\ Q("SET_PWM_FREQUENCY")
  BY <1>2, ResultsSized, ResponseSizes, Zenon
<1>. HIDE DEF Q
<1>4. Q(c)
  BY <1>1, <1>3, Zenon
<1>. QED
  BY <1>4 DEF Q

\* The results of a method arrive, unless request() refuses the reply.
LEMMA ResultsArrive ==
  ASSUME NEW c \in DOMAIN Results, NEW values, Typed(Results[c], values)
  PROVE  [i \in DOMAIN Results[c] |->
            Taken(TRUE, Results[c][i], PackInto(Shapes[c][2], Results[c], values),
                  OffsetOf(Results[c], i))] = values
<1>. DEFINE types == Results[c]
            size == Shapes[c][2]
            T(i) == Taken(TRUE, types[i], PackInto(size, types, values), OffsetOf(types, i))
<1>1. Returns(types, size)
  BY ResultsFit
<1>2. values = [i \in DOMAIN types |-> values[i]] /\ Typed(types, values)
  BY DEF Typed
<1>. HIDE DEF types, size
<1>3. PICK n \in Nat : \E b \in Nat : Sized(types, n, b) /\ b <= size
  BY <1>1 DEF Returns
<1>4. Listed(types, n) /\ OffsetOf(types, n + 1) <= size
  BY <1>3 DEF Sized
<1>5. size \in Nat /\ DOMAIN types = 1 .. n
  BY <1>1, <1>4 DEF Returns, Listed
<1>6. \A i \in 1 .. n : T(i) = values[i]
  BY <1>2, <1>4, <1>5, TakenPacked
<1>. HIDE DEF T
<1>7. [i \in DOMAIN types |-> T(i)] = [i \in DOMAIN types |-> values[i]]
  BY <1>5, <1>6
<1>8. [i \in DOMAIN types |-> T(i)] = values
  BY <1>2, <1>7
<1>. QED
  BY <1>8 DEF T, types, size

\* A flag is in its byte as it is.
LEMMA PackedFlag ==
  ASSUME NEW types, NEW n \in Nat, Listed(types, n), NEW values, Typed(types, values),
         NEW size \in Nat, OffsetOf(types, n + 1) <= size, NEW i \in 1 .. n, types[i] = "bool"
  PROVE  /\ values[i] \in {0, 1}
         /\ PackInto(size, types, values)[OffsetOf(types, i)] = values[i]
<1>. DEFINE p == PackInto(size, types, values)
            o == OffsetOf(types, i)
<1>1. /\ DOMAIN types = 1 .. n /\ \A k \in 1 .. n : values[k] \in Values(types[k])
      /\ values[i] \in {0, 1} /\ Raw("bool", values[i]) = values[i] /\ SizeOf("bool") = 1
  BY SizeFacts DEF Listed, Typed, Values, Raw
<1>2. /\ o \in Nat /\ ReadUnsigned(p, o, 1) = values[i]
      /\ \A j \in 0 .. 1 - 1 : p[o + j] = WriteUnsigned(values[i], 1)[j]
  BY <1>1, FieldRead
<1>. HIDE DEF p, o
<1>3. p[o] \in Nat
  <2>1. 0 \in 0 .. 1 - 1 /\ o + 0 = o /\ values[i] \in Nat /\ 1 \in Nat
    BY <1>1, <1>2
  <2>2. p[o + 0] = WriteUnsigned(values[i], 1)[0]
    BY <1>2, <2>1
  <2>3. WriteUnsigned(values[i], 1)[0] \in 0 .. ByteBase - 1
    BY <2>1, WrittenBytes
  <2>. QED  BY <2>1, <2>2, <2>3, ByteFacts
<1>4. ReadUnsigned(p, o, 1) = p[o]
  BY <1>2, <1>3, ReadByte
<1>. QED
  BY <1>1, <1>2, <1>4 DEF p, o

\* The doubles of a reading, and its flags, one after the other.
LEMMA DoublesTaken ==
  ASSUME NEW n \in Nat, NEW values, Typed(Doubles(n), values), NEW size \in Nat, 8 * n <= size
  PROVE  LET p == PackInto(size, Doubles(n), values)
         IN /\ DOMAIN Doubles(n) = 1 .. n /\ DOMAIN p = 0 .. size - 1
            /\ \A i \in 1 .. n : ReadDoubleAt(TRUE, p, 8 * (i - 1)) = values[i]
<1>. DEFINE types == Doubles(n)
            p == PackInto(size, types, values)
<1>1. Listed(types, n) /\ \A k \in 1 .. n : types[k] = "double"
  BY DoublesFacts
<1>2. Sized(types, n, 8 * n)
  BY SizedDoubles
<1>3. Typed(types, values) /\ DOMAIN p = 0 .. size - 1
  BY DEF PackInto
<1>. HIDE DEF types
<1>4. OffsetOf(types, n + 1) <= size
  <2>1. OffsetOf(types, n + 1) = 8 * n
    BY <1>2 DEF Sized
  <2>. QED  BY <2>1
<1>5. \A i \in 1 .. n : OffsetOf(types, i) = 8 * (i - 1)
  <2>1. "double" \in Types /\ SizeOf("double") = 8
    BY SizeFacts DEF Types
  <2>. QED  BY <1>1, <2>1, PlainLayout
<1>6. \A i \in 1 .. n : Taken(TRUE, types[i], p, OffsetOf(types, i)) = values[i]
  BY <1>1, <1>3, <1>4, TakenPacked, Zenon
<1>. HIDE DEF p
<1>7. \A o : Taken(TRUE, "double", p, o) = ReadDoubleAt(TRUE, p, o)
  BY DEF Taken
<1>8. \A i \in 1 .. n : ReadDoubleAt(TRUE, p, 8 * (i - 1)) = values[i]
  BY <1>1, <1>5, <1>6, <1>7
<1>9. DOMAIN types = 1 .. n
  BY <1>1 DEF Listed
<1>. QED
  BY <1>3, <1>8, <1>9 DEF p, types

\* The flags of a reading are in bytes of their own.
LEMMA FlagsTaken ==
  ASSUME NEW n \in Nat, NEW values, Typed(Bools(n), values)
  PROVE  \A b \in DOMAIN PackInto(n, Bools(n), values) :
           PackInto(n, Bools(n), values)[b] \in {0, 1}
<1>. DEFINE types == Bools(n)
            p == PackInto(n, types, values)
<1>1. Listed(types, n) /\ \A k \in 1 .. n : types[k] = "bool"
  BY DoublesFacts
<1>2. Sized(types, n, n)
  BY SizedDoubles
<1>3. Typed(types, values) /\ DOMAIN p = 0 .. n - 1
  BY DEF PackInto
<1>. HIDE DEF types
<1>4. OffsetOf(types, n + 1) <= n
  BY <1>2 DEF Sized
<1>5. \A i \in 1 .. n : OffsetOf(types, i) = i - 1
  <2>1. "bool" \in Types /\ SizeOf("bool") = 1
    BY SizeFacts DEF Types
  <2>2. \A i \in 1 .. n : OffsetOf(types, i) = 1 * (i - 1)
    BY <1>1, <2>1, PlainLayout
  <2>3. \A i \in 1 .. n : 1 * (i - 1) = i - 1
    OBVIOUS
  <2>. QED  BY <2>2, <2>3
<1>6. \A i \in 1 .. n : values[i] \in {0, 1} /\ p[OffsetOf(types, i)] = values[i]
  BY <1>1, <1>3, <1>4, PackedFlag
<1>. HIDE DEF p
<1>7. \A b \in 0 .. n - 1 : b + 1 \in 1 .. n /\ (b + 1) - 1 = b
  OBVIOUS
<1>8. \A b \in 0 .. n - 1 : p[b] \in {0, 1}
  BY <1>5, <1>6, <1>7
<1>. QED
  BY <1>3, <1>8 DEF p, types

\* request() accepts the reply with proper results.
LEMMA ProperAccepted ==
  ASSUME NEW c \in DOMAIN Results, NEW values, Typed(Results[c], values), Proper(c, values)
  PROVE  ~ReplyMalformed(TRUE, c, PackInto(Shapes[c][2], Results[c], values))
<1>. DEFINE p == PackInto(Shapes[c][2], Results[c], values)
<1>1. CASE c \in {"GET_MOTOR_FAULTS", "CLEAR_MOTOR_FAULTS"}
  <2>1. Results[c] = Bools(10)
    BY <1>1 DEF Results, FaultStatus
  <2>2. Shapes[c][2] = 10
    BY <1>1, ResponseSizes, Zenon
  <2>3. 10 \in Nat /\ p = PackInto(10, Bools(10), values) /\ Typed(Bools(10), values)
    BY <2>1, <2>2
  <2>4. \A b \in DOMAIN p : p[b] \in {0, 1}
    BY <2>3, FlagsTaken
  <2>. HIDE DEF p
  <2>5. \A b \in DOMAIN p : ~(p[b] > 1)
    BY <2>4
  <2>6. ReplyMalformed(TRUE, c, p) <=> \E b \in DOMAIN p : p[b] > 1
    BY <1>1 DEF ReplyMalformed
  <2>. QED  BY <2>5, <2>6 DEF p
<1>2. CASE c \in {"GET_MOTOR_CURRENT_LIMIT", "SET_MOTOR_CURRENT_LIMIT"}
  <2>. DEFINE types == CurrentLimit
              q == PackInto(3, types, values)
  <2>1. Results[c] = types
    BY <1>2 DEF Results
  <2>2. Shapes[c][2] = 3
    BY <1>2, ResponseSizes, Zenon
  <2>3. 3 \in Nat /\ p = q /\ Typed(types, values)
    BY <2>1, <2>2
  <2>4. types[1] = "bool" /\ types[2] = "u16"
    BY DEF CurrentLimit
  <2>5. Sized(types, 2, 3)
    BY SizedLists, Zenon DEF CurrentLimit
  <2>6. values[2] # 0
    BY <1>2 DEF Proper
  <2>. HIDE DEF types, p
  <2>7. Listed(types, 2) /\ OffsetOf(types, 2 + 1) <= 3 /\ 2 \in Nat /\ 1 \in 1 .. 2
        /\ 2 \in 1 .. 2
    BY <2>5 DEF Sized
  <2>8. OffsetOf(types, 1) = 0 /\ OffsetOf(types, 1 + 1) = OffsetOf(types, 1) + SizeOf(types[1])
    BY <2>7, OffsetStep
  <2>9. OffsetOf(types, 2) = 1
    <3>1. 1 + 1 = 2
      OBVIOUS
    <3>. QED  BY <2>4, <2>8, <3>1, SizeFacts
  <2>10. values[1] \in {0, 1} /\ q[OffsetOf(types, 1)] = values[1]
    BY <2>3, <2>4, <2>7, PackedFlag
  <2>11. Taken(TRUE, types[2], q, OffsetOf(types, 2)) = values[2]
    <3>. DEFINE n == 2
                size == 3
    <3>1. n \in Nat /\ size \in Nat /\ Listed(types, n) /\ OffsetOf(types, n + 1) <= size
          /\ 2 \in 1 .. n /\ Typed(types, values)
      BY <2>3, <2>7
    <3>. HIDE DEF n, size
    <3>2. \A i \in 1 .. n :
            Taken(TRUE, types[i], PackInto(size, types, values), OffsetOf(types, i)) = values[i]
      BY <3>1, TakenPacked, Zenon
    <3>. QED  BY <3>1, <3>2 DEF size
  <2>. HIDE DEF q
  <2>12. Taken(TRUE, "u16", q, 1) = ReadUnsigned(q, 1, SizeOf("u16"))
    BY DEF Taken
  <2>13. ReadUnsigned(q, 1, 2) = values[2]
    BY <2>4, <2>9, <2>11, <2>12, SizeFacts
  <2>14. q[0] \in {0, 1}
    BY <2>8, <2>10
  <2>15. ReplyMalformed(TRUE, c, q) <=> (q[0] > 1 \/ ReadUnsigned(q, 1, 2) = 0)
    BY <1>2 DEF ReplyMalformed
  <2>16. ~(q[0] > 1)
    BY <2>14
  <2>. QED  BY <2>3, <2>6, <2>13, <2>15, <2>16 DEF p
<1>3. CASE c \in {"GET_TEMPERATURE", "GET_IMU", "GET_MOTOR_CURRENT"}
  <2>. DEFINE n == IF c = "GET_IMU" THEN 6 ELSE 1
              size == Shapes[c][2]
              q == PackInto(size, Doubles(n), values)
  <2>1. Results[c] = Doubles(n)
    BY <1>3 DEF Results
  <2>2. size = 8 * n
    <3>1. /\ Shapes["GET_TEMPERATURE"][2] = 8 /\ Shapes["GET_IMU"][2] = 48
          /\ Shapes["GET_MOTOR_CURRENT"][2] = 8
      BY ResponseSizes, Zenon
    <3>2. 8 * 1 = 8 /\ 8 * 6 = 48
      OBVIOUS
    <3>. QED  BY <1>3, <3>1, <3>2
  <2>3. n \in Nat /\ n >= 1 /\ (c = "GET_MOTOR_CURRENT" => n = 1)
    BY <1>3
  <2>4. p = q /\ Typed(Doubles(n), values)
    BY <2>1
  <2>. HIDE DEF p, n, size
  <2>5. /\ DOMAIN Doubles(n) = 1 .. n /\ DOMAIN q = 0 .. 8 * n - 1
        /\ \A i \in 1 .. n : ReadDoubleAt(TRUE, q, 8 * (i - 1)) = values[i]
    <3>1. size \in Nat /\ 8 * n <= size
      BY <2>2, <2>3
    <3>2. /\ DOMAIN Doubles(n) = 1 .. n /\ DOMAIN q = 0 .. size - 1
          /\ \A i \in 1 .. n : ReadDoubleAt(TRUE, q, 8 * (i - 1)) = values[i]
      BY <2>3, <2>4, <3>1, DoublesTaken
    <3>. HIDE DEF q
    <3>. QED  BY <2>2, <3>2
  <2>. HIDE DEF q
  <2>6. DOMAIN values = 1 .. n
    BY <2>4, <2>5 DEF Typed
  <2>7. /\ \A i \in 1 .. n : values[i].kind = "finite"
        /\ c = "GET_MOTOR_CURRENT" => ~Negative(values[1])
    BY <1>3, <2>6 DEF Proper
  <2>8. ASSUME NEW b \in DOMAIN q, b % 8 = 0 PROVE ReadDoubleAt(TRUE, q, b).kind = "finite"
    <3>1. b \in Nat /\ 8 \in Nat \ {0} /\ b <= 8 * n - 1
      BY <2>3, <2>5
    <3>2. b \div 8 \in Nat /\ b = (b \div 8) * 8 + (b % 8)
      BY <3>1, DivMod
    <3>. DEFINE k == b \div 8
    <3>. HIDE DEF k
    <3>3. k \in Nat /\ b = k * 8
      BY <2>8, <3>2 DEF k
    <3>4. k + 1 \in 1 .. n /\ b = 8 * ((k + 1) - 1)
      BY <2>3, <3>1, <3>3
    <3>. QED  BY <2>5, <2>7, <3>4
  <2>9. ReadDoubleAt(TRUE, q, 0) = values[1]
    <3>1. 1 \in 1 .. n /\ 8 * (1 - 1) = 0
      BY <2>3
    <3>. QED  BY <2>5, <3>1
  <2>10. ReplyMalformed(TRUE, c, q) <=>
           \/ c = "GET_MOTOR_CURRENT" /\ Negative(ReadDoubleAt(TRUE, q, 0))
           \/ \E b \in DOMAIN q : b % 8 = 0 /\ ReadDoubleAt(TRUE, q, b).kind # "finite"
    BY <1>3 DEF ReplyMalformed
  <2>11. ~(c = "GET_MOTOR_CURRENT" /\ Negative(ReadDoubleAt(TRUE, q, 0)))
    BY <2>7, <2>9
  <2>. QED  BY <2>4, <2>8, <2>10, <2>11 DEF p
<1>4. CASE c \notin {"GET_MOTOR_FAULTS", "CLEAR_MOTOR_FAULTS", "GET_MOTOR_CURRENT_LIMIT",
                     "SET_MOTOR_CURRENT_LIMIT", "GET_TEMPERATURE", "GET_IMU", "GET_MOTOR_CURRENT"}
  BY <1>4 DEF ReplyMalformed
<1>. QED
  BY <1>1, <1>2, <1>3, <1>4

----------------------------------------------------------------------------
(* What request() reads *)

\* The places where fields of a list begin, and their sizes.
Placed(types, places) ==
  \A i \in DOMAIN places :
    /\ i \in DOMAIN types /\ types[i] \in {"u8", "bool", "u16", "u32"}
    /\ places[i] = <<OffsetOf(types, i), SizeOf(types[i])>>

\* The lists request() looks into.
LEMMA PlacedLists ==
  /\ Placed(<<"u8">>, <<<<0, 1>>>>)
  /\ Placed(<<"u32">>, <<<<0, 4>>>>)
  /\ Placed(<<"bool", "u32">>, <<<<0, 1>>, <<1, 4>>>>)
  /\ Placed(<<"u8", "u32">>, <<<<0, 1>>, <<1, 4>>>>)
  /\ Placed(<<"u8", "u8">>, <<<<0, 1>>, <<1, 1>>>>)
  /\ Placed(<<"u8", "u8", "u32">>, <<<<0, 1>>, <<1, 1>>, <<2, 4>>>>)
  /\ Placed(<<"u8", "bool", "u16">>, <<<<0, 1>>, <<1, 1>>, <<2, 2>>>>)
  /\ Placed(<<"u8", "u8", "u32", "u8">>,
            <<<<0, 1>>, <<1, 1>>, <<2, 4>>, <<6, 1>>>>)
  /\ Placed(<<"u8", "u8", "u32", "u8", "u8", "u32">>,
            <<<<0, 1>>, <<1, 1>>, <<2, 4>>, <<6, 1>>, <<7, 1>>, <<8, 4>>>>)
<1>1. Placed(<<"u8">>, <<<<0, 1>>>>)
  <2>. DEFINE types == <<"u8">>
  <2>1. Listed(types, 1)
    BY SizedLists, Zenon DEF Sized
  <2>2. DOMAIN types = 1 .. 1 /\ types[1] = "u8"
    OBVIOUS
  <2>. HIDE DEF types
  <2>3. /\ OffsetOf(types, 1) = 0
    <3>1. 1 \in Nat /\ 1 \in 1 .. 1
      OBVIOUS
    <3>. QED  BY <2>1, <3>1, OffsetStep
  <2>4. OffsetOf(types, 1) = 0
    BY <2>3
  <2>5. Placed(types, <<<<0, 1>>>>)
    BY <2>2, <2>4, SizeFacts DEF Placed
  <2>. QED  BY <2>5 DEF types
<1>2. Placed(<<"u32">>, <<<<0, 4>>>>)
  <2>. DEFINE types == <<"u32">>
  <2>1. Listed(types, 1)
    BY SizedLists, Zenon DEF Sized
  <2>2. DOMAIN types = 1 .. 1 /\ types[1] = "u32"
    OBVIOUS
  <2>. HIDE DEF types
  <2>3. /\ OffsetOf(types, 1) = 0
    <3>1. 1 \in Nat /\ 1 \in 1 .. 1
      OBVIOUS
    <3>. QED  BY <2>1, <3>1, OffsetStep
  <2>4. OffsetOf(types, 1) = 0
    BY <2>3
  <2>5. Placed(types, <<<<0, 4>>>>)
    BY <2>2, <2>4, SizeFacts DEF Placed
  <2>. QED  BY <2>5 DEF types
<1>3. Placed(<<"bool", "u32">>, <<<<0, 1>>, <<1, 4>>>>)
  <2>. DEFINE types == <<"bool", "u32">>
  <2>1. Listed(types, 2)
    BY SizedLists, Zenon DEF Sized
  <2>2. DOMAIN types = 1 .. 2 /\ types[1] = "bool" /\ types[2] = "u32"
    OBVIOUS
  <2>. HIDE DEF types
  <2>3. /\ OffsetOf(types, 1) = 0
        /\ OffsetOf(types, 1 + 1) = OffsetOf(types, 1) + SizeOf(types[1])
    <3>1. 2 \in Nat /\ 1 \in 1 .. 2 /\ 2 \in 1 .. 2
      OBVIOUS
    <3>. QED  BY <2>1, <3>1, OffsetStep
  <2>4. OffsetOf(types, 1) = 0 /\ OffsetOf(types, 2) = 1
    BY <2>2, <2>3, SizeFacts
  <2>5. Placed(types, <<<<0, 1>>, <<1, 4>>>>)
    BY <2>2, <2>4, SizeFacts DEF Placed
  <2>. QED  BY <2>5 DEF types
<1>4. Placed(<<"u8", "u32">>, <<<<0, 1>>, <<1, 4>>>>)
  <2>. DEFINE types == <<"u8", "u32">>
  <2>1. Listed(types, 2)
    BY SizedLists, Zenon DEF Sized
  <2>2. DOMAIN types = 1 .. 2 /\ types[1] = "u8" /\ types[2] = "u32"
    OBVIOUS
  <2>. HIDE DEF types
  <2>3. /\ OffsetOf(types, 1) = 0
        /\ OffsetOf(types, 1 + 1) = OffsetOf(types, 1) + SizeOf(types[1])
    <3>1. 2 \in Nat /\ 1 \in 1 .. 2 /\ 2 \in 1 .. 2
      OBVIOUS
    <3>. QED  BY <2>1, <3>1, OffsetStep
  <2>4. OffsetOf(types, 1) = 0 /\ OffsetOf(types, 2) = 1
    BY <2>2, <2>3, SizeFacts
  <2>5. Placed(types, <<<<0, 1>>, <<1, 4>>>>)
    BY <2>2, <2>4, SizeFacts DEF Placed
  <2>. QED  BY <2>5 DEF types
<1>5. Placed(<<"u8", "u8">>, <<<<0, 1>>, <<1, 1>>>>)
  <2>. DEFINE types == <<"u8", "u8">>
  <2>1. Listed(types, 2)
    BY SizedLists, Zenon DEF Sized
  <2>2. DOMAIN types = 1 .. 2 /\ types[1] = "u8" /\ types[2] = "u8"
    OBVIOUS
  <2>. HIDE DEF types
  <2>3. /\ OffsetOf(types, 1) = 0
        /\ OffsetOf(types, 1 + 1) = OffsetOf(types, 1) + SizeOf(types[1])
    <3>1. 2 \in Nat /\ 1 \in 1 .. 2 /\ 2 \in 1 .. 2
      OBVIOUS
    <3>. QED  BY <2>1, <3>1, OffsetStep
  <2>4. OffsetOf(types, 1) = 0 /\ OffsetOf(types, 2) = 1
    BY <2>2, <2>3, SizeFacts
  <2>5. Placed(types, <<<<0, 1>>, <<1, 1>>>>)
    BY <2>2, <2>4, SizeFacts DEF Placed
  <2>. QED  BY <2>5 DEF types
<1>6. Placed(<<"u8", "u8", "u32">>, <<<<0, 1>>, <<1, 1>>, <<2, 4>>>>)
  <2>. DEFINE types == <<"u8", "u8", "u32">>
  <2>1. Listed(types, 3)
    BY SizedLists, Zenon DEF Sized
  <2>2. DOMAIN types = 1 .. 3 /\ types[1] = "u8" /\ types[2] = "u8" /\ types[3] = "u32"
    OBVIOUS
  <2>. HIDE DEF types
  <2>3. /\ OffsetOf(types, 1) = 0
        /\ OffsetOf(types, 1 + 1) = OffsetOf(types, 1) + SizeOf(types[1])
        /\ OffsetOf(types, 2 + 1) = OffsetOf(types, 2) + SizeOf(types[2])
    <3>1. 3 \in Nat /\ 1 \in 1 .. 3 /\ 2 \in 1 .. 3 /\ 3 \in 1 .. 3
      OBVIOUS
    <3>. QED  BY <2>1, <3>1, OffsetStep
  <2>4. OffsetOf(types, 1) = 0 /\ OffsetOf(types, 2) = 1 /\ OffsetOf(types, 3) = 2
    BY <2>2, <2>3, SizeFacts
  <2>5. Placed(types, <<<<0, 1>>, <<1, 1>>, <<2, 4>>>>)
    BY <2>2, <2>4, SizeFacts DEF Placed
  <2>. QED  BY <2>5 DEF types
<1>7. Placed(<<"u8", "bool", "u16">>, <<<<0, 1>>, <<1, 1>>, <<2, 2>>>>)
  <2>. DEFINE types == <<"u8", "bool", "u16">>
  <2>1. Listed(types, 3)
    BY SizedLists, Zenon DEF Sized
  <2>2. DOMAIN types = 1 .. 3 /\ types[1] = "u8" /\ types[2] = "bool" /\ types[3] = "u16"
    OBVIOUS
  <2>. HIDE DEF types
  <2>3. /\ OffsetOf(types, 1) = 0
        /\ OffsetOf(types, 1 + 1) = OffsetOf(types, 1) + SizeOf(types[1])
        /\ OffsetOf(types, 2 + 1) = OffsetOf(types, 2) + SizeOf(types[2])
    <3>1. 3 \in Nat /\ 1 \in 1 .. 3 /\ 2 \in 1 .. 3 /\ 3 \in 1 .. 3
      OBVIOUS
    <3>. QED  BY <2>1, <3>1, OffsetStep
  <2>4. OffsetOf(types, 1) = 0 /\ OffsetOf(types, 2) = 1 /\ OffsetOf(types, 3) = 2
    BY <2>2, <2>3, SizeFacts
  <2>5. Placed(types, <<<<0, 1>>, <<1, 1>>, <<2, 2>>>>)
    BY <2>2, <2>4, SizeFacts DEF Placed
  <2>. QED  BY <2>5 DEF types
<1>8. Placed(<<"u8", "u8", "u32", "u8">>, <<<<0, 1>>, <<1, 1>>, <<2, 4>>, <<6, 1>>>>)
  <2>. DEFINE types == <<"u8", "u8", "u32", "u8">>
  <2>1. Listed(types, 4)
    BY SizedLists, Zenon DEF Sized
  <2>2. DOMAIN types = 1 .. 4 /\ types[1] = "u8" /\ types[2] = "u8" /\ types[3] = "u32"
        /\ types[4] = "u8"
    OBVIOUS
  <2>. HIDE DEF types
  <2>3. /\ OffsetOf(types, 1) = 0
        /\ OffsetOf(types, 1 + 1) = OffsetOf(types, 1) + SizeOf(types[1])
        /\ OffsetOf(types, 2 + 1) = OffsetOf(types, 2) + SizeOf(types[2])
        /\ OffsetOf(types, 3 + 1) = OffsetOf(types, 3) + SizeOf(types[3])
    <3>1. 4 \in Nat /\ 1 \in 1 .. 4 /\ 2 \in 1 .. 4 /\ 3 \in 1 .. 4 /\ 4 \in 1 .. 4
      OBVIOUS
    <3>. QED  BY <2>1, <3>1, OffsetStep
  <2>4. OffsetOf(types, 1) = 0 /\ OffsetOf(types, 2) = 1 /\ OffsetOf(types, 3) = 2
        /\ OffsetOf(types, 4) = 6
    BY <2>2, <2>3, SizeFacts
  <2>5. Placed(types, <<<<0, 1>>, <<1, 1>>, <<2, 4>>, <<6, 1>>>>)
    BY <2>2, <2>4, SizeFacts DEF Placed
  <2>. QED  BY <2>5 DEF types
<1>9. Placed(<<"u8", "u8", "u32", "u8", "u8", "u32">>,
             <<<<0, 1>>, <<1, 1>>, <<2, 4>>, <<6, 1>>, <<7, 1>>, <<8, 4>>>>)
  <2>. DEFINE types == <<"u8", "u8", "u32", "u8", "u8", "u32">>
  <2>1. Listed(types, 6)
    BY SizedLists, Zenon DEF Sized
  <2>2. DOMAIN types = 1 .. 6 /\ types[1] = "u8" /\ types[2] = "u8" /\ types[3] = "u32"
        /\ types[4] = "u8" /\ types[5] = "u8" /\ types[6] = "u32"
    OBVIOUS
  <2>. HIDE DEF types
  <2>3. /\ OffsetOf(types, 1) = 0
        /\ OffsetOf(types, 1 + 1) = OffsetOf(types, 1) + SizeOf(types[1])
        /\ OffsetOf(types, 2 + 1) = OffsetOf(types, 2) + SizeOf(types[2])
        /\ OffsetOf(types, 3 + 1) = OffsetOf(types, 3) + SizeOf(types[3])
        /\ OffsetOf(types, 4 + 1) = OffsetOf(types, 4) + SizeOf(types[4])
        /\ OffsetOf(types, 5 + 1) = OffsetOf(types, 5) + SizeOf(types[5])
    <3>1. 6 \in Nat /\ 1 \in 1 .. 6 /\ 2 \in 1 .. 6 /\ 3 \in 1 .. 6 /\ 4 \in 1 .. 6
          /\ 5 \in 1 .. 6 /\ 6 \in 1 .. 6
      OBVIOUS
    <3>. QED  BY <2>1, <3>1, OffsetStep
  <2>4. OffsetOf(types, 1) = 0 /\ OffsetOf(types, 2) = 1 /\ OffsetOf(types, 3) = 2
        /\ OffsetOf(types, 4) = 6 /\ OffsetOf(types, 5) = 7 /\ OffsetOf(types, 6) = 8
    BY <2>2, <2>3, SizeFacts
  <2>5. Placed(types, <<<<0, 1>>, <<1, 1>>, <<2, 4>>, <<6, 1>>, <<7, 1>>, <<8, 4>>>>)
    BY <2>2, <2>4, SizeFacts DEF Placed
  <2>. QED  BY <2>5 DEF types
<1>. QED
  BY <1>1, <1>2, <1>3, <1>4, <1>5, <1>6, <1>7, <1>8, <1>9, Zenon

\* request() looks for the arguments where the methods put them.
LEMMA RequestPlaced ==
  ASSUME NEW c \in DOMAIN Arguments, c \in DOMAIN RequestReads
  PROVE  Placed(Arguments[c], RequestReads[c])
<1>1. /\ c \notin DOMAIN MotorArguments /\ c \notin DOMAIN EncoderArguments
      /\ c \notin DOMAIN BoardIoArguments /\ c \notin DOMAIN PlatformArguments
      /\ c \notin DOMAIN PositionArguments
  <2>1. c \in {"GET_TEMPERATURE", "GET_IMU", "GET_MOTOR_CURRENT", "GET_MOTOR_FAULTS",
               "CLEAR_MOTOR_FAULTS", "GET_MOTOR_CURRENT_LIMIT", "UNSUBSCRIBE_ODOMETRY",
               "SET_HEARTBEAT_CONFIG", "SUBSCRIBE_ODOMETRY", "UNSUBSCRIBE", "SUBSCRIBE",
               "SUBSCRIBE_WITH_MODE", "SUBSCRIBE_CONFIGURED", "SET_MOTOR_CURRENT_LIMIT",
               "SET_PWM_FREQUENCY"}
    BY DEF RequestReads, Beside
  <2>2. c \notin DOMAIN MotorArguments
    BY <2>1 DEF MotorArguments, Beside
  <2>3. c \notin DOMAIN EncoderArguments
    BY <2>1 DEF EncoderArguments, Beside
  <2>4. c \notin DOMAIN BoardIoArguments
    BY <2>1 DEF BoardIoArguments, Beside
  <2>5. c \notin DOMAIN PlatformArguments
    BY <2>1 DEF PlatformArguments, Beside
  <2>6. c \notin DOMAIN PositionArguments
    BY <2>1 DEF PositionArguments
  <2>. QED  BY <2>2, <2>3, <2>4, <2>5, <2>6
<1>2. \A d \in DOMAIN SensorArguments : d \in DOMAIN RequestReads =>
        \/ SensorArguments[d] = <<"u8">> /\ RequestReads[d] = <<<<0, 1>>>>
  BY DEF SensorArguments, RequestReads, Beside, One
<1>3. \A d \in DOMAIN HardwareLimitArguments : d \in DOMAIN RequestReads =>
        \/ HardwareLimitArguments[d] = <<"u8">> /\ RequestReads[d] = <<<<0, 1>>>>
        \/ HardwareLimitArguments[d] = <<"u8", "bool", "u16">>
           /\ RequestReads[d] = <<<<0, 1>>, <<1, 1>>, <<2, 2>>>>
        \/ HardwareLimitArguments[d] = <<"u32">> /\ RequestReads[d] = <<<<0, 4>>>>
  BY DEF HardwareLimitArguments, RequestReads, Beside, One
<1>4. \A d \in DOMAIN ConnectionArguments : d \in DOMAIN RequestReads =>
        \/ ConnectionArguments[d] = <<"u8">> /\ RequestReads[d] = <<<<0, 1>>>>
        \/ ConnectionArguments[d] = <<"bool", "u32">> /\ RequestReads[d] = <<<<0, 1>>, <<1, 4>>>>
        \/ ConnectionArguments[d] = <<"u8", "u32">> /\ RequestReads[d] = <<<<0, 1>>, <<1, 4>>>>
  BY DEF ConnectionArguments, RequestReads, Beside, One
<1>5. \A d \in DOMAIN SubscriptionArguments : d \in DOMAIN RequestReads =>
        \/ SubscriptionArguments[d] = <<"u8", "u8">> /\ RequestReads[d] = <<<<0, 1>>, <<1, 1>>>>
        \/ SubscriptionArguments[d] = <<"u8", "u8", "u32">>
           /\ RequestReads[d] = <<<<0, 1>>, <<1, 1>>, <<2, 4>>>>
        \/ SubscriptionArguments[d] = <<"u8", "u8", "u32", "u8">>
           /\ RequestReads[d] = <<<<0, 1>>, <<1, 1>>, <<2, 4>>, <<6, 1>>>>
        \/ SubscriptionArguments[d] = <<"u8", "u8", "u32", "u8", "u8", "u32">>
           /\ RequestReads[d] = <<<<0, 1>>, <<1, 1>>, <<2, 4>>, <<6, 1>>, <<7, 1>>, <<8, 4>>>>
  BY DEF SubscriptionArguments, RequestReads, Beside, One
<1>6. CASE c \in DOMAIN SensorArguments /\ Arguments[c] = SensorArguments[c]
  BY <1>2, <1>6, PlacedLists, Zenon
<1>7. CASE c \in DOMAIN HardwareLimitArguments /\ Arguments[c] = HardwareLimitArguments[c]
  BY <1>3, <1>7, PlacedLists, Zenon
<1>8. CASE c \in DOMAIN ConnectionArguments /\ Arguments[c] = ConnectionArguments[c]
  BY <1>4, <1>8, PlacedLists, Zenon
<1>9. CASE c \in DOMAIN SubscriptionArguments /\ Arguments[c] = SubscriptionArguments[c]
  BY <1>5, <1>9, PlacedLists, Zenon
<1>. QED
  BY <1>1, <1>6, <1>7, <1>8, <1>9, ArgumentsOf, Zenon

\* request() reads the arguments it checks and remembers.
LEMMA RequestReadsArrive ==
  ASSUME NEW c \in DOMAIN Arguments, NEW values, Typed(Arguments[c], values),
         c \in DOMAIN RequestReads, NEW i \in DOMAIN RequestReads[c]
  PROVE  ReadUnsigned(Payload(c, values), RequestReads[c][i][1], RequestReads[c][i][2])
           = values[i]
<1>. DEFINE types == Arguments[c]
            size == Shapes[c][1]
<1>1. Fits(types, size)
  BY ArgumentsFit
<1>2. Payload(c, values) = PackInto(size, types, values)
  BY DEF Payload
<1>3. Placed(types, RequestReads[c]) /\ Typed(types, values)
  BY RequestPlaced
<1>. HIDE DEF types, size
<1>4. PICK n \in Nat : \E b \in Nat : Sized(types, n, b) /\ b <= size
  BY <1>1 DEF Fits
<1>5. Listed(types, n) /\ OffsetOf(types, n + 1) <= size
  BY <1>4 DEF Sized
<1>6. size \in Nat /\ DOMAIN types = 1 .. n /\ \A k \in 1 .. n : values[k] \in Values(types[k])
  BY <1>1, <1>3, <1>5 DEF Fits, Listed, Typed
<1>7. /\ i \in 1 .. n /\ types[i] \in {"u8", "bool", "u16", "u32"}
      /\ RequestReads[c][i] = <<OffsetOf(types, i), SizeOf(types[i])>>
  BY <1>3, <1>6 DEF Placed
<1>8. Raw(types[i], values[i]) = values[i]
  BY <1>7 DEF Raw
<1>9. \A k \in 1 .. n :
        ReadUnsigned(PackInto(size, types, values), OffsetOf(types, k), SizeOf(types[k]))
                          = Raw(types[k], values[k])
  BY <1>5, <1>6, FieldRead
<1>. QED
  BY <1>2, <1>7, <1>8, <1>9

\* A call arrives at the controller and at request(), and its results at the sketch.
LEMMA CallReaches ==
  ASSUME NEW call \in Commands
  PROVE  /\ Unpacked(Arguments[call.command], Payload(call.command, call.arguments))
              = call.arguments
         /\ call.command \in DOMAIN RequestReads =>
              \A i \in DOMAIN RequestReads[call.command] :
                ReadUnsigned(Payload(call.command, call.arguments),
                             RequestReads[call.command][i][1], RequestReads[call.command][i][2])
                  = call.arguments[i]
<1>1. call.command \in DOMAIN Arguments /\ Typed(Arguments[call.command], call.arguments)
  BY CommandsAssumption
<1>2. Unpacked(Arguments[call.command], Payload(call.command, call.arguments)) = call.arguments
  BY <1>1, ArgumentsArrive
<1>. QED
  BY <1>1, <1>2, RequestReadsArrive

\* The results of a call are what its method returns.
LEMMA CallReturns ==
  ASSUME NEW call \in Commands, call.command \in DOMAIN Results
  PROVE  Reading(TRUE, call.command,
                 PackInto(Shapes[call.command][2], Results[call.command], call.results))
           = [decoded |-> TRUE, values |-> call.results]
<1>. DEFINE c == call.command
            p == PackInto(Shapes[c][2], Results[c], call.results)
<1>1. c \in DOMAIN Results /\ Typed(Results[c], call.results) /\ Proper(c, call.results)
  BY CommandsAssumption
<1>2. ~ReplyMalformed(TRUE, c, p)
  BY <1>1, ProperAccepted
<1>3. [i \in DOMAIN Results[c] |-> Taken(TRUE, Results[c][i], p, OffsetOf(Results[c], i))]
        = call.results
  BY <1>1, ResultsArrive
<1>. HIDE DEF p, c
<1>4. Reading(TRUE, c, p)
        = [decoded |-> TRUE,
           values |-> [i \in DOMAIN Results[c] |->
                         Taken(TRUE, Results[c][i], p, OffsetOf(Results[c], i))]]
  BY <1>2 DEF Reading
<1>. QED
  BY <1>3, <1>4 DEF p, c

----------------------------------------------------------------------------
(* The three uses *)

\* What each use has done with its input so far.
DoubleDone ==
  use = "double" =>
    /\ input \in Bits /\ step \in {"received", "read", "resent"}
    /\ step # "received" => native = ReadDouble(TRUE, input)
    /\ step = "resent" => result = WriteDouble(native)

\* Samples: decoded on both boards, then asked for.
SampleDone ==
  use = "sample" =>
    /\ input \in Samples /\ step \in {"received", "read", "got"}
    /\ step # "received" =>
         native = DecodeTelemetry(TRUE, input.topic, input.index, Packed(input))
    /\ step = "read" => result = DecodeTelemetry(FALSE, input.topic, input.index, Packed(input))
    /\ step = "got" => result = Reading(TRUE, Getter[input.topic], Response(input))

\* Calls: executed, then answered.
CommandDone ==
  use = "command" =>
    /\ input \in Commands /\ step \in {"received", "executed", "returned"}
    /\ step # "received" =>
         native = Unpacked(Arguments[input.command], Payload(input.command, input.arguments))
    /\ step = "returned" =>
         /\ input.command \in DOMAIN Results
         /\ result = Reading(TRUE, input.command,
                       PackInto(Shapes[input.command][2], Results[input.command], input.results))

\* The inductive invariant.
Done == DoubleDone /\ SampleDone /\ CommandDone

\* Done is inductive: the steps of the three uses do not mix.
LEMMA DoneInvariant == Spec => []Done
<1>1. Init => Done
  BY DEF Init, Done, DoubleDone, SampleDone, CommandDone
<1>2. Done /\ [Next]_vars => Done'
  <2>. SUFFICES ASSUME Done, [Next]_vars PROVE Done'
    OBVIOUS
  <2>. USE DEF Done
  <2>1. CASE Read
    BY <2>1 DEF Read, DoubleDone, SampleDone, CommandDone
  <2>2. CASE Resend
    BY <2>2 DEF Resend, DoubleDone, SampleDone, CommandDone
  <2>3. CASE Decode
    BY <2>3 DEF Decode, DoubleDone, SampleDone, CommandDone
  <2>4. CASE Get
    BY <2>4 DEF Get, DoubleDone, SampleDone, CommandDone
  <2>5. CASE Execute
    BY <2>5 DEF Execute, DoubleDone, SampleDone, CommandDone
  <2>6. CASE Return
    BY <2>6 DEF Return, DoubleDone, SampleDone, CommandDone
  <2>7. CASE UNCHANGED vars
    BY <2>7 DEF vars, DoubleDone, SampleDone, CommandDone
  <2>. QED  BY <2>1, <2>2, <2>3, <2>4, <2>5, <2>6, <2>7 DEF Next
<1>. QED
  BY <1>1, <1>2, PTL DEF Spec

----------------------------------------------------------------------------
(* The properties *)

\* A double that the board can hold is read as it was sent, and sent back as the
\* same bits, a NaN as a NaN: readDouble() and writeDouble() lose nothing.
THEOREM RepresentableExactAlways == Spec => []RepresentableExact
<1>1. Done => RepresentableExact
  <2>. SUFFICES ASSUME Done, use = "double", Representable(OnWire(input))
                PROVE  /\ step # "received" => native = OnWire(input)
                       /\ step = "resent" =>
                            result = input \/ (native.kind = "nan" /\ OnWire(result) = native)
    BY DEF RepresentableExact
  <2>1. /\ input \in Bits
        /\ step # "received" => native = ReadDouble(TRUE, input)
        /\ step = "resent" => result = WriteDouble(native)
    BY DEF Done, DoubleDone
  <2>2. /\ ReadDouble(TRUE, input) = OnWire(input)
        /\ ReadDouble(TRUE, input).kind # "nan" => WriteDouble(ReadDouble(TRUE, input)) = input
    BY <2>1, DoubleExact
  <2>3. OnWire(WriteDouble(ReadDouble(TRUE, input))) = ReadDouble(TRUE, input)
    BY <2>1, DoubleResent
  <2>. QED  BY <2>1, <2>2, <2>3
<1>. QED
  BY <1>1, DoneInvariant, PTL

\* What a sketch reads is a value of its double and what it sends back denotes that
\* value, for every pattern of the 64 bits.
THEOREM ResentIsReadAlways == Spec => []ResentIsRead
<1>1. Done => ResentIsRead
  <2>. SUFFICES ASSUME Done, use = "double", step = "resent"
                PROVE  Representable(native) /\ OnWire(result) = native
    BY DEF ResentIsRead
  <2>1. input \in Bits /\ native = ReadDouble(TRUE, input) /\ result = WriteDouble(native)
    BY DEF Done, DoubleDone
  <2>. QED  BY <2>1, DoubleResent
<1>. QED
  BY <1>1, DoneInvariant, PTL

\* readDouble() keeps the order of two patterns that follow each other, and the sign.
THEOREM OrderKeptAlways == Spec => []OrderKept
<1>1. Done => OrderKept
  <2>. SUFFICES ASSUME Done, use = "double", step # "received"
                PROVE  /\ native.negative = OnWire(input).negative
                       /\ OnWire(input).kind = "finite" =>
                            AtMost(native, ReadDouble(TRUE, input + 1))
    BY DEF OrderKept
  <2>1. input \in Bits /\ native = ReadDouble(TRUE, input)
    BY DEF Done, DoubleDone
  <2>. QED  BY <2>1, DoubleOrder
<1>. QED
  BY <1>1, DoneInvariant, PTL

\* readDouble() makes an infinity of a number whose leading bit is beyond the range of the
\* board's double, and a finite number of one whose leading bit is below the top of it.
THEOREM BeyondRangeInfiniteAlways == Spec => []BeyondRangeInfinite
<1>1. Done => BeyondRangeInfinite
  <2>. DEFINE top == Leading(OnWire(input).m) + OnWire(input).e
  <2>. SUFFICES ASSUME Done, use = "double", step # "received", OnWire(input).kind = "finite",
                       OnWire(input).m # 0
                PROVE  /\ top > Bias(ExponentBits) => native.kind = "infinite"
                       /\ top < Bias(ExponentBits) => native.kind = "finite"
    BY DEF BeyondRangeInfinite
  <2>1. input \in Bits /\ native = ReadDouble(TRUE, input)
    BY DEF Done, DoubleDone
  <2>. QED  BY <2>1, DoubleBeyond
<1>. QED
  BY <1>1, DoneInvariant, PTL

\* kinisiDecodeTelemetry() finds every field of a valid sample where the controller packed
\* it, and refuses every other sample, if the board can hold the doubles in it.
THEOREM SampleArrivesAlways == Spec => []SampleArrives
<1>1. Done => SampleArrives
  <2>. SUFFICES ASSUME Done, use = "sample", step = "read", Exact(input)
                PROVE  native = IF Valid(input) THEN Meant(input) ELSE Refused
    BY DEF SampleArrives
  <2>1. /\ input \in Samples
        /\ native = DecodeTelemetry(TRUE, input.topic, input.index, Packed(input))
    BY DEF Done, SampleDone
  <2>. QED  BY <2>1, SampleExact
<1>. QED
  BY <1>1, DoneInvariant, PTL

\* A narrow and a wide board disagree about a sample only over a value beyond the
\* narrow range and over a negative current that vanishes.
THEOREM WidthDecidesAlways == Spec => []WidthDecides
<1>1. Done => WidthDecides
  <2>. SUFFICES ASSUME Done, use = "sample", step = "read" PROVE WidthDecides
    BY DEF WidthDecides
  <2>1. /\ input \in Samples
        /\ native = DecodeTelemetry(TRUE, input.topic, input.index, Packed(input))
        /\ result = DecodeTelemetry(FALSE, input.topic, input.index, Packed(input))
    BY DEF Done, SampleDone
  <2>. QED  BY <2>1, SampleWidth DEF WidthDecides
<1>. QED
  BY <1>1, DoneInvariant, PTL

\* The checks in request() and those of the generated decoder accept the same data of a
\* source, and both take the same values from it.
THEOREM ReadingAgreesAlways == Spec => []ReadingAgreesWithSample
<1>1. Done => ReadingAgreesWithSample
  <2>. SUFFICES ASSUME Done, use = "sample", step = "got",
                       TopicInfoValid(input.topic, input.index),
                       input.clock_mode <= 1, input.clock_quality \in {1, 2}
                PROVE  ReadingAgreesWithSample
    BY DEF ReadingAgreesWithSample
  <2>1. /\ input \in Samples
        /\ native = DecodeTelemetry(TRUE, input.topic, input.index, Packed(input))
        /\ result = Reading(TRUE, Getter[input.topic], Response(input))
    BY DEF Done, SampleDone
  <2>. QED  BY <2>1, ReadingAgrees DEF ReadingAgreesWithSample
<1>. QED
  BY <1>1, DoneInvariant, PTL

\* Every method packs its arguments where the controller and request() look for them, and
\* takes its results from where the controller put them.
THEOREM CallArrivesAlways == Spec => []CallArrives
<1>1. Done => CallArrives
  <2>. SUFFICES ASSUME Done, use = "command" PROVE CallArrives
    BY DEF CallArrives
  <2>1. /\ input \in Commands
        /\ step # "received" =>
             native = Unpacked(Arguments[input.command], Payload(input.command, input.arguments))
        /\ step = "returned" =>
             /\ input.command \in DOMAIN Results
             /\ result =
                  Reading(TRUE, input.command,
                    PackInto(Shapes[input.command][2], Results[input.command], input.results))
    BY DEF Done, CommandDone
  <2>2. step # "received" => native = input.arguments
    BY <2>1, CallReaches
  <2>3. input.command \in DOMAIN RequestReads =>
          \A i \in DOMAIN RequestReads[input.command] :
            LET at == RequestReads[input.command][i]
            IN ReadUnsigned(Payload(input.command, input.arguments), at[1], at[2])
                 = input.arguments[i]
    BY <2>1, CallReaches
  <2>4. step = "returned" => result = [decoded |-> TRUE, values |-> input.results]
    BY <2>1, CallReturns
  <2>. QED  BY <2>2, <2>3, <2>4 DEF CallArrives
<1>. QED
  BY <1>1, DoneInvariant, PTL
=============================================================================
