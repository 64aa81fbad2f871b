----------------------------- MODULE SVPWire_proofs -----------------------------
(***************************************************************************)
(* What is sent is what is understood: numbers, fields, payloads, frames   *)
(* and the cache file of SVPWire, for every size of a byte, of keys, ids   *)
(* and frames, and for every message.                                      *)
(***************************************************************************)
EXTENDS SVPWire, Integers, SequenceTheorems, WellFoundedInduction, TLAPS

-----------------------------------------------------------------------------
\* Induction and recursion on the naturals, over sets and functions.

LEMMA LeastOf ==
  ASSUME NEW T \in SUBSET Nat, T # {}
  PROVE  \E n \in T : \A m \in T : ~(m < n)
<1> DEFINE R == OpToRel(<, Nat)
<1>1. PICK n \in T : \A m \in T : ~(<<m, n>> \in R)
  <2>1. IsWellFoundedOn(R, Nat)
    BY NatLessThanWellFounded
  <2> HIDE DEF R
  <2> QED
    BY <2>1, WFMin
<1>2. \A m \in T : m < n => <<m, n>> \in R
  BY DEF OpToRel
<1> QED
  BY <1>1, <1>2

LEMMA Induction ==
  ASSUME NEW T, 0 \in T, \A n \in Nat : n \in T => n + 1 \in T
  PROVE  \A n \in Nat : n \in T
<1> SUFFICES ASSUME Nat \ T # {} PROVE FALSE
  OBVIOUS
<1>1. PICK n \in Nat \ T : \A m \in Nat \ T : ~(m < n)
  BY LeastOf
<1>2. n # 0 /\ n - 1 \in Nat /\ n - 1 < n
  OBVIOUS
<1>3. n - 1 \in T
  BY <1>1, <1>2
<1> QED
  BY <1>2, <1>3

\* The function that begins with a and goes on by g; its first n values.
Begins(f, n, a, g) == f[0] = a /\ \A i \in 1..n : f[i] = g[<<f[i - 1], i>>]

Continues(f, a, g) == f[0] = a /\ \A n \in Nat \ {0} : f[n] = g[<<f[n - 1], n>>]

LEMMA FiniteRecursion ==
  ASSUME NEW S, NEW a \in S, NEW g \in [S \X Nat -> S]
  PROVE  \A n \in Nat : \E f \in [0..n -> S] : Begins(f, n, a, g)
<1> DEFINE T == {n \in Nat : \E f \in [0..n -> S] : Begins(f, n, a, g)}
<1>1. 0 \in T
  <2>1. [i \in 0..0 |-> a] \in [0..0 -> S] /\ Begins([i \in 0..0 |-> a], 0, a, g)
    BY DEF Begins
  <2> QED
    BY <2>1
<1>2. ASSUME NEW n \in Nat, n \in T
      PROVE  n + 1 \in T
  <2>1. PICK f \in [0..n -> S] : Begins(f, n, a, g)
    BY <1>2
  <2> DEFINE h == [i \in 0..(n + 1) |-> IF i = n + 1 THEN g[<<f[n], n + 1>>] ELSE f[i]]
  <2>2. h \in [0..(n + 1) -> S]
    OBVIOUS
  <2>3. \A i \in 0..n : h[i] = f[i]
    OBVIOUS
  <2>4. h[n + 1] = g[<<f[n], n + 1>>]
    OBVIOUS
  <2> HIDE DEF h
  <2>5. ASSUME NEW i \in 1..(n + 1)
        PROVE  h[i] = g[<<h[i - 1], i>>]
    <3>1. CASE i = n + 1
      BY <2>3, <2>4, <3>1
    <3>2. CASE i # n + 1
      BY <2>1, <2>3, <3>2 DEF Begins
    <3> QED
      BY <3>1, <3>2
  <2>6. Begins(h, n + 1, a, g)
    BY <2>1, <2>3, <2>5 DEF Begins
  <2> QED
    BY <2>2, <2>6
<1> HIDE DEF T
<1>3. \A n \in Nat : n \in T
  BY <1>1, <1>2, Induction
<1> QED
  BY <1>3 DEF T

LEMMA SameBeginning ==
  ASSUME NEW a, NEW g, NEW f, NEW h, NEW n \in Nat, Begins(f, n, a, g), Begins(h, n, a, g)
  PROVE  f[n] = h[n]
<1> DEFINE T == {i \in Nat : i <= n => f[i] = h[i]}
<1>1. 0 \in T
  BY DEF Begins
<1>2. ASSUME NEW i \in Nat, i \in T, i + 1 <= n
      PROVE  f[i + 1] = h[i + 1]
  <2>1. i + 1 \in 1..n /\ (i + 1) - 1 = i /\ f[i] = h[i]
    BY <1>2
  <2>2. f[i + 1] = g[<<f[i], i + 1>>] /\ h[i + 1] = g[<<h[i], i + 1>>]
    BY <2>1 DEF Begins
  <2> QED
    BY <2>1, <2>2
<1>3. \A i \in Nat : i \in T => i + 1 \in T
  BY <1>2
<1> HIDE DEF T
<1>4. n \in T
  BY <1>1, <1>3, Induction
<1> QED
  BY <1>4 DEF T

LEMMA Recursion ==
  ASSUME NEW S, NEW a \in S, NEW g \in [S \X Nat -> S]
  PROVE  \E f \in [Nat -> S] : Continues(f, a, g)
<1> DEFINE upTo(n) == CHOOSE f \in [0..n -> S] : Begins(f, n, a, g)
           F == [n \in Nat |-> upTo(n)[n]]
<1>1. \A n \in Nat : upTo(n) \in [0..n -> S] /\ Begins(upTo(n), n, a, g)
  BY FiniteRecursion
<1> HIDE DEF upTo
<1>2. \A n \in Nat : F[n] = upTo(n)[n]
  OBVIOUS
<1>3. F \in [Nat -> S]
  BY <1>1
<1>4. ASSUME NEW n \in Nat \ {0}
      PROVE  upTo(n)[n - 1] = upTo(n - 1)[n - 1]
  <2>1. Begins(upTo(n), n - 1, a, g) /\ Begins(upTo(n - 1), n - 1, a, g)
    BY <1>1 DEF Begins
  <2> QED
    BY <2>1, SameBeginning
<1> HIDE DEF F
<1>5. F[0] = a
  BY <1>1, <1>2 DEF Begins
<1>6. ASSUME NEW n \in Nat \ {0}
      PROVE  F[n] = g[<<F[n - 1], n>>]
  <2>1. upTo(n)[n] = g[<<upTo(n)[n - 1], n>>]
    BY <1>1 DEF Begins
  <2> QED
    BY <1>2, <1>4, <2>1
<1> QED
  BY <1>3, <1>5, <1>6 DEF Continues

-----------------------------------------------------------------------------
\* Numbers.

LEMMA BaseIsNat == Base \in Nat /\ Base >= 2
BY WireAssumption

LEMMA ProductIsNat ==
  ASSUME NEW a \in Nat, NEW b \in Nat
  PROVE  a * b \in Nat
OBVIOUS

LEMMA PowerIs ==
  /\ Power \in [Nat -> Nat]
  /\ Power[0] = 1
  /\ \A n \in Nat : Power[n + 1] = Base * Power[n]
<1>1. \E f : f = [n \in Nat |-> IF n = 0 THEN 1 ELSE Base * f[n - 1]]
  <2> DEFINE g == [x \in Nat \X Nat |-> Base * x[1]]
  <2>1. \A x \in Nat \X Nat : Base * x[1] \in Nat
    BY BaseIsNat, ProductIsNat
  <2>2. g \in [Nat \X Nat -> Nat]
    BY <2>1
  <2>3. \A k, n \in Nat : g[<<k, n>>] = Base * k
    OBVIOUS
  <2> HIDE DEF g
  <2>4. 1 \in Nat
    OBVIOUS
  <2>5. PICK f \in [Nat -> Nat] : Continues(f, 1, g)
    BY <2>2, <2>4, Recursion
  <2>6. ASSUME NEW n \in Nat
        PROVE  f[n] = IF n = 0 THEN 1 ELSE Base * f[n - 1]
    <3>1. CASE n = 0
      BY <2>5, <3>1 DEF Continues
    <3>2. CASE n # 0
      <4>1. f[n - 1] \in Nat /\ f[n] = g[<<f[n - 1], n>>]
        BY <2>5, <3>2 DEF Continues
      <4> QED
        BY <2>3, <3>2, <4>1
    <3> QED
      BY <3>1, <3>2
  <2>7. f = [n \in Nat |-> IF n = 0 THEN 1 ELSE Base * f[n - 1]]
    BY <2>6
  <2> QED
    BY <2>7
<1>2. Power = [n \in Nat |-> IF n = 0 THEN 1 ELSE Base * Power[n - 1]]
  BY <1>1 DEF Power
<1>3. \A n \in Nat : Power[n] = IF n = 0 THEN 1 ELSE Base * Power[n - 1]
  BY <1>2
<1>4. Power[0] = 1 /\ \A n \in Nat : Power[n + 1] = Base * Power[n]
  BY <1>3
<1> DEFINE T == {n \in Nat : Power[n] \in Nat}
<1>5. 0 \in T
  BY <1>4
<1>6. ASSUME NEW n \in Nat, n \in T PROVE n + 1 \in T
  <2>1. Power[n + 1] = Base * Power[n] /\ Power[n] \in Nat
    BY <1>4, <1>6
  <2>2. Power[n + 1] \in Nat
    BY <2>1, BaseIsNat, ProductIsNat
  <2> QED
    BY <2>2
<1> HIDE DEF T
<1>7. \A n \in Nat : n \in T
  BY <1>5, <1>6, Induction
<1>8. \A n \in Nat : Power[n] \in Nat
  BY <1>7 DEF T
<1>9. Power \in [Nat -> Nat]
  BY <1>2, <1>8
<1> QED
  BY <1>4, <1>9

LEMMA PowerAtLeastOne == \A n \in Nat : Power[n] \in Nat \ {0}
<1> DEFINE T == {n \in Nat : Power[n] >= 1}
<1>1. 0 \in T
  BY PowerIs
<1>2. ASSUME NEW n \in Nat, n \in T
      PROVE  n + 1 \in T
  <2>1. Power[n] \in Nat /\ Power[n] >= 1 /\ Power[n + 1] = Base * Power[n]
    BY <1>2, PowerIs
  <2>2. Base * Power[n] >= 1
    BY <2>1, BaseIsNat
  <2> QED
    BY <2>1, <2>2
<1> HIDE DEF T
<1>3. \A n \in Nat : n \in T
  BY <1>1, <1>2, Induction
<1> QED
  BY <1>3, PowerIs DEF T

LEMMA Division ==
  ASSUME NEW n \in Nat, NEW d \in Nat \ {0}
  PROVE  n \div d \in Nat /\ n % d \in 0..(d - 1) /\ n = (n \div d) * d + (n % d)
<1> DEFINE p == n \div d
           r == n % d
<1>1. p \in Int /\ r \in 0..(d - 1) /\ n = p * d + r
  OBVIOUS
<1> HIDE DEF p, r
<1>2. p < 0 => p * d <= (-1) * d
  BY <1>1
<1>3. p \in Nat
  BY <1>1, <1>2
<1>4. p \in Nat /\ r \in 0..(d - 1) /\ n = p * d + r
  BY <1>1, <1>3
<1> QED
  BY <1>4 DEF p, r

LEMMA Quotient ==
  ASSUME NEW n \in Nat, NEW d \in Nat \ {0}, NEW q \in Nat, NEW r \in 0..(d - 1), n = q * d + r
  PROVE  n \div d = q
<1> DEFINE p == n \div d
<1>1. p \in Int /\ p * d <= n /\ n < p * d + d
  OBVIOUS
<1> HIDE DEF p
<1>2. p < q => p * d + d <= q * d
  <2>1. p < q => (p + 1) * d <= q * d
    BY <1>1
  <2>2. (p + 1) * d = p * d + d
    BY <1>1
  <2> QED
    BY <2>1, <2>2
<1>3. q < p => q * d + d <= p * d
  <2>1. q < p => (q + 1) * d <= p * d
    BY <1>1
  <2>2. (q + 1) * d = q * d + d
    OBVIOUS
  <2> QED
    BY <2>1, <2>2
<1>4. q * d \in Nat /\ p * d \in Int
  BY <1>1
<1>5. p = q
  BY <1>1, <1>2, <1>3, <1>4
<1> QED
  BY <1>5 DEF p

\* Dividing by a power is dividing again and again.
LEMMA QuotientTwice ==
  ASSUME NEW n \in Nat, NEW d \in Nat \ {0}, NEW e \in Nat \ {0}
  PROVE  n \div (e * d) = (n \div d) \div e
<1> DEFINE q == n \div d
           r == n % d
           s == q \div e
           t == q % e
<1>1. q \in Nat /\ r \in 0..(d - 1) /\ n = q * d + r
  OBVIOUS
<1> HIDE DEF q, r
<1>2. s \in Nat /\ t \in 0..(e - 1) /\ q = s * e + t
  BY <1>1
<1> HIDE DEF s, t
<1>3. q * d = s * (e * d) + t * d
  BY <1>1, <1>2
<1>4. t * d <= (e - 1) * d /\ (e - 1) * d = e * d - d
  BY <1>2
<1>5. t * d \in Nat /\ e * d \in Nat \ {0}
  BY <1>2
<1>6. t * d + r \in 0..(e * d - 1)
  BY <1>1, <1>4, <1>5
<1>7. n = s * (e * d) + (t * d + r)
  BY <1>1, <1>2, <1>3, <1>5
<1> DEFINE c == e * d
           u == t * d + r
<1>8. c \in Nat \ {0} /\ u \in 0..(c - 1) /\ n = s * c + u
  BY <1>5, <1>6, <1>7
<1> HIDE DEF c, u
<1>9. n \div c = s
  BY <1>2, <1>8, Quotient
<1> QED
  BY <1>9 DEF c, q, s

LEMMA LEIs ==
  ASSUME NEW n \in Nat, NEW w \in Nat
  PROVE  /\ LE(n, w) \in Seq(0..Base - 1)
         /\ Len(LE(n, w)) = w
         /\ \A i \in 1..w : LE(n, w)[i] = (n \div Power[i - 1]) % Base
<1>1. ASSUME NEW i \in 1..w
      PROVE  (n \div Power[i - 1]) % Base \in 0..Base - 1
  <2>1. Power[i - 1] \in Nat \ {0}
    BY PowerAtLeastOne
  <2>2. n \div Power[i - 1] \in Int
    BY <2>1
  <2> QED
    BY <2>2, BaseIsNat
<1> QED
  BY <1>1 DEF LE

\* What Number adds up, byte by byte.
Sums(b, f) == f[0] = 0 /\ \A i \in 1..Len(b) : f[i] = f[i - 1] + b[i] * Power[i - 1]

LEMMA NumberIs ==
  ASSUME NEW b \in Seq(Nat)
  PROVE  \E f \in [0..Len(b) -> Nat] : Sums(b, f) /\ Number(b) = f[Len(b)]
<1> DEFINE n == Len(b)
           g == [x \in Nat \X Nat |-> IF x[2] \in 1..n THEN x[1] + b[x[2]] * Power[x[2] - 1] ELSE 0]
<1>1. n \in Nat
  OBVIOUS
<1>2. ASSUME NEW i \in 1..n
      PROVE  b[i] * Power[i - 1] \in Nat
  <2>1. b[i] \in Nat
    OBVIOUS
  <2>2. Power[i - 1] \in Nat
    BY PowerAtLeastOne
  <2> QED
    BY <2>1, <2>2, ProductIsNat
<1> HIDE DEF n
<1>3. \A k, i \in Nat : (IF i \in 1..n THEN k + b[i] * Power[i - 1] ELSE 0) \in Nat
  BY <1>2
<1>4. g \in [Nat \X Nat -> Nat]
  BY <1>3
<1>5. \A k \in Nat, i \in 1..n : g[<<k, i>>] = k + b[i] * Power[i - 1]
  BY <1>1
<1> HIDE DEF g
<1>6. 0 \in Nat
  OBVIOUS
<1>7. \E f \in [0..n -> Nat] : Begins(f, n, 0, g)
  BY <1>1, <1>4, <1>6, FiniteRecursion
<1>8. PICK f \in [0..n -> Nat] : Begins(f, n, 0, g)
  BY <1>7
<1>9. ASSUME NEW i \in 1..n
      PROVE  f[i] = f[i - 1] + b[i] * Power[i - 1]
  <2>1. i - 1 \in 0..n
    BY <1>1
  <2>2. f[i - 1] \in Nat
    BY <2>1
  <2>3. f[i] = g[<<f[i - 1], i>>]
    BY <1>8 DEF Begins
  <2> QED
    BY <1>5, <2>2, <2>3
<1>10. f[0] = 0
  BY <1>8 DEF Begins
<1>11. f = [i \in 0..n |-> IF i = 0 THEN 0 ELSE f[i - 1] + b[i] * Power[i - 1]]
  BY <1>1, <1>9, <1>10
<1> DEFINE sum == CHOOSE h : h = [i \in 0..n |-> IF i = 0 THEN 0 ELSE h[i - 1] + b[i] * Power[i - 1]]
<1>12. sum = [i \in 0..n |-> IF i = 0 THEN 0 ELSE sum[i - 1] + b[i] * Power[i - 1]]
  BY <1>11
<1>13. Number(b) = sum[n]
  BY DEF Number, n
<1> HIDE DEF sum
<1>14. \A i \in 0..n : sum[i] = IF i = 0 THEN 0 ELSE sum[i - 1] + b[i] * Power[i - 1]
  BY <1>12
<1> DEFINE T == {i \in Nat : i <= n => sum[i] = f[i]}
<1>15. 0 \in T
  BY <1>1, <1>10, <1>14
<1>16. ASSUME NEW i \in Nat, i \in T
       PROVE  i + 1 \in T
  <2>1. ASSUME i + 1 <= n
        PROVE  sum[i + 1] = f[i + 1]
    <3>1. i + 1 \in 1..n /\ (i + 1) - 1 = i /\ sum[i] = f[i]
      BY <1>1, <1>16, <2>1
    <3> QED
      BY <1>9, <1>14, <3>1
  <2> QED
    BY <2>1
<1> HIDE DEF T
<1>17. n \in T
  BY <1>1, <1>15, <1>16, Induction
<1>18. Number(b) = f[n]
  BY <1>1, <1>13, <1>17 DEF T
<1>19. Sums(b, f)
  BY <1>9, <1>10 DEF Sums, n
<1> QED
  BY <1>18, <1>19 DEF n

LEMMA NumberIsNat ==
  ASSUME NEW b \in Seq(Nat)
  PROVE  Number(b) \in Nat
BY NumberIs

\* A number that fits into its field is read as it was written (ByteWriter, ByteReader
\* and the struct formats of the server): after i bytes the sum is the number without
\* its multiples of Power[i].
THEOREM NumbersReadBack ==
  ASSUME NEW w \in Nat, NEW n \in 0..Power[w] - 1
  PROVE  Number(LE(n, w)) = n
<1> DEFINE b == LE(n, w)
<1>1. n \in Nat
  BY PowerAtLeastOne
<1>2. /\ b \in Seq(0..Base - 1) /\ Len(b) = w
      /\ \A i \in 1..w : b[i] = (n \div Power[i - 1]) % Base
  BY <1>1, LEIs
<1> HIDE DEF b
<1>3. b \in Seq(Nat)
  BY <1>2, BaseIsNat
<1>4. PICK f \in [0..w -> Nat] : Sums(b, f) /\ Number(b) = f[w]
  BY <1>2, <1>3, NumberIs
<1> DEFINE q(i) == n \div Power[i]
           T == {i \in Nat : i <= w => f[i] + q(i) * Power[i] = n}
<1>5. 0 \in T
  <2>1. f[0] = 0 /\ Power[0] = 1
    BY <1>4, PowerIs DEF Sums
  <2>2. q(0) = n
    BY <1>1, <2>1
  <2> HIDE DEF q
  <2> QED
    BY <1>1, <2>1, <2>2
<1>6. ASSUME NEW i \in Nat, i \in T
      PROVE  i + 1 \in T
  <2>1. ASSUME i + 1 <= w
        PROVE  f[i + 1] + q(i + 1) * Power[i + 1] = n
    <3>1. i + 1 \in 1..w /\ (i + 1) - 1 = i /\ i \in 0..w /\ f[i] + q(i) * Power[i] = n
      BY <1>6, <2>1
    <3>2. f[i + 1] = f[i] + b[i + 1] * Power[i]
      BY <1>2, <1>4, <3>1 DEF Sums
    <3>3. b[i + 1] = q(i) % Base
      BY <1>2, <3>1
    <3>4. Power[i] \in Nat \ {0} /\ Power[i + 1] = Base * Power[i]
      BY PowerAtLeastOne, PowerIs
    <3>5. Base \in Nat \ {0}
      BY BaseIsNat
    <3>6. q(i + 1) = q(i) \div Base
      BY <1>1, <3>4, <3>5, QuotientTwice
    <3>7. q(i) \in Nat
      BY <1>1, <3>4, Division
    <3> HIDE DEF q
    <3> DEFINE d == q(i) \div Base
               r == q(i) % Base
               p == Power[i]
    <3>8. d \in Nat /\ r \in Nat /\ q(i) = d * Base + r
      <4>1. d \in Nat /\ r \in 0..(Base - 1) /\ q(i) = d * Base + r
        BY <3>5, <3>7, Division, Zenon
      <4> HIDE DEF d, r
      <4> QED
        BY <3>5, <4>1
    <3>9. b[i + 1] = r /\ q(i + 1) = d
      BY <3>3, <3>6
    <3> HIDE DEF d, r
    <3>10. q(i) * p = d * (Base * p) + r * p
      BY <3>4, <3>5, <3>8
    <3>11. f[i + 1] = f[i] + r * p /\ q(i + 1) * Power[i + 1] = d * (Base * p)
      BY <3>2, <3>4, <3>9
    <3>12. f[i] \in Nat
      BY <3>1
    <3>13. r * p \in Nat /\ d * (Base * p) \in Nat
      BY <3>4, <3>5, <3>8, ProductIsNat
    <3>14. f[i] + (d * (Base * p) + r * p) = n
      BY <3>1, <3>10
    <3> HIDE DEF p
    <3> QED
      BY <3>11, <3>12, <3>13, <3>14
  <2> HIDE DEF q
  <2> QED
    BY <2>1
<1> HIDE DEF T
<1>7. w \in T
  BY <1>5, <1>6, Induction
<1>8. f[w] + q(w) * Power[w] = n
  BY <1>7 DEF T
<1>9. q(w) = 0
  <2>1. Power[w] \in Nat \ {0} /\ n \in 0..Power[w] - 1 /\ n = 0 * Power[w] + n /\ 0 \in Nat
    BY <1>1, PowerAtLeastOne
  <2> DEFINE p == Power[w]
  <2>2. p \in Nat \ {0} /\ n \in 0..(p - 1) /\ n = 0 * p + n
    BY <2>1
  <2> HIDE DEF p
  <2>3. n \div p = 0
    BY <1>1, <2>1, <2>2, Quotient
  <2> QED
    BY <2>3 DEF p
<1> HIDE DEF q
<1>10. f[w] \in Nat /\ 0 * Power[w] = 0
  BY PowerAtLeastOne
<1> QED
  BY <1>1, <1>4, <1>8, <1>9, <1>10 DEF b

-----------------------------------------------------------------------------
\* Fields: where a sequence holds another.

Data == Seq(Nat)
Holds(p, at, field) ==
  at + Len(field) <= Len(p) /\ \A i \in 1..Len(field) : p[at + i] = field[i]

LEMMA LengthIsNat == \A p \in Data : Len(p) \in Nat
BY DEF Data

LEMMA Joined ==
  ASSUME NEW p \in Data, NEW q \in Data
  PROVE  /\ p \o q \in Data
         /\ Len(p \o q) = Len(p) + Len(q)
         /\ Holds(p \o q, 0, p)
         /\ Holds(p \o q, Len(p), q)
<1>1. Len(p) \in Nat /\ Len(q) \in Nat
  BY LengthIsNat
<1>2. /\ p \o q \in Data
      /\ Len(p \o q) = Len(p) + Len(q)
      /\ \A i \in 1..Len(p) + Len(q) : (p \o q)[i] = IF i <= Len(p) THEN p[i] ELSE q[i - Len(p)]
  BY ConcatProperties DEF Data
<1>3. \A i \in 1..Len(q) : (p \o q)[Len(p) + i] = q[i]
  BY <1>1, <1>2
<1>4. \A i \in 1..Len(p) : (p \o q)[0 + i] = p[i]
  BY <1>1, <1>2
<1> QED
  BY <1>1, <1>2, <1>3, <1>4 DEF Holds

\* What a field of p holds, p holds.
LEMMA Within ==
  ASSUME NEW p \in Data, NEW q \in Data, NEW r \in Data, NEW a \in Nat, NEW b \in Nat,
         Holds(p, a, q), Holds(q, b, r)
  PROVE  Holds(p, a + b, r)
<1>1. Len(p) \in Nat /\ Len(q) \in Nat /\ Len(r) \in Nat
  BY LengthIsNat
<1>2. ASSUME NEW i \in 1..Len(r)
      PROVE  p[a + b + i] = r[i]
  <2>1. b + i \in 1..Len(q) /\ a + b + i = a + (b + i)
    BY <1>1 DEF Holds
  <2> QED
    BY <2>1 DEF Holds
<1>3. a + b + Len(r) <= Len(p)
  BY <1>1 DEF Holds
<1> QED
  BY <1>2, <1>3 DEF Holds

LEMMA Taken ==
  ASSUME NEW p \in Data, NEW q \in Data, NEW a \in Nat, Holds(p, a, q)
  PROVE  Bytes(p, a, Len(q)) = q
<1> DEFINE n == Len(q)
           cut == SubSeq(p, a + 1, a + n)
<1>1. n \in Nat /\ Len(p) \in Nat /\ a + n <= Len(p)
  BY LengthIsNat DEF Holds
<1> HIDE DEF n
<1>2. \A i \in a + 1 .. a + n : p[i] \in Nat
  BY <1>1 DEF Data
<1>3. a + 1 \in Int /\ a + n \in Int
  BY <1>1
<1>4. /\ cut \in Seq(Nat)
      /\ Len(cut) = IF a + 1 <= a + n THEN (a + n) - (a + 1) + 1 ELSE 0
      /\ \A i \in 1..(a + n) - (a + 1) + 1 : cut[i] = p[(a + 1) + i - 1]
  BY <1>2, <1>3, SubSeqProperties
<1> HIDE DEF cut
<1>5. Len(cut) = n
  BY <1>1, <1>4
<1>6. ASSUME NEW i \in 1..n
      PROVE  cut[i] = q[i]
  <2>1. i \in 1..(a + n) - (a + 1) + 1 /\ (a + 1) + i - 1 = a + i
    BY <1>1
  <2>2. p[a + i] = q[i]
    BY DEF Holds, n
  <2> QED
    BY <1>4, <2>1, <2>2
<1>7. cut = q
  BY <1>4, <1>5, <1>6, SeqEqual DEF n, Data
<1> QED
  BY <1>7 DEF Bytes, cut, n

LEMMA TakenToEnd ==
  ASSUME NEW p \in Data, NEW q \in Data, NEW a \in Nat, Holds(p, a, q), Len(p) = a + Len(q)
  PROVE  From(p, a) = q
BY Taken DEF From, Bytes

LEMMA ThreeFields ==
  ASSUME NEW x \in Data, NEW y \in Data, NEW z \in Data
  PROVE  /\ (x \o y) \o z \in Data
         /\ Len((x \o y) \o z) = Len(x) + Len(y) + Len(z)
         /\ Holds((x \o y) \o z, 0, x)
         /\ Holds((x \o y) \o z, Len(x), y)
         /\ Holds((x \o y) \o z, Len(x) + Len(y), z)
<1> DEFINE q == x \o y
           p == q \o z
<1>1. Len(x) \in Nat /\ Len(y) \in Nat /\ 0 \in Nat
  BY LengthIsNat
<1>2. q \in Data /\ Len(q) = Len(x) + Len(y) /\ Holds(q, 0, x) /\ Holds(q, Len(x), y)
  BY Joined
<1> HIDE DEF q
<1>3. p \in Data /\ Len(p) = Len(q) + Len(z) /\ Holds(p, 0, q) /\ Holds(p, Len(q), z)
  BY <1>2, Joined
<1> HIDE DEF p
<1>4. Holds(p, 0 + 0, x) /\ Holds(p, 0 + Len(x), y)
  BY <1>1, <1>2, <1>3, Within
<1> QED
  BY <1>1, <1>2, <1>3, <1>4 DEF p, q

LEMMA BytesAreData == Seq(Byte) \subseteq Data /\ Byte \subseteq Nat
BY BaseIsNat DEF Data, Byte

LEMMA FieldIsText ==
  ASSUME NEW n \in Nat, NEW w \in Nat
  PROVE  LE(n, w) \in Data /\ Len(LE(n, w)) = w
<1>1. LE(n, w) \in Seq(0..Base - 1) /\ Len(LE(n, w)) = w
  BY LEIs
<1> QED
  BY <1>1, BaseIsNat DEF Data

LEMMA FitsIsNat ==
  ASSUME NEW w \in Nat
  PROVE  Fits(w) \subseteq Nat
BY PowerAtLeastOne DEF Fits

\* A field that holds a number is read as this number.
LEMMA FieldRead ==
  ASSUME NEW p \in Data, NEW a \in Nat, NEW w \in Nat, NEW n \in Fits(w), Holds(p, a, LE(n, w))
  PROVE  NumberAt(p, a, w) = n
<1>1. n \in Nat
  BY FitsIsNat
<1>2. LE(n, w) \in Data /\ Len(LE(n, w)) = w
  BY <1>1, FieldIsText
<1>3. Bytes(p, a, w) = LE(n, w)
  BY <1>2, Taken
<1>4. Number(LE(n, w)) = n
  BY NumbersReadBack DEF Fits
<1> QED
  BY <1>3, <1>4 DEF NumberAt

\* One byte, and what stands behind its length.
LEMMA OneByte ==
  ASSUME NEW n \in 0..Base - 1
  PROVE  LE(n, 1)[1] = n
<1>1. n \in Nat
  BY BaseIsNat
<1>2. LE(n, 1)[1] = (n \div Power[0]) % Base
  BY <1>1, LEIs
<1>3. (n \div 1) % Base = n
  <2>1. n \div 1 = n
    BY <1>1
  <2>2. n % Base = n
    BY <1>1, BaseIsNat
  <2> QED
    BY <2>1, <2>2
<1> QED
  BY <1>2, <1>3, PowerIs

LEMMA Counted ==
  ASSUME NEW b \in Data, NEW w \in Nat
  PROVE  /\ Prefixed(b, w) \in Data
         /\ Len(Prefixed(b, w)) = w + Len(b)
         /\ Holds(Prefixed(b, w), 0, LE(Len(b), w))
         /\ Holds(Prefixed(b, w), w, b)
<1>1. Len(b) \in Nat
  BY LengthIsNat
<1>2. LE(Len(b), w) \in Data /\ Len(LE(Len(b), w)) = w
  BY <1>1, FieldIsText
<1> QED
  BY <1>2, Joined DEF Prefixed

-----------------------------------------------------------------------------
\* From the client to the server.

Sized(p, n) == p \in Data /\ Len(p) <= n
Arrives(m) ==
  /\ ServerAccepts(m.type, ClientPayload(m)) <=> ~TooLarge(m)
  /\ ServerParse(m.type, ClientPayload(m)) = m

LEMMA HelloArrives ==
  ASSUME NEW m \in [type : {"HELLO"}, nonce : Text(KeyLen), client : Text(IdLen), time : Fits(8)]
  PROVE  Arrives(m) /\ Sized(ClientPayload(m), KeyLen + IdLen + 8)
<1> DEFINE time == LE(m.time, 8)
           p == (m.nonce \o m.client) \o time
<1>1. KeyLen \in Nat /\ IdLen \in Nat
  BY WireAssumption
<1>2. m.nonce \in Data /\ Len(m.nonce) = KeyLen /\ m.client \in Data /\ Len(m.client) = IdLen
  BY BytesAreData DEF Text
<1>3. m.time \in Fits(8) /\ m.time \in Nat
  BY FitsIsNat
<1>4. time \in Data /\ Len(time) = 8
  BY <1>3, FieldIsText
<1>5. /\ p \in Data /\ Len(p) = KeyLen + IdLen + 8 /\ Holds(p, 0, m.nonce)
      /\ Holds(p, KeyLen, m.client) /\ Holds(p, KeyLen + IdLen, time)
  <2> HIDE DEF time
  <2>1. /\ p \in Data /\ Len(p) = Len(m.nonce) + Len(m.client) + Len(time)
        /\ Holds(p, 0, m.nonce) /\ Holds(p, Len(m.nonce), m.client)
        /\ Holds(p, Len(m.nonce) + Len(m.client), time)
    BY <1>2, <1>4, ThreeFields
  <2> HIDE DEF p
  <2> QED
    BY <1>2, <1>4, <2>1
<1> HIDE DEF p
<1>6. Bytes(p, 0, KeyLen) = m.nonce /\ Bytes(p, KeyLen, IdLen) = m.client
  BY <1>1, <1>2, <1>5, Taken
<1>7. NumberAt(p, KeyLen + IdLen, 8) = m.time
  BY <1>1, <1>3, <1>5, FieldRead
<1>8. ClientPayload(m) = p
  BY DEF ClientPayload, p
<1>9. ServerAccepts("HELLO", p)
  BY <1>5 DEF ServerAccepts
<1>10. ServerParse("HELLO", p) = [type |-> "HELLO", nonce |-> m.nonce, client |-> m.client, time |-> m.time]
  BY <1>6, <1>7 DEF ServerParse
<1>11. m.type = "HELLO"
       /\ m = [type |-> "HELLO", nonce |-> m.nonce, client |-> m.client, time |-> m.time]
  OBVIOUS
<1>12. Sized(p, KeyLen + IdLen + 8)
  BY <1>1, <1>5 DEF Sized
<1> QED
  BY <1>8, <1>9, <1>10, <1>11, <1>12 DEF Arrives, TooLarge

LEMMA GetArrives ==
  ASSUME NEW m \in [type : {"VAULT_GET"}, vault : Text(IdLen), known : Fits(8)]
  PROVE  Arrives(m) /\ Sized(ClientPayload(m), IdLen + 8)
<1> DEFINE known == LE(m.known, 8)
           p == m.vault \o known
<1>1. IdLen \in Nat
  BY WireAssumption
<1>2. m.vault \in Data /\ Len(m.vault) = IdLen
  BY BytesAreData DEF Text
<1>3. m.known \in Fits(8) /\ m.known \in Nat
  BY FitsIsNat
<1>4. known \in Data /\ Len(known) = 8
  BY <1>3, FieldIsText
<1>5. p \in Data /\ Len(p) = IdLen + 8 /\ Holds(p, 0, m.vault) /\ Holds(p, IdLen, known)
  <2> HIDE DEF known
  <2> QED
    BY <1>2, <1>4, Joined
<1> HIDE DEF p
<1>6. Bytes(p, 0, IdLen) = m.vault
  BY <1>2, <1>5, Taken
<1>7. NumberAt(p, IdLen, 8) = m.known
  BY <1>1, <1>3, <1>5, FieldRead
<1>8. ClientPayload(m) = p
  BY DEF ClientPayload, p
<1>9. ServerAccepts("VAULT_GET", p)
  BY <1>5 DEF ServerAccepts
<1>10. ServerParse("VAULT_GET", p) = [type |-> "VAULT_GET", vault |-> m.vault, known |-> m.known]
  BY <1>6, <1>7 DEF ServerParse
<1>11. m.type = "VAULT_GET" /\ m = [type |-> "VAULT_GET", vault |-> m.vault, known |-> m.known]
  OBVIOUS
<1>12. Sized(p, IdLen + 8)
  BY <1>1, <1>5 DEF Sized
<1> QED
  BY <1>8, <1>9, <1>10, <1>11, <1>12 DEF Arrives, TooLarge

LEMMA PutArrives ==
  ASSUME NEW m \in [type : {"VAULT_PUT"}, vault : Text(IdLen), base : Fits(8),
                    blob : {b \in Seq(Byte) : Len(b) \in Fits(4)}]
  PROVE  Arrives(m) /\ Sized(ClientPayload(m), IdLen + 12 + Len(m.blob))
<1> DEFINE base == LE(m.base, 8)
           size == LE(Len(m.blob), 4)
           rest == Prefixed(m.blob, 4)
           p == (m.vault \o base) \o rest
<1>1. IdLen \in Nat /\ MaxBlob \in Nat
  BY WireAssumption
<1>2. m.vault \in Data /\ Len(m.vault) = IdLen
  BY BytesAreData DEF Text
<1>3. m.base \in Fits(8) /\ m.base \in Nat
  BY FitsIsNat
<1>4. base \in Data /\ Len(base) = 8
  BY <1>3, FieldIsText
<1>5. m.blob \in Data /\ Len(m.blob) \in Nat /\ Len(m.blob) \in Fits(4)
  BY LengthIsNat, BytesAreData
<1>6. /\ rest \in Data /\ Len(rest) = 4 + Len(m.blob)
      /\ Holds(rest, 0, size) /\ Holds(rest, 4, m.blob)
  BY <1>5, Counted
<1>7. size \in Data
  BY <1>5, FieldIsText
<1>8. /\ p \in Data /\ Len(p) = IdLen + 8 + (4 + Len(m.blob)) /\ Holds(p, 0, m.vault)
      /\ Holds(p, IdLen, base) /\ Holds(p, IdLen + 8, rest)
  <2> HIDE DEF base, rest
  <2>1. /\ p \in Data /\ Len(p) = Len(m.vault) + Len(base) + Len(rest)
        /\ Holds(p, 0, m.vault) /\ Holds(p, Len(m.vault), base)
        /\ Holds(p, Len(m.vault) + Len(base), rest)
    BY <1>2, <1>4, <1>6, ThreeFields
  <2> HIDE DEF p
  <2> QED
    BY <1>2, <1>4, <1>6, <2>1
<1> HIDE DEF p, rest, base
<1>9. Holds(p, (IdLen + 8) + 0, size) /\ Holds(p, (IdLen + 8) + 4, m.blob)
  <2> HIDE DEF size
  <2> QED
    BY <1>1, <1>5, <1>6, <1>7, <1>8, Within
<1>10. (IdLen + 8) + 0 = IdLen + 8 /\ (IdLen + 8) + 4 = IdLen + 12 /\ IdLen + 8 \in Nat /\ IdLen + 12 \in Nat
  BY <1>1
<1>11. Bytes(p, 0, IdLen) = m.vault /\ Bytes(p, IdLen + 12, Len(m.blob)) = m.blob
  BY <1>1, <1>2, <1>5, <1>8, <1>9, <1>10, Taken
<1>12. NumberAt(p, IdLen, 8) = m.base
  BY <1>1, <1>3, <1>8, FieldRead DEF base
<1>13. NumberAt(p, IdLen + 8, 4) = Len(m.blob)
  BY <1>5, <1>8, <1>9, <1>10, FieldRead
<1>14. ClientPayload(m) = p
  BY DEF ClientPayload, p, base, rest
<1>15. ServerAccepts("VAULT_PUT", p) <=> Len(m.blob) <= MaxBlob
  BY <1>1, <1>5, <1>8, <1>13 DEF ServerAccepts, PutOk
<1>16. ServerParse("VAULT_PUT", p)
         = [type |-> "VAULT_PUT", vault |-> m.vault, base |-> m.base, blob |-> m.blob]
  BY <1>11, <1>12, <1>13 DEF ServerParse
<1>17. m.type = "VAULT_PUT"
       /\ m = [type |-> "VAULT_PUT", vault |-> m.vault, base |-> m.base, blob |-> m.blob]
  OBVIOUS
<1>18. TooLarge(m) <=> ~(Len(m.blob) <= MaxBlob)
  BY <1>1, <1>5, <1>17 DEF TooLarge
<1>19. Sized(p, IdLen + 12 + Len(m.blob))
  BY <1>1, <1>5, <1>8 DEF Sized
<1> QED
  BY <1>14, <1>15, <1>16, <1>17, <1>18, <1>19 DEF Arrives

LEMMA PingArrives ==
  ASSUME NEW m \in [type : {"PING"}, time : Fits(8)]
  PROVE  Arrives(m) /\ Sized(ClientPayload(m), 8)
<1>1. m.time \in Fits(8) /\ m.time \in Nat
  BY FitsIsNat
<1>2. Len(LE(m.time, 8)) = 8
  BY <1>1, FieldIsText
<1>3. Number(LE(m.time, 8)) = m.time
  BY <1>1, NumbersReadBack DEF Fits
<1>4. ClientPayload(m) = LE(m.time, 8)
  BY DEF ClientPayload
<1>5. ServerAccepts("PING", LE(m.time, 8))
  BY <1>2 DEF ServerAccepts
<1>6. ServerParse("PING", LE(m.time, 8)) = [type |-> "PING", time |-> m.time]
  BY <1>3 DEF ServerParse
<1>7. m.type = "PING" /\ m = [type |-> "PING", time |-> m.time]
  OBVIOUS
<1>8. Sized(LE(m.time, 8), 8)
  BY <1>1, FieldIsText DEF Sized
<1> QED
  BY <1>4, <1>5, <1>6, <1>7, <1>8 DEF Arrives, TooLarge

LEMMA ByeArrives ==
  ASSUME NEW m \in [type : {"BYE"}]
  PROVE  Arrives(m) /\ Sized(ClientPayload(m), 1)
<1>1. ClientPayload(m) = <<0>>
  BY DEF ClientPayload
<1>2. ServerAccepts("BYE", <<0>>) /\ ServerParse("BYE", <<0>>) = [type |-> "BYE"]
  BY DEF ServerAccepts, ServerParse
<1>3. m.type = "BYE" /\ m = [type |-> "BYE"]
  OBVIOUS
<1>4. Sized(<<0>>, 1)
  BY DEF Data, Sized
<1> QED
  BY <1>1, <1>2, <1>3, <1>4 DEF Arrives, TooLarge

\* The optional parts of AUTH: a flag, and what it announces.
LEMMA Flagged ==
  ASSUME NEW b \in Data
  PROVE  /\ <<1>> \o b \in Data
         /\ Len(<<1>> \o b) = 1 + Len(b)
         /\ (<<1>> \o b)[1] = 1
         /\ Holds(<<1>> \o b, 1, b)
<1>1. <<1>> \in Data /\ Len(<<1>>) = 1 /\ <<1>>[1] = 1
  BY DEF Data
<1> DEFINE one == <<1>>
<1>2. one \in Data /\ Len(one) = 1 /\ one[1] = 1
  BY <1>1
<1> HIDE DEF one
<1>3. /\ one \o b \in Data /\ Len(one \o b) = 1 + Len(b)
      /\ Holds(one \o b, 0, one) /\ Holds(one \o b, 1, b)
  BY <1>2, Joined
<1>4. (one \o b)[1] = 1
  <2>1. (one \o b)[0 + 1] = one[1]
    BY <1>2, <1>3 DEF Holds
  <2> QED
    BY <1>2, <2>1
<1> QED
  BY <1>3, <1>4 DEF one

LEMMA OneOrMore == \A k \in Nat : \A l : l = 1 \/ l = 1 + k => l <= 1 + k
OBVIOUS

LEMMA NoneOrFive == \A l : l = 0 \/ l = 5 => l <= 5
OBVIOUS

LEMMA AuthArrives ==
  ASSUME NEW m \in [type : {"AUTH"}, name : {b \in Seq(Byte) : Len(b) \in 1..MaxName},
                    hmac : Text(KeyLen), token : Text(KeyLen) \cup {None}, totp : Fits(4) \cup {None}]
  PROVE  Arrives(m) /\ Sized(ClientPayload(m), MaxName + 2 * KeyLen + 7)
<1> DEFINE name == Prefixed(m.name, 1)
           refresh == IF m.token = None THEN <<0>> ELSE <<1>> \o m.token
           totp == IF m.totp = None THEN <<>> ELSE <<1>> \o LE(m.totp, 4)
           front == (name \o m.hmac) \o refresh
           p == front \o totp
           n == Len(m.name)
           h == 1 + n + KeyLen
           r == h + Len(refresh)
<1>1. KeyLen \in Nat /\ MaxName \in Nat /\ MaxName < Base
  BY WireAssumption
<1>2. m.name \in Data /\ n \in Nat /\ n \in 1..MaxName /\ m.hmac \in Data /\ Len(m.hmac) = KeyLen
  BY <1>1, BytesAreData DEF Text
<1>3. n \in 0..Base - 1
  BY <1>1, <1>2, BaseIsNat
<1>4. LE(n, 1) \in Data /\ Len(LE(n, 1)) = 1 /\ LE(n, 1)[1] = n
  BY <1>2, <1>3, FieldIsText, OneByte
<1>5. name \in Data /\ Len(name) = 1 + n /\ Holds(name, 0, LE(n, 1)) /\ Holds(name, 1, m.name)
  BY <1>2, Counted
<1>6. /\ refresh \in Data /\ Len(refresh) \in Nat /\ refresh[1] \in {0, 1}
      /\ m.token = None => Len(refresh) = 1 /\ refresh[1] = 0
      /\ m.token # None =>
           /\ m.token \in Data /\ Len(m.token) = KeyLen
           /\ Len(refresh) = 1 + KeyLen /\ refresh[1] = 1 /\ Holds(refresh, 1, m.token)
  <2>1. CASE m.token = None
    <3>1. refresh = <<0>>
      BY <2>1
    <3>2. <<0>> \in Data /\ Len(<<0>>) = 1 /\ <<0>>[1] = 0
      BY DEF Data
    <3> QED
      BY <2>1, <3>1, <3>2
  <2>2. CASE m.token # None
    <3>1. m.token \in Data /\ Len(m.token) = KeyLen
      BY <2>2, BytesAreData DEF Text
    <3>2. refresh = <<1>> \o m.token
      BY <2>2
    <3> HIDE DEF refresh
    <3> QED
      BY <1>1, <2>2, <3>1, <3>2, Flagged
  <2> QED
    BY <2>1, <2>2
<1>7. /\ totp \in Data /\ Len(totp) \in Nat
      /\ m.totp = None => totp = <<>> /\ Len(totp) = 0
      /\ m.totp # None =>
           /\ m.totp \in Fits(4) /\ LE(m.totp, 4) \in Data
           /\ Len(totp) = 5 /\ totp[1] = 1 /\ Holds(totp, 1, LE(m.totp, 4))
  <2>1. CASE m.totp = None
    BY <2>1 DEF Data
  <2>2. CASE m.totp # None
    <3>1. m.totp \in Fits(4) /\ m.totp \in Nat
      BY <2>2, FitsIsNat
    <3>2. LE(m.totp, 4) \in Data /\ Len(LE(m.totp, 4)) = 4
      BY <3>1, FieldIsText
    <3>3. totp = <<1>> \o LE(m.totp, 4)
      BY <2>2
    <3> DEFINE code == LE(m.totp, 4)
    <3>4. code \in Data /\ Len(code) = 4
      BY <3>2
    <3> HIDE DEF code, totp
    <3>5. /\ <<1>> \o code \in Data /\ Len(<<1>> \o code) = 1 + Len(code)
          /\ (<<1>> \o code)[1] = 1 /\ Holds(<<1>> \o code, 1, code)
      BY <3>4, Flagged
    <3>6. totp = <<1>> \o code
      BY <3>3 DEF code
    <3>7. totp \in Data /\ Len(totp) = 5 /\ totp[1] = 1 /\ Holds(totp, 1, code)
      BY <3>4, <3>5, <3>6
    <3> QED
      BY <2>2, <3>1, <3>4, <3>7 DEF code
  <2> QED
    BY <2>1, <2>2
<1>8. ClientPayload(m) = p
  BY DEF ClientPayload
<1> HIDE DEF name, refresh, totp
<1>9. /\ front \in Data /\ Len(front) = (1 + n) + KeyLen + Len(refresh)
      /\ Holds(front, 0, name) /\ Holds(front, 1 + n, m.hmac)
      /\ Holds(front, (1 + n) + KeyLen, refresh)
  <2>1. /\ front \in Data /\ Len(front) = Len(name) + Len(m.hmac) + Len(refresh)
        /\ Holds(front, 0, name) /\ Holds(front, Len(name), m.hmac)
        /\ Holds(front, Len(name) + Len(m.hmac), refresh)
    BY <1>2, <1>5, <1>6, ThreeFields
  <2> HIDE DEF front
  <2> QED
    BY <1>2, <1>5, <2>1
<1>10. Len(front) = r /\ h \in Nat /\ r \in Nat /\ Holds(front, h, refresh)
  BY <1>1, <1>2, <1>6, <1>9
<1> HIDE DEF front
<1>11. p \in Data /\ Len(p) = r + Len(totp) /\ Holds(p, 0, front) /\ Holds(p, r, totp)
  BY <1>7, <1>9, <1>10, Joined
<1> HIDE DEF p
<1>12. Holds(p, 0 + 0, name) /\ Holds(p, 0 + (1 + n), m.hmac) /\ Holds(p, 0 + h, refresh)
  BY <1>2, <1>5, <1>6, <1>9, <1>10, <1>11, Within
<1>13. Holds(p, 0, name) /\ Holds(p, 1 + n, m.hmac) /\ Holds(p, h, refresh)
  BY <1>2, <1>10, <1>12
<1> HIDE DEF h, r
<1>14. p[1] = n
  <2>1. Holds(p, 0 + 0, LE(n, 1))
    BY <1>4, <1>5, <1>11, <1>13, Within
  <2>2. p[0 + 0 + 1] = LE(n, 1)[1]
    BY <1>4, <2>1 DEF Holds
  <2> QED
    BY <1>4, <2>2
<1>15. Bytes(p, 1, n) = m.name
  <2>1. Holds(p, 0 + 1, m.name)
    BY <1>2, <1>5, <1>11, <1>13, Within
  <2> QED
    BY <1>2, <1>11, <2>1, Taken
<1>16. Bytes(p, 1 + n, KeyLen) = m.hmac
  BY <1>2, <1>11, <1>13, Taken
<1>17. HmacEnd(p) = h
  BY <1>14 DEF HmacEnd, h
<1>18. p[h + 1] = refresh[1]
  <2>1. 1 \in 1..Len(refresh)
    BY <1>1, <1>6
  <2> QED
    BY <1>13, <2>1 DEF Holds
<1>19. RefreshEnd(p) = r
  <2>1. Len(refresh) = 1 + (IF refresh[1] = 1 THEN KeyLen ELSE 0)
    <3>1. CASE m.token = None
      BY <1>6, <3>1
    <3>2. CASE m.token # None
      BY <1>6, <3>2
    <3> QED
      BY <3>1, <3>2
  <2>2. RefreshEnd(p) = h + 1 + (IF refresh[1] = 1 THEN KeyLen ELSE 0)
    BY <1>17, <1>18 DEF RefreshEnd
  <2> DEFINE k == IF refresh[1] = 1 THEN KeyLen ELSE 0
  <2>3. k \in Nat
    BY <1>1
  <2> HIDE DEF k
  <2>4. h + 1 + k = h + (1 + k)
    BY <1>10, <2>3
  <2> QED
    BY <2>1, <2>2, <2>4 DEF r, k
<1>20. From(p, r) = totp
  BY <1>7, <1>10, <1>11, TakenToEnd
<1>21. TotpOk(totp)
  BY <1>7 DEF TotpOk
<1>22. Len(p) > h /\ Len(p) >= r /\ Len(p) >= 1 + KeyLen
  BY <1>1, <1>2, <1>6, <1>7, <1>10, <1>11 DEF h, r
<1>23. AuthOk(p)
  BY <1>1, <1>2, <1>6, <1>10, <1>14, <1>17, <1>18, <1>19, <1>20, <1>21, <1>22 DEF AuthOk
<1>24. m.token # None => Bytes(p, h + 1, KeyLen) = m.token
  <2> SUFFICES ASSUME m.token # None PROVE Bytes(p, h + 1, KeyLen) = m.token
    OBVIOUS
  <2>1. Holds(p, h + 1, m.token)
    BY <1>6, <1>10, <1>11, <1>13, Within
  <2> QED
    BY <1>6, <1>10, <1>11, <2>1, Taken
<1>25. m.totp # None => NumberAt(p, r + 1, 4) = m.totp
  <2> SUFFICES ASSUME m.totp # None PROVE NumberAt(p, r + 1, 4) = m.totp
    OBVIOUS
  <2>1. Holds(p, r + 1, LE(m.totp, 4))
    BY <1>7, <1>10, <1>11, Within
  <2> QED
    BY <1>7, <1>10, <1>11, <2>1, FieldRead
<1>26. (p[h + 1] = 1 <=> m.token # None) /\ (Len(totp) > 1 <=> m.totp # None)
  <2>1. m.totp = None => ~(Len(totp) > 1)
    BY <1>7
  <2>2. m.totp # None => Len(totp) > 1
    <3>1. m.totp # None => Len(totp) = 5
      BY <1>7, Zenon
    <3>2. Len(totp) = 5 => Len(totp) > 1
      OBVIOUS
    <3> QED
      BY <3>1, <3>2, Zenon
  <2>3. m.token = None => p[h + 1] = 0
    BY <1>6, <1>18
  <2>4. m.token # None => p[h + 1] = 1
    BY <1>6, <1>18
  <2> QED
    BY <2>1, <2>2, <2>3, <2>4
<1>27. ParseAuth(p) = [type |-> "AUTH", name |-> m.name, hmac |-> m.hmac, token |-> m.token,
                       totp |-> m.totp]
  <2>1. (IF p[h + 1] = 1 THEN Bytes(p, h + 1, KeyLen) ELSE None) = m.token
    BY <1>24, <1>26
  <2>2. (IF Len(totp) > 1 THEN NumberAt(p, r + 1, 4) ELSE None) = m.totp
    BY <1>25, <1>26
  <2>3. ParseAuth(p) =
          [type |-> "AUTH", name |-> Bytes(p, 1, n), hmac |-> Bytes(p, 1 + n, KeyLen),
           token |-> IF p[h + 1] = 1 THEN Bytes(p, h + 1, KeyLen) ELSE None,
           totp |-> IF Len(totp) > 1 THEN NumberAt(p, r + 1, 4) ELSE None]
    <3> HIDE DEF n
    <3> QED
      BY <1>14, <1>17, <1>19, <1>20, <1>22 DEF ParseAuth
  <2> QED
    BY <1>15, <1>16, <2>1, <2>2, <2>3
<1>28. ServerAccepts("AUTH", p) /\ ServerParse("AUTH", p) = ParseAuth(p)
  BY <1>23 DEF ServerAccepts, ServerParse
<1>29. m.type = "AUTH"
       /\ m = [type |-> "AUTH", name |-> m.name, hmac |-> m.hmac, token |-> m.token, totp |-> m.totp]
  OBVIOUS
<1>30. Sized(p, MaxName + 2 * KeyLen + 7)
  <2>1. Len(refresh) <= 1 + KeyLen /\ Len(totp) <= 5
    <3>1. Len(refresh) = 1 \/ Len(refresh) = 1 + KeyLen
      BY <1>6, Zenon
    <3>2. Len(totp) = 0 \/ Len(totp) = 5
      BY <1>7, Zenon
    <3>3. Len(refresh) <= 1 + KeyLen
      BY <1>1, <3>1, OneOrMore, Zenon
    <3>4. Len(totp) <= 5
      BY <3>2, NoneOrFive, Zenon
    <3> QED
      BY <3>3, <3>4
  <2> HIDE DEF n
  <2> QED
    BY <1>1, <1>2, <1>6, <1>7, <1>11, <2>1 DEF Sized, h, r
<1> QED
  BY <1>8, <1>27, <1>28, <1>29, <1>30 DEF Arrives, TooLarge

\* Whatever the client means, the server takes for what it is, and accepts, but for a
\* vault larger than MAX_VAULT_BLOB_BYTES: the payloads that svpclient.py builds are
\* those that server.py and protocol.py read, for every login, key, code, version and
\* blob the fields have room for.
THEOREM ServerUnderstands == \A m \in ClientMessages : Arrives(m)
BY HelloArrives, AuthArrives, GetArrives, PutArrives, PingArrives, ByeArrives DEF ClientMessages

-----------------------------------------------------------------------------
\* From the server to the client.  Of AUTH_FAIL the client looks at the type only.

Returns(m) ==
  ClientAccepts(m.type, ServerPayload(m)) /\ ClientParse(m.type, ServerPayload(m)) = m

LEMMA ChallengeReturns ==
  ASSUME NEW m \in [type : {"CHALLENGE"}, nonce : Text(KeyLen), time : Fits(8)]
  PROVE  Returns(m) /\ Sized(ServerPayload(m), KeyLen + 8)
<1> DEFINE time == LE(m.time, 8)
           p == m.nonce \o time
<1>1. KeyLen \in Nat
  BY WireAssumption
<1>2. m.nonce \in Data /\ Len(m.nonce) = KeyLen
  BY BytesAreData DEF Text
<1>3. m.time \in Fits(8) /\ m.time \in Nat
  BY FitsIsNat
<1>4. time \in Data /\ Len(time) = 8
  BY <1>3, FieldIsText
<1>5. p \in Data /\ Len(p) = KeyLen + 8 /\ Holds(p, 0, m.nonce) /\ Holds(p, KeyLen, time)
  <2> HIDE DEF time
  <2> QED
    BY <1>2, <1>4, Joined
<1> HIDE DEF p
<1>6. Bytes(p, 0, KeyLen) = m.nonce
  BY <1>2, <1>5, Taken
<1>7. NumberAt(p, KeyLen, 8) = m.time
  BY <1>1, <1>3, <1>5, FieldRead
<1>8. ServerPayload(m) = p
  BY DEF ServerPayload, p
<1>9. ClientAccepts("CHALLENGE", p)
  BY <1>1, <1>5 DEF ClientAccepts
<1>10. ClientParse("CHALLENGE", p) = [type |-> "CHALLENGE", nonce |-> m.nonce, time |-> m.time]
  BY <1>6, <1>7 DEF ClientParse
<1>11. m.type = "CHALLENGE" /\ m = [type |-> "CHALLENGE", nonce |-> m.nonce, time |-> m.time]
  OBVIOUS
<1>12. Sized(p, KeyLen + 8)
  BY <1>1, <1>5 DEF Sized
<1> QED
  BY <1>8, <1>9, <1>10, <1>11, <1>12 DEF Returns

LEMMA AuthOkReturns ==
  ASSUME NEW m \in [type : {"AUTH_OK"}, token : {b \in Seq(Byte) : Len(b) \in Fits(2)},
                    expiry : Fits(8), version : Fits(8)]
  PROVE  Returns(m) /\ Sized(ServerPayload(m), Len(m.token) + 18)
<1> DEFINE n == Len(m.token)
           token == Prefixed(m.token, 2)
           size == LE(n, 2)
           expiry == LE(m.expiry, 8)
           version == LE(m.version, 8)
           p == (token \o expiry) \o version
<1>1. m.token \in Data /\ n \in Nat /\ n \in Fits(2)
  BY LengthIsNat, BytesAreData
<1>2. m.expiry \in Fits(8) /\ m.expiry \in Nat /\ m.version \in Fits(8) /\ m.version \in Nat
  BY FitsIsNat
<1>3. expiry \in Data /\ Len(expiry) = 8 /\ version \in Data /\ Len(version) = 8
  BY <1>2, FieldIsText
<1>4. size \in Data /\ Len(size) = 2
  BY <1>1, FieldIsText
<1>5. token \in Data /\ Len(token) = 2 + n /\ Holds(token, 0, size) /\ Holds(token, 2, m.token)
  BY <1>1, Counted
<1>6. ServerPayload(m) = p
  BY DEF ServerPayload
<1> HIDE DEF token
<1>7. /\ p \in Data /\ Len(p) = (2 + n) + 8 + 8 /\ Holds(p, 0, token)
      /\ Holds(p, 2 + n, expiry) /\ Holds(p, (2 + n) + 8, version)
  <2> HIDE DEF expiry, version
  <2>1. /\ p \in Data /\ Len(p) = Len(token) + Len(expiry) + Len(version) /\ Holds(p, 0, token)
        /\ Holds(p, Len(token), expiry) /\ Holds(p, Len(token) + Len(expiry), version)
    BY <1>3, <1>5, ThreeFields
  <2> HIDE DEF p
  <2> QED
    BY <1>3, <1>5, <2>1
<1> HIDE DEF p
<1>8. Holds(p, 0 + 0, size) /\ Holds(p, 0 + 2, m.token)
  <2> HIDE DEF size
  <2> QED
    BY <1>1, <1>4, <1>5, <1>7, Within
<1>9. Holds(p, 0, size) /\ Holds(p, 2, m.token)
  BY <1>8
<1>10. NumberAt(p, 0, 2) = n
  BY <1>1, <1>7, <1>9, FieldRead
<1>11. Bytes(p, 2, n) = m.token
  BY <1>1, <1>7, <1>9, Taken
<1>12. 2 + n \in Nat /\ 10 + n \in Nat /\ (2 + n) + 8 = 10 + n
  BY <1>1
<1>13. NumberAt(p, 2 + n, 8) = m.expiry /\ NumberAt(p, 10 + n, 8) = m.version
  BY <1>2, <1>7, <1>12, FieldRead
<1> HIDE DEF n
<1>14. ClientAccepts("AUTH_OK", p)
  BY <1>1, <1>7, <1>10 DEF ClientAccepts
<1>15. ClientParse("AUTH_OK", p) =
         [type |-> "AUTH_OK", token |-> m.token, expiry |-> m.expiry, version |-> m.version]
  BY <1>10, <1>11, <1>13 DEF ClientParse
<1>16. m.type = "AUTH_OK"
       /\ m = [type |-> "AUTH_OK", token |-> m.token, expiry |-> m.expiry, version |-> m.version]
  OBVIOUS
<1>17. Sized(p, Len(m.token) + 18)
  BY <1>1, <1>7 DEF Sized, n
<1> QED
  BY <1>6, <1>14, <1>15, <1>16, <1>17 DEF Returns

LEMMA DataReturns ==
  ASSUME NEW m \in [type : {"VAULT_DATA"}, vault : Text(IdLen), version : Fits(8),
                    blob : {b \in Seq(Byte) : Len(b) <= MaxBlob}]
  PROVE  Returns(m) /\ Sized(ServerPayload(m), IdLen + 8 + Len(m.blob))
<1> DEFINE version == LE(m.version, 8)
           p == (m.vault \o version) \o m.blob
<1>1. IdLen \in Nat
  BY WireAssumption
<1>2. m.vault \in Data /\ Len(m.vault) = IdLen /\ m.blob \in Data /\ Len(m.blob) \in Nat
  BY LengthIsNat, BytesAreData DEF Text
<1>3. m.version \in Fits(8) /\ m.version \in Nat
  BY FitsIsNat
<1>4. version \in Data /\ Len(version) = 8
  BY <1>3, FieldIsText
<1>5. /\ p \in Data /\ Len(p) = IdLen + 8 + Len(m.blob) /\ Holds(p, 0, m.vault)
      /\ Holds(p, IdLen, version) /\ Holds(p, IdLen + 8, m.blob)
  <2> HIDE DEF version
  <2>1. /\ p \in Data /\ Len(p) = Len(m.vault) + Len(version) + Len(m.blob)
        /\ Holds(p, 0, m.vault) /\ Holds(p, Len(m.vault), version)
        /\ Holds(p, Len(m.vault) + Len(version), m.blob)
    BY <1>2, <1>4, ThreeFields
  <2> HIDE DEF p
  <2> QED
    BY <1>2, <1>4, <2>1
<1> HIDE DEF p
<1>6. Bytes(p, 0, IdLen) = m.vault
  BY <1>2, <1>5, Taken
<1>7. NumberAt(p, IdLen, 8) = m.version
  BY <1>1, <1>3, <1>5, FieldRead
<1>8. From(p, IdLen + 8) = m.blob
  <2>1. IdLen + 8 \in Nat
    BY <1>1
  <2> QED
    BY <1>2, <1>5, <2>1, TakenToEnd
<1>9. ServerPayload(m) = p
  BY DEF ServerPayload, p
<1>10. ClientAccepts("VAULT_DATA", p)
  BY <1>1, <1>2, <1>5 DEF ClientAccepts
<1>11. ClientParse("VAULT_DATA", p) =
         [type |-> "VAULT_DATA", vault |-> m.vault, version |-> m.version, blob |-> m.blob]
  BY <1>6, <1>7, <1>8 DEF ClientParse
<1>12. m.type = "VAULT_DATA"
       /\ m = [type |-> "VAULT_DATA", vault |-> m.vault, version |-> m.version, blob |-> m.blob]
  OBVIOUS
<1>13. Sized(p, IdLen + 8 + Len(m.blob))
  BY <1>1, <1>2, <1>5 DEF Sized
<1> QED
  BY <1>9, <1>10, <1>11, <1>12, <1>13 DEF Returns

LEMMA AckReturns ==
  ASSUME NEW m \in [type : {"VAULT_ACK"}, vault : Text(IdLen), version : Fits(8)]
  PROVE  Returns(m) /\ Sized(ServerPayload(m), IdLen + 8)
<1> DEFINE version == LE(m.version, 8)
           p == m.vault \o version
<1>1. IdLen \in Nat
  BY WireAssumption
<1>2. m.vault \in Data /\ Len(m.vault) = IdLen
  BY BytesAreData DEF Text
<1>3. m.version \in Fits(8) /\ m.version \in Nat
  BY FitsIsNat
<1>4. version \in Data /\ Len(version) = 8
  BY <1>3, FieldIsText
<1>5. p \in Data /\ Len(p) = IdLen + 8 /\ Holds(p, 0, m.vault) /\ Holds(p, IdLen, version)
  <2> HIDE DEF version
  <2> QED
    BY <1>2, <1>4, Joined
<1> HIDE DEF p
<1>6. Bytes(p, 0, IdLen) = m.vault
  BY <1>2, <1>5, Taken
<1>7. NumberAt(p, IdLen, 8) = m.version
  BY <1>1, <1>3, <1>5, FieldRead
<1>8. ServerPayload(m) = p
  BY DEF ServerPayload, p
<1>9. ClientAccepts("VAULT_ACK", p)
  BY <1>1, <1>5 DEF ClientAccepts
<1>10. ClientParse("VAULT_ACK", p) = [type |-> "VAULT_ACK", vault |-> m.vault, version |-> m.version]
  BY <1>6, <1>7 DEF ClientParse
<1>11. m.type = "VAULT_ACK" /\ m = [type |-> "VAULT_ACK", vault |-> m.vault, version |-> m.version]
  OBVIOUS
<1>12. Sized(p, IdLen + 8)
  BY <1>1, <1>5 DEF Sized
<1> QED
  BY <1>8, <1>9, <1>10, <1>11, <1>12 DEF Returns

LEMMA PongReturns ==
  ASSUME NEW m \in [type : {"PONG"}, time : Fits(8)]
  PROVE  Returns(m) /\ Sized(ServerPayload(m), 8)
<1>1. Number(LE(m.time, 8)) = m.time
  BY NumbersReadBack DEF Fits
<1>2. ServerPayload(m) = LE(m.time, 8)
  BY DEF ServerPayload
<1>3. ClientAccepts("PONG", LE(m.time, 8))
  BY DEF ClientAccepts
<1>4. ClientParse("PONG", LE(m.time, 8)) = [type |-> "PONG", time |-> m.time]
  BY <1>1 DEF ClientParse
<1>5. m.type = "PONG" /\ m = [type |-> "PONG", time |-> m.time]
  OBVIOUS
<1>6. Sized(LE(m.time, 8), 8)
  <2>1. m.time \in Nat
    BY FitsIsNat
  <2> QED
    BY <2>1, FieldIsText DEF Sized
<1> QED
  BY <1>2, <1>3, <1>4, <1>5, <1>6 DEF Returns

LEMMA ErrorReturns ==
  ASSUME NEW m \in [type : {"ERROR"}, code : Nat]
  PROVE  Returns(m) /\ Sized(ServerPayload(m), 1)
<1>1. ServerPayload(m) = <<m.code>>
  BY DEF ServerPayload
<1>2. ClientAccepts("ERROR", <<m.code>>)
  BY DEF ClientAccepts
<1>3. ClientParse("ERROR", <<m.code>>) = [type |-> "ERROR", code |-> m.code]
  BY DEF ClientParse
<1>4. m.type = "ERROR" /\ m = [type |-> "ERROR", code |-> m.code]
  OBVIOUS
<1>5. Sized(<<m.code>>, 1)
  BY DEF Data, Sized
<1> QED
  BY <1>1, <1>2, <1>3, <1>4, <1>5 DEF Returns

LEMMA ByeReturns ==
  ASSUME NEW m \in [type : {"BYE"}]
  PROVE  Returns(m) /\ Sized(ServerPayload(m), 1)
<1>1. ServerPayload(m) = <<0>>
  BY DEF ServerPayload
<1>2. ClientAccepts("BYE", <<0>>) /\ ClientParse("BYE", <<0>>) = [type |-> "BYE"]
  BY DEF ClientAccepts, ClientParse
<1>3. m.type = "BYE" /\ m = [type |-> "BYE"]
  OBVIOUS
<1>4. Sized(<<0>>, 1)
  BY DEF Data, Sized
<1> QED
  BY <1>1, <1>2, <1>3, <1>4 DEF Returns

\* Whatever the server means, the client accepts, and takes for what it is: the payloads
\* that server.py builds are those that svpclient.py reads.
THEOREM ClientUnderstands ==
  \A m \in ServerMessages :
    IF m.type = "AUTH_FAIL" THEN ClientAccepts(m.type, ServerPayload(m)) ELSE Returns(m)
<1> SUFFICES ASSUME NEW m \in ServerMessages
             PROVE  IF m.type = "AUTH_FAIL" THEN ClientAccepts(m.type, ServerPayload(m)) ELSE Returns(m)
  OBVIOUS
<1>1. CASE m.type = "AUTH_FAIL"
  BY <1>1 DEF ClientAccepts
<1>2. CASE m.type # "AUTH_FAIL"
  <2>1. m \notin [type : {"AUTH_FAIL"}, code : Nat]
    BY <1>2
  <2> QED
    BY <1>2, <2>1, ChallengeReturns, AuthOkReturns, DataReturns, AckReturns, PongReturns, ErrorReturns,
       ByeReturns DEF ServerMessages
<1> QED
  BY <1>1, <1>2

-----------------------------------------------------------------------------
\* The cache file.

\* The first k bytes hold what ends within them.
LEMMA InPrefix ==
  ASSUME NEW p \in Data, NEW q \in Data, NEW a \in Nat, NEW k \in 0..Len(p),
         Holds(p, a, q), a + Len(q) <= k
  PROVE  Holds(SubSeq(p, 1, k), a, q)
<1> DEFINE g == SubSeq(p, 1, k)
<1>1. Len(p) \in Nat /\ Len(q) \in Nat /\ k \in Nat
  BY LengthIsNat
<1>2. Len(g) = k /\ \A i \in 1..k : g[i] = p[i]
  BY <1>1, SubSeqProperties DEF Data
<1> HIDE DEF g
<1>3. ASSUME NEW i \in 1..Len(q)
      PROVE  g[a + i] = q[i]
  <2>1. a + i \in 1..k
    BY <1>1
  <2> QED
    BY <1>2, <2>1 DEF Holds
<1> QED
  BY <1>2, <1>3 DEF Holds, g

LEMMA PrefixIs ==
  ASSUME NEW p \in Data, NEW k \in 0..Len(p)
  PROVE  SubSeq(p, 1, k) \in Data /\ Len(SubSeq(p, 1, k)) = k
<1>1. Len(p) \in Nat /\ k \in Nat
  BY LengthIsNat
<1> QED
  BY <1>1, SubSeqProperties DEF Data

LEMMA MagicIs == Magic \in Data /\ Len(Magic) = 8
BY DEF Magic, Repeated, Data

\* A login, a vault's id and version, and a blob that fit into their fields.
Cached(login, vault, version, blob) ==
  [login |-> login, vault |-> vault, version |-> version, blob |-> blob]

LEMMA CacheLayout ==
  ASSUME NEW login \in Data, Len(login) \in Fits(2), NEW vault \in Text(IdLen),
         NEW version \in Fits(8), NEW blob \in Data, Len(blob) \in Fits(4)
  PROVE  LET f == CacheFile(login, vault, version, blob)
             at == 10 + Len(login)
         IN  /\ f \in Data /\ at \in Nat
             /\ Len(f) = at + IdLen + 12 + Len(blob)
             /\ Holds(f, 0, Magic)
             /\ Holds(f, 8, LE(Len(login), 2))
             /\ Holds(f, 10, login)
             /\ Holds(f, at, vault)
             /\ Holds(f, at + IdLen, LE(version, 8))
             /\ Holds(f, at + IdLen + 8, LE(Len(blob), 4))
             /\ Holds(f, at + IdLen + 12, blob)
<1> DEFINE n == Len(login)
           size == LE(n, 2)
           name == Prefixed(login, 2)
           number == LE(version, 8)
           count == LE(Len(blob), 4)
           rest == Prefixed(blob, 4)
           front == (Magic \o name) \o vault
           f == (front \o number) \o rest
           at == 10 + n
<1>1. n \in Nat /\ Len(blob) \in Nat /\ IdLen \in Nat /\ version \in Nat
  BY LengthIsNat, WireAssumption, FitsIsNat
<1>2. vault \in Data /\ Len(vault) = IdLen
  BY BytesAreData DEF Text
<1>3. name \in Data /\ Len(name) = 2 + n /\ Holds(name, 0, size) /\ Holds(name, 2, login)
  BY Counted
<1>4. rest \in Data /\ Len(rest) = 4 + Len(blob) /\ Holds(rest, 0, count) /\ Holds(rest, 4, blob)
  BY Counted
<1>5. number \in Data /\ Len(number) = 8 /\ size \in Data /\ count \in Data
  BY <1>1, FieldIsText
<1>6. CacheFile(login, vault, version, blob) = f
  BY DEF CacheFile
<1> HIDE DEF size, name, number, count, rest
<1>7. /\ front \in Data /\ Len(front) = at + IdLen
      /\ Holds(front, 0, Magic) /\ Holds(front, 8, name) /\ Holds(front, at, vault)
  <2>1. /\ front \in Data /\ Len(front) = Len(Magic) + Len(name) + Len(vault)
        /\ Holds(front, 0, Magic) /\ Holds(front, Len(Magic), name)
        /\ Holds(front, Len(Magic) + Len(name), vault)
    BY <1>2, <1>3, MagicIs, ThreeFields
  <2>2. 8 + (2 + n) = at
    BY <1>1
  <2> HIDE DEF front
  <2> QED
    BY <1>1, <1>2, <1>3, <2>1, <2>2, MagicIs
<1> HIDE DEF front
<1>8. /\ f \in Data /\ Len(f) = at + IdLen + 12 + Len(blob)
      /\ Holds(f, 0, front) /\ Holds(f, at + IdLen, number) /\ Holds(f, at + IdLen + 8, rest)
  <2>1. /\ f \in Data /\ Len(f) = Len(front) + Len(number) + Len(rest)
        /\ Holds(f, 0, front) /\ Holds(f, Len(front), number)
        /\ Holds(f, Len(front) + Len(number), rest)
    <3>1. front \in Data /\ number \in Data /\ rest \in Data
      BY <1>4, <1>5, <1>7
    <3> QED
      BY <3>1, ThreeFields
  <2> HIDE DEF f
  <2> QED
    BY <1>1, <1>4, <1>5, <1>7, <2>1
<1> HIDE DEF f
<1>9. at \in Nat /\ at + IdLen + 8 \in Nat
  BY <1>1
<1> HIDE DEF at
<1>10. Holds(f, 0 + 0, Magic) /\ Holds(f, 0 + 8, name) /\ Holds(f, 0 + at, vault)
  BY <1>2, <1>3, <1>7, <1>8, <1>9, MagicIs, Within
<1>11. Holds(f, 0, Magic) /\ Holds(f, 8, name) /\ Holds(f, at, vault)
  BY <1>9, <1>10
<1>12. Holds(f, 8 + 0, size) /\ Holds(f, 8 + 2, login)
  BY <1>3, <1>5, <1>8, <1>11, Within
<1>13. Holds(f, (at + IdLen + 8) + 0, count) /\ Holds(f, (at + IdLen + 8) + 4, blob)
  BY <1>4, <1>5, <1>8, <1>9, Within
<1>14. Holds(f, 8, size) /\ Holds(f, 10, login)
  BY <1>12
<1>15. Holds(f, at + IdLen + 8, count) /\ Holds(f, at + IdLen + 12, blob)
  BY <1>1, <1>9, <1>13
<1> QED
  BY <1>6, <1>8, <1>9, <1>11, <1>14, <1>15 DEF at, n, size, number, count

\* A cache that was written whole is loaded as it was saved, and of no proper beginning
\* of it, which a process that died or a full disk has left, anything is loaded
\* (save_cache, load_cache; secvault.py:56-90).
THEOREM WholeCacheLoads ==
  ASSUME NEW login \in Data, Len(login) \in Fits(2), NEW vault \in Text(IdLen),
         NEW version \in Fits(8), NEW blob \in Data, Len(blob) \in Fits(4)
  PROVE  LET f == CacheFile(login, vault, version, blob)
         IN  /\ LoadCache(f) = Cached(login, vault, version, blob)
             /\ \A k \in 0..Len(f) - 1 : LoadCache(SubSeq(f, 1, k)) = None
<1> DEFINE f == CacheFile(login, vault, version, blob)
           n == Len(login)
           at == 10 + n
           start == at + IdLen + 12
           size == Len(blob)
<1>1. /\ n \in Nat /\ size \in Nat /\ IdLen \in Nat /\ version \in Nat
      /\ n \in Fits(2) /\ size \in Fits(4)
  BY LengthIsNat, WireAssumption, FitsIsNat
<1>2. vault \in Data /\ Len(vault) = IdLen
  BY BytesAreData DEF Text
<1>3. /\ LE(n, 2) \in Data /\ Len(LE(n, 2)) = 2
      /\ LE(size, 4) \in Data /\ Len(LE(size, 4)) = 4
  BY <1>1, FieldIsText
<1>4. /\ f \in Data /\ at \in Nat /\ Len(f) = start + size
      /\ Holds(f, 0, Magic) /\ Holds(f, 8, LE(n, 2)) /\ Holds(f, 10, login)
      /\ Holds(f, at, vault) /\ Holds(f, at + IdLen, LE(version, 8))
      /\ Holds(f, at + IdLen + 8, LE(size, 4)) /\ Holds(f, start, blob)
  BY CacheLayout
<1> HIDE DEF f
<1>5. start \in Nat /\ start >= 10 /\ at + IdLen \in Nat /\ at + IdLen + 8 \in Nat
      /\ start - 4 = at + IdLen + 8
  BY <1>1, <1>4
<1> HIDE DEF start
<1>6. LoadCache(f) = Cached(login, vault, version, blob)
  <2>1. NumberAt(f, 8, 2) = n /\ NumberAt(f, at + IdLen + 8, 4) = size
    BY <1>1, <1>4, <1>5, FieldRead
  <2>2. NumberAt(f, at + IdLen, 8) = version
    BY <1>4, <1>5, FieldRead
  <2>3. /\ Bytes(f, 0, 8) = Magic /\ Bytes(f, 10, n) = login /\ Bytes(f, at, IdLen) = vault
        /\ Bytes(f, start, size) = blob
    BY <1>2, <1>4, <1>5, MagicIs, Taken
  <2>4. ~(Len(f) < 10 \/ Len(f) < start \/ Len(f) < start + size)
    BY <1>1, <1>4, <1>5
  <2> HIDE DEF n, size
  <2> QED
    BY <1>5, <2>1, <2>2, <2>3, <2>4 DEF LoadCache, Cached, start, at
<1>7. ASSUME NEW k \in 0..Len(f) - 1
      PROVE  LoadCache(SubSeq(f, 1, k)) = None
  <2> DEFINE g == SubSeq(f, 1, k)
  <2>1. k \in Nat /\ k < start + size /\ k \in 0..Len(f)
    BY <1>1, <1>4, <1>5
  <2>2. g \in Data /\ Len(g) = k
    BY <1>4, <2>1, PrefixIs
  <2>3. k >= 10 => NumberAt(g, 8, 2) = n
    <3> SUFFICES ASSUME k >= 10 PROVE NumberAt(g, 8, 2) = n
      OBVIOUS
    <3>1. Holds(g, 8, LE(n, 2))
      <4> DEFINE q == LE(n, 2)
      <4>1. q \in Data /\ Len(q) = 2 /\ Holds(f, 8, q)
        BY <1>3, <1>4, Zenon
      <4> HIDE DEF q
      <4>2. 8 + Len(q) <= k
        BY <2>1, <4>1
      <4>3. Holds(g, 8, q)
        BY <1>4, <2>1, <4>1, <4>2, InPrefix
      <4> QED
        BY <4>3 DEF q
    <3> HIDE DEF g, n
    <3> QED
      BY <1>1, <2>2, <3>1, FieldRead
  <2>4. k >= start => NumberAt(g, at + IdLen + 8, 4) = size
    <3> SUFFICES ASSUME k >= start PROVE NumberAt(g, at + IdLen + 8, 4) = size
      OBVIOUS
    <3>1. (at + IdLen + 8) + 4 <= k
      BY <1>1, <1>5, <2>1
    <3>2. Holds(g, at + IdLen + 8, LE(size, 4))
      BY <1>3, <1>4, <1>5, <2>1, <3>1, InPrefix
    <3> HIDE DEF g, size, at
    <3> QED
      BY <1>1, <1>5, <2>2, <3>2, FieldRead
  <2> SUFFICES LoadCache(g) = None
    OBVIOUS
  <2> HIDE DEF g, n, size
  <2>5. CASE k < 10
    BY <2>2, <2>5 DEF LoadCache
  <2>6. CASE k >= 10 /\ k < start
    <3>1. NumberAt(g, 8, 2) = n
      BY <2>3, <2>6
    <3>2. Len(g) < 10 + NumberAt(g, 8, 2) + IdLen + 12
      BY <2>2, <2>6, <3>1 DEF start, at
    <3> QED
      BY <3>2, Zenon DEF LoadCache
  <2>7. CASE k >= start
    <3>1. NumberAt(g, 8, 2) = n /\ NumberAt(g, at + IdLen + 8, 4) = size
      BY <1>5, <2>1, <2>3, <2>4, <2>7
    <3>2. Len(g) < start + size
      BY <2>1, <2>2
    <3>3. start = 10 + NumberAt(g, 8, 2) + IdLen + 12 /\ NumberAt(g, start - 4, 4) = size
      BY <1>5, <3>1 DEF start, at
    <3> QED
      BY <3>2, <3>3, Zenon DEF LoadCache
  <2>8. k < 10 \/ (k >= 10 /\ k < start) \/ k >= start
    BY <1>5, <2>1
  <2> QED
    BY <2>5, <2>6, <2>7, <2>8
<1> QED
  BY <1>6, <1>7 DEF f

Count(p) == (Len(p) + MaxPayload - 1) \div MaxPayload

\* The number of fragments is the quotient rounded up.
LEMMA RoundedUp ==
  ASSUME NEW n \in Nat, NEW m \in Nat \ {0}, n > m
  PROVE  LET q == (n + m - 1) \div m
         IN  /\ q \in Nat /\ q >= 2
             /\ (q - 1) * m < n
             /\ n <= q * m
<1> DEFINE q == (n + m - 1) \div m
<1> DEFINE r == (n + m - 1) % m
<1>1. q \in Int /\ r \in 0..(m - 1) /\ n + m - 1 = q * m + r
  OBVIOUS
<1> HIDE DEF q, r
<1>2. (q - 1) * m = q * m - m
  BY <1>1
<1>3. (q - 1) * m < n /\ n <= q * m
  BY <1>1, <1>2
<1>4. q >= 2
  <2>1. q <= 1 => q * m <= m
    BY <1>1
  <2> QED
    BY <1>1, <1>3, <2>1
<1> QED
  BY <1>1, <1>3, <1>4 DEF q

LEMMA Piece ==
  ASSUME NEW s \in Seq(Nat), NEW a \in Nat, NEW b \in Nat, a < b, b <= Len(s)
  PROVE  /\ Len(SubSeq(s, a + 1, b)) = b - a
         /\ \A k \in 1..(b - a) : SubSeq(s, a + 1, b)[k] = s[a + k]
<1>1. \A i \in a + 1 .. b : s[i] \in Nat
  OBVIOUS
<1>2. /\ Len(SubSeq(s, a + 1, b)) = b - (a + 1) + 1
      /\ \A k \in 1..(b - (a + 1) + 1) : SubSeq(s, a + 1, b)[k] = s[a + 1 + k - 1]
  BY <1>1, SubSeqProperties
<1>3. b - (a + 1) + 1 = b - a /\ \A k \in 1..(b - a) : a + 1 + k - 1 = a + k
  OBVIOUS
<1> QED
  BY <1>2, <1>3

-----------------------------------------------------------------------------
\* A vault that does not fit into one frame is cut into at least two: none is
\* empty or too long, each but the last is full, the last and no other is marked,
\* and the i-th holds the payload from its (i - 1) * MaxPayload-th byte on, up to the
\* end of the payload for the last.  So whoever appends the payloads until the mark
\* has the vault again, also when its length is a multiple of MaxPayload
\* (svpclient.py:235-247, server.py:146-164).
THEOREM FragmentsTile ==
  ASSUME NEW key, NEW type, NEW p \in Seq(Nat), Len(p) > MaxPayload
  PROVE  LET fs == Frames(key, type, p)
             last == Count(p)
         IN  /\ last \in Nat /\ last >= 2 /\ DOMAIN fs = 1..last
             /\ \A i \in 1..last :
                  /\ Len(fs[i].payload) \in 1..MaxPayload
                  /\ "LAST_FRAG" \in fs[i].flags <=> i = last
                  /\ i < last => Len(fs[i].payload) = MaxPayload
                  /\ i = last => (i - 1) * MaxPayload + Len(fs[i].payload) = Len(p)
                  /\ \A k \in 1..Len(fs[i].payload) :
                       fs[i].payload[k] = p[(i - 1) * MaxPayload + k]
<1> DEFINE fs == Frames(key, type, p)
           last == Count(p)
           m == MaxPayload
           n == Len(p)
           end(i) == IF i * m < n THEN i * m ELSE n
<1>1. m \in Nat \ {0} /\ n \in Nat /\ n > m
  BY WireAssumption
<1>2. last \in Nat /\ last >= 2 /\ (last - 1) * m < n /\ n <= last * m
  BY <1>1, RoundedUp DEF Count
<1>3. fs = [i \in 1..last |->
              Frame(key, type, {"FRAGMENTED"} \cup (IF i * m >= n THEN {"LAST_FRAG"} ELSE {}),
                    SubSeq(p, (i - 1) * m + 1, end(i)))]
  BY <1>1 DEF Frames, Count
<1> HIDE DEF last, m, n, fs
<1>4. ASSUME NEW i \in 1..last
      PROVE  /\ Len(fs[i].payload) \in 1..m
             /\ "LAST_FRAG" \in fs[i].flags <=> i = last
             /\ i < last => Len(fs[i].payload) = m
             /\ i = last => (i - 1) * m + Len(fs[i].payload) = n
             /\ \A k \in 1..Len(fs[i].payload) : fs[i].payload[k] = p[(i - 1) * m + k]
  <2> DEFINE from == (i - 1) * m
             piece == SubSeq(p, from + 1, end(i))
  <2>1. fs[i].payload = piece
        /\ fs[i].flags = {"FRAGMENTED"} \cup (IF i * m >= n THEN {"LAST_FRAG"} ELSE {})
    BY <1>3 DEF Frame
  <2>2. from \in Nat /\ i * m \in Nat /\ i * m = from + m
    BY <1>1, <1>2
  <2>3. i < last => i * m < n
    <3>1. i < last => i * m <= (last - 1) * m
      BY <1>1, <1>2
    <3> QED
      BY <1>1, <1>2, <2>2, <3>1
  <2>4. from < n
    <3>1. from <= (last - 1) * m
      BY <1>1, <1>2
    <3> QED
      BY <1>1, <1>2, <2>2, <3>1
  <2>5. i = last => n <= i * m
    BY <1>2
  <2>6. end(i) \in Nat /\ end(i) <= n /\ end(i) - from \in 1..m
    BY <1>1, <2>2, <2>4
  <2>7. Len(piece) = end(i) - from /\ \A k \in 1..Len(piece) : piece[k] = p[from + k]
    <3>1. from < end(i) /\ end(i) <= Len(p)
      BY <2>2, <2>6 DEF n
    <3> HIDE DEF from, end
    <3> QED
      BY <2>2, <2>6, <3>1, Piece
  <2>8. "LAST_FRAG" \in fs[i].flags <=> i * m >= n
    BY <2>1
  <2>9. i < last => end(i) - from = m
    BY <1>1, <2>2, <2>3
  <2>10. i = last => end(i) = n /\ i * m >= n
    BY <1>1, <2>2, <2>5
  <2>11. i * m >= n => i = last
    BY <1>1, <1>2, <2>2, <2>3
  <2> HIDE DEF piece, from, end
  <2>12. "LAST_FRAG" \in fs[i].flags <=> i = last
    BY <2>8, <2>10, <2>11
  <2>13. Len(fs[i].payload) \in 1..m /\ (i < last => Len(fs[i].payload) = m)
    BY <2>1, <2>6, <2>7, <2>9
  <2>14. i = last => from + Len(fs[i].payload) = n
    BY <1>1, <2>1, <2>2, <2>7, <2>10
  <2>15. \A k \in 1..Len(fs[i].payload) : fs[i].payload[k] = p[from + k]
    BY <2>1, <2>7
  <2> QED
    BY <2>12, <2>13, <2>14, <2>15 DEF from
<1> QED
  BY <1>2, <1>3, <1>4 DEF last, m, n, fs

-----------------------------------------------------------------------------
\* Frames, fragments or not.

LEMMA FieldIsBytes ==
  ASSUME NEW n \in Nat, NEW w \in Nat
  PROVE  LE(n, w) \in Seq(Byte)
BY LEIs DEF Byte

LEMMA JoinedBytes ==
  ASSUME NEW x \in Seq(Byte), NEW y \in Seq(Byte)
  PROVE  x \o y \in Seq(Byte)
BY ConcatProperties

LEMMA PutIsBytes ==
  ASSUME NEW m \in [type : {"VAULT_PUT"}, vault : Text(IdLen), base : Fits(8),
                    blob : {b \in Seq(Byte) : Len(b) \in Fits(4)}]
  PROVE  ClientPayload(m) \in Seq(Byte)
<1>1. m.vault \in Seq(Byte) /\ m.blob \in Seq(Byte) /\ m.base \in Nat
  BY FitsIsNat DEF Text
<1>2. LE(m.base, 8) \in Seq(Byte)
  BY <1>1, FieldIsBytes
<1>3. Prefixed(m.blob, 4) \in Seq(Byte)
  <2>1. Len(m.blob) \in Nat
    BY <1>1
  <2>2. LE(Len(m.blob), 4) \in Seq(Byte)
    BY <2>1, FieldIsBytes
  <2> QED
    BY <1>1, <2>2, JoinedBytes DEF Prefixed
<1>4. m.vault \o LE(m.base, 8) \in Seq(Byte)
  BY <1>1, <1>2, JoinedBytes
<1>5. (m.vault \o LE(m.base, 8)) \o Prefixed(m.blob, 4) \in Seq(Byte)
  BY <1>3, <1>4, JoinedBytes
<1>6. ClientPayload(m) = (m.vault \o LE(m.base, 8)) \o Prefixed(m.blob, 4)
  BY DEF ClientPayload
<1> QED
  BY <1>5, <1>6

LEMMA DataIsBytes ==
  ASSUME NEW m \in [type : {"VAULT_DATA"}, vault : Text(IdLen), version : Fits(8),
                    blob : {b \in Seq(Byte) : Len(b) <= MaxBlob}]
  PROVE  ServerPayload(m) \in Seq(Byte)
<1>1. m.vault \in Seq(Byte) /\ m.blob \in Seq(Byte) /\ m.version \in Nat
  BY FitsIsNat DEF Text
<1>2. LE(m.version, 8) \in Seq(Byte)
  BY <1>1, FieldIsBytes
<1>3. m.vault \o LE(m.version, 8) \in Seq(Byte)
  BY <1>1, <1>2, JoinedBytes
<1>4. (m.vault \o LE(m.version, 8)) \o m.blob \in Seq(Byte)
  BY <1>1, <1>3, JoinedBytes
<1>5. ServerPayload(m) = (m.vault \o LE(m.version, 8)) \o m.blob
  BY DEF ServerPayload
<1> QED
  BY <1>4, <1>5

\* The frames of a payload of any length.
Pieces(p) == IF Len(p) <= MaxPayload THEN 1 ELSE Count(p)
End(p, i) == IF i < Pieces(p) THEN i * MaxPayload ELSE Len(p)
More(f) == "FRAGMENTED" \in f.flags /\ "LAST_FRAG" \notin f.flags
FrameOk(f, key, type, p, i) ==
  /\ f.type = type /\ Authentic(f, key) /\ ShortEnough(f)
  /\ "FRAGMENTED" \in f.flags <=> Len(p) > MaxPayload
  /\ "LAST_FRAG" \in f.flags => "FRAGMENTED" \in f.flags
  /\ More(f) <=> i < Pieces(p)
  /\ f.payload = SubSeq(p, (i - 1) * MaxPayload + 1, End(p, i))
  /\ (i - 1) * MaxPayload \in Nat /\ End(p, i) \in Nat
  /\ (i - 1) * MaxPayload <= End(p, i) /\ End(p, i) <= Len(p)

LEMMA FrameIs ==
  ASSUME NEW f, NEW key, NEW type, NEW flags, NEW p, f = Frame(key, type, flags, p)
  PROVE  f.type = type /\ f.flags = flags /\ f.payload = p /\ Authentic(f, key)
BY DEF Frame, Authentic

LEMMA FramesAre ==
  ASSUME NEW key, NEW type, NEW p \in Data
  PROVE  /\ Pieces(p) \in Nat \ {0}
         /\ Frames(key, type, p) \in Seq(Range(Frames(key, type, p)))
         /\ Len(Frames(key, type, p)) = Pieces(p)
         /\ \A i \in 1..Pieces(p) : FrameOk(Frames(key, type, p)[i], key, type, p, i)
<1> DEFINE fs == Frames(key, type, p)
           m == MaxPayload
           n == Len(p)
<1>1. m \in Nat \ {0} /\ n \in Nat /\ p \in Seq(Nat)
  BY WireAssumption, LengthIsNat DEF Data
<1>2. CASE n <= m
  <2>1. fs = <<Frame(key, type, {}, p)>> /\ Pieces(p) = 1
    BY <1>2 DEF Frames, Pieces
  <2>2. Len(fs) = 1 /\ DOMAIN fs = 1..1 /\ fs[1] = Frame(key, type, {}, p)
    BY <2>1
  <2>3. fs \in Seq(Range(fs))
    BY <2>1, <2>2 DEF Range
  <2>4. SubSeq(p, 1, n) = p
    BY <1>1, SubSeqFull
  <2>5. FrameOk(fs[1], key, type, p, 1)
    <3>1. End(p, 1) = n /\ (1 - 1) * m = 0
      BY <1>1, <2>1 DEF End
    <3>2. fs[1].payload = p /\ fs[1].flags = {} /\ fs[1].type = type /\ Authentic(fs[1], key)
      BY <2>2 DEF Frame, Authentic
    <3>3. ShortEnough(fs[1])
      BY <1>2, <3>2 DEF ShortEnough
    <3> HIDE DEF fs, m, n
    <3>4. fs[1].payload = SubSeq(p, (1 - 1) * m + 1, End(p, 1))
      BY <2>4, <3>1, <3>2 DEF n
    <3>5. ~(n > m) /\ ~(1 < 1)
      BY <1>1, <1>2
    <3> QED
      BY <1>1, <2>1, <3>1, <3>2, <3>3, <3>4, <3>5 DEF FrameOk, More, m, n
  <2> HIDE DEF fs
  <2> QED
    BY <2>1, <2>2, <2>3, <2>5 DEF fs
<1>3. CASE n > m
  <2> DEFINE last == Count(p)
  <2>1. last \in Nat /\ last >= 2 /\ (last - 1) * m < n /\ n <= last * m
    BY <1>1, <1>3, RoundedUp DEF Count
  <2>2. Pieces(p) = last
    BY <1>1, <1>3 DEF Pieces
  <2>3. fs = [i \in 1..last |->
                Frame(key, type, {"FRAGMENTED"} \cup (IF i * m >= n THEN {"LAST_FRAG"} ELSE {}),
                      SubSeq(p, (i - 1) * m + 1, IF i * m < n THEN i * m ELSE n))]
    BY <1>1, <1>3 DEF Frames, Count
  <2> HIDE DEF last
  <2>4. Len(fs) = last /\ DOMAIN fs = 1..last
    BY <2>1, <2>3
  <2>5. fs \in Seq(Range(fs))
    <3> HIDE DEF fs
    <3>1. fs \in [1..last -> Range(fs)]
      BY <2>3, <2>4 DEF Range
    <3> QED
      BY <2>1, <3>1
  <2>6. ASSUME NEW i \in 1..last
        PROVE  FrameOk(fs[i], key, type, p, i)
    <3> DEFINE from == (i - 1) * m
               end == IF i * m < n THEN i * m ELSE n
    <3>1. fs[i] = Frame(key, type, {"FRAGMENTED"} \cup (IF i * m >= n THEN {"LAST_FRAG"} ELSE {}),
                        SubSeq(p, from + 1, end))
      BY <2>3
    <3>2. from \in Nat /\ i * m \in Nat /\ i * m = from + m
      BY <1>1, <2>1
    <3>3. i < last => i * m < n
      <4>1. i < last => i * m <= (last - 1) * m
        BY <1>1, <2>1
      <4> QED
        BY <1>1, <2>1, <3>2, <4>1
    <3>4. from < n
      <4>1. from <= (last - 1) * m
        BY <1>1, <2>1
      <4> QED
        BY <1>1, <2>1, <3>2, <4>1
    <3>5. i = last => n <= i * m
      BY <2>1
    <3>6. i < last <=> i * m < n
      BY <1>1, <2>1, <3>2, <3>3, <3>5
    <3>7. i * m >= n <=> ~(i * m < n)
      BY <1>1, <3>2
    <3>8. end \in Nat /\ from < end /\ end <= n /\ end - from <= m
      BY <1>1, <3>2, <3>4
    <3>9. End(p, i) = end
      BY <2>2, <3>6 DEF End
    <3> HIDE DEF from, end
    <3>10. Len(SubSeq(p, from + 1, end)) = end - from
      BY <1>1, <3>2, <3>8, Piece DEF n
    <3> HIDE DEF fs, m, n
    <3>11. /\ fs[i].type = type /\ Authentic(fs[i], key) /\ fs[i].payload = SubSeq(p, from + 1, end)
           /\ fs[i].flags = {"FRAGMENTED"} \cup (IF i * m >= n THEN {"LAST_FRAG"} ELSE {})
      <4> DEFINE flags == {"FRAGMENTED"} \cup (IF i * m >= n THEN {"LAST_FRAG"} ELSE {})
                 piece == SubSeq(p, from + 1, end)
                 f == fs[i]
      <4>1. f = Frame(key, type, flags, piece)
        BY <3>1
      <4> HIDE DEF flags, piece, f
      <4>2. f.type = type /\ f.flags = flags /\ f.payload = piece /\ Authentic(f, key)
        BY <4>1, FrameIs
      <4> QED
        BY <4>2 DEF flags, piece, f
    <3>12. ShortEnough(fs[i])
      BY <1>1, <3>8, <3>10, <3>11 DEF ShortEnough, m
    <3>13. "FRAGMENTED" \in fs[i].flags /\ ("LAST_FRAG" \in fs[i].flags <=> i * m >= n)
      BY <3>11
    <3>14. More(fs[i]) <=> i < last
      BY <3>6, <3>7, <3>13 DEF More
    <3>15. from <= end
      BY <3>2, <3>8
    <3>16. More(fs[i]) <=> i < Pieces(p)
      BY <2>2, <3>14
    <3>17. "FRAGMENTED" \in fs[i].flags <=> Len(p) > MaxPayload
      BY <1>3, <3>13 DEF m, n
    <3>18. fs[i].payload = SubSeq(p, (i - 1) * MaxPayload + 1, End(p, i))
      BY <3>9, <3>11 DEF from, m
    <3>19. /\ (i - 1) * MaxPayload \in Nat /\ End(p, i) \in Nat
           /\ (i - 1) * MaxPayload <= End(p, i) /\ End(p, i) <= Len(p)
      BY <3>2, <3>8, <3>9, <3>15 DEF from, m, n
    <3> QED
      BY <3>11, <3>12, <3>13, <3>16, <3>17, <3>18, <3>19, Zenon DEF FrameOk
  <2> HIDE DEF fs
  <2> QED
    BY <2>1, <2>2, <2>4, <2>5, <2>6 DEF fs
<1> QED
  BY <1>1, <1>2, <1>3
=============================================================================
