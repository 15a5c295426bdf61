---------------------------- MODULE RegionsProofs ----------------------------
(***************************************************************************)
(* Shares, coordinates and regions: the shares of compute_one_dim tile a   *)
(* dimension, coordinates and indices determine each other, and the        *)
(* regions that get_regions finds are those of the map, for every shape.   *)
(***************************************************************************)
EXTENDS MCRearrange, Recursion, SequenceTheorems

-----------------------------------------------------------------------------
(* Shares *)

(* The quotient and the remainder that the shares are computed from.       *)
LEMMA Division ==
    ASSUME NEW gdim \in Nat, NEW n \in Nat \ {0}
    PROVE  /\ gdim \div n \in Nat
           /\ gdim - (gdim \div n) * n \in 0 .. n - 1
  <1>1. gdim \div n \in Int /\ gdim % n \in 0 .. n - 1
    OBVIOUS
  <1>2. gdim = n * (gdim \div n) + (gdim % n)
    OBVIOUS
  <1> DEFINE q == gdim \div n
  <1>3. q * n = n * q
    BY <1>1
  <1>4. q >= 0
    <2> SUFFICES ASSUME q <= -1 PROVE FALSE
      BY <1>1
    <2>1. n * q <= -n
      <3>1. n * (q + 1) <= 0
        BY <1>1
      <3>2. n * (q + 1) = n * q + n
        BY <1>1
      <3> QED BY <3>1, <3>2, <1>1
    <2>2. gdim < 0
      <3> HIDE DEF q
      <3>1. n * q \in Int
        BY <1>1 DEF q
      <3> QED BY <1>1, <1>2, <2>1, <3>1 DEF q
    <2> QED BY <2>2
  <1> HIDE DEF q
  <1>5. q \in Nat /\ n * q \in Int
    BY <1>1, <1>4 DEF q
  <1> QED BY <1>1, <1>2, <1>3, <1>5 DEF q

(* The share of a rank below the number of tasks, with the division named. *)
LEMMA ShareOf ==
    ASSUME NEW gdim \in Nat, NEW n \in Nat \ {0}, NEW r \in 0 .. n - 1
    PROVE  LET lcount == gdim \div n
               adds   == r + (gdim - lcount * n) - n
           IN  /\ compute_one_dim(gdim, n, r).start = lcount * r + IF adds > 0 THEN adds ELSE 0
               /\ compute_one_dim(gdim, n, r).count = lcount + IF adds >= 0 THEN 1 ELSE 0
  <1>1. r % n = r
    OBVIOUS
  <1> QED BY <1>1 DEF compute_one_dim

(* compute_one_dim: the share of task 0 starts at 0, the share of each     *)
(* task ends where that of the next one starts, and the last one ends at   *)
(* the end of the dimension; no share is of negative size.  So every index *)
(* is in the share of exactly one task.                                    *)
THEOREM SharesTile ==
    ASSUME NEW gdim \in Nat, NEW n \in Nat \ {0}
    PROVE  LET share(r) == compute_one_dim(gdim, n, r)
           IN  /\ share(0).start = 0
               /\ \A r \in 0 .. n - 1 : share(r).start \in Nat /\ share(r).count \in Nat
               /\ \A r \in 0 .. n - 2 : share(r).start + share(r).count = share(r + 1).start
               /\ share(n - 1).start + share(n - 1).count = gdim
  <1> DEFINE q == gdim \div n
             rest == gdim - q * n
             share(r) == compute_one_dim(gdim, n, r)
  <1>1. q \in Nat /\ rest \in 0 .. n - 1 /\ q * n \in Nat
    <2>1. q \in Nat /\ rest \in 0 .. n - 1
      BY Division
    <2> HIDE DEF q, rest
    <2> QED BY <2>1
  <1>2. \A r \in 0 .. n - 1 :
            /\ share(r).start = q * r + IF r + rest - n > 0 THEN r + rest - n ELSE 0
            /\ share(r).count = q + IF r + rest - n >= 0 THEN 1 ELSE 0
    BY ShareOf
  <1>3. gdim = q * n + rest
    BY <1>1
  <1> HIDE DEF share, q, rest
  <1>4. share(0).start = 0
    <2>1. q * 0 = 0
      BY <1>1
    <2> QED BY <1>1, <1>2, <2>1
  <1>5. \A r \in 0 .. n - 1 : share(r).start \in Nat /\ share(r).count \in Nat
    <2> TAKE r \in 0 .. n - 1
    <2>1. q * r \in Nat
      BY <1>1
    <2> QED BY <1>1, <1>2, <2>1
  <1>6. \A r \in 0 .. n - 2 : share(r).start + share(r).count = share(r + 1).start
    <2> TAKE r \in 0 .. n - 2
    <2>1. r + 1 \in 0 .. n - 1 /\ r \in 0 .. n - 1
      OBVIOUS
    <2>2. q * (r + 1) = q * r + q /\ q * r \in Nat
      BY <1>1
    <2> QED BY <1>1, <1>2, <2>1, <2>2
  <1>7. share(n - 1).start + share(n - 1).count = gdim
    <2>1. n - 1 \in 0 .. n - 1
      OBVIOUS
    <2>2. q * (n - 1) = q * n - q /\ q * (n - 1) \in Int
      BY <1>1
    <2> QED BY <1>1, <1>2, <1>3, <2>1, <2>2
  <1> QED BY <1>4, <1>5, <1>6, <1>7 DEF share

-----------------------------------------------------------------------------
(* Division *)

LEMMA DivisionIs ==
    ASSUME NEW a \in Nat, NEW b \in Nat \ {0}
    PROVE  /\ a \div b \in Nat /\ a % b \in 0 .. b - 1 /\ (a \div b) * b \in Nat
           /\ a = (a \div b) * b + (a % b)
  <1>1. a \div b \in Nat /\ a % b \in 0 .. b - 1 /\ a = b * (a \div b) + (a % b)
    <2>1. a % b \in 0 .. b - 1 /\ a = b * (a \div b) + (a % b)
      OBVIOUS
    <2> QED BY <2>1, Division
  <1> DEFINE q == a \div b
  <1> HIDE DEF q
  <1>2. b * q = q * b /\ q * b \in Nat
    BY <1>1 DEF q
  <1> QED BY <1>1, <1>2 DEF q

(* A number below the divisor is the remainder of its sum with a multiple. *)
LEMMA SameQuotient ==
    ASSUME NEW w \in Nat \ {0}, NEW a \in Nat, NEW c \in Nat, NEW b \in 0 .. w - 1, NEW e \in 0 .. w - 1,
           a * w + b = c * w + e
    PROVE  a = c /\ b = e
  <1>1. ASSUME NEW p \in Nat, NEW q \in Nat, p < q PROVE p * w + w <= q * w /\ p * w \in Nat /\ q * w \in Nat
    <2>1. PICK k \in Nat : q = (p + 1) + k
      <3>1. q = (p + 1) + (q - p - 1) /\ q - p - 1 \in Nat
        BY <1>1
      <3> QED BY <3>1
    <2>2. q * w = (p + 1) * w + k * w
      BY <2>1
    <2>3. (p + 1) * w = p * w + w
      OBVIOUS
    <2>4. p * w \in Nat /\ k * w \in Nat
      OBVIOUS
    <2> QED BY <2>2, <2>3, <2>4
  <1>2. a * w \in Nat /\ c * w \in Nat
    OBVIOUS
  <1>3. ASSUME a < c PROVE FALSE
    <2>1. a * w + w <= c * w
      BY <1>1, <1>3
    <2> QED BY <1>2, <2>1
  <1>4. ASSUME c < a PROVE FALSE
    <2>1. c * w + w <= a * w
      BY <1>1, <1>4
    <2> QED BY <1>2, <2>1
  <1>5. a = c
    BY <1>3, <1>4
  <1> QED BY <1>2, <1>5

LEMMA Associative == ASSUME NEW a \in Int, NEW b \in Int, NEW c \in Int PROVE (a * b) * c = a * (b * c)
  OBVIOUS

-----------------------------------------------------------------------------
(* Products of the elements from a place of a sequence on *)

Positive == Nat \ {0}

LEMMA PositiveTimes == ASSUME NEW a \in Positive, NEW b \in Positive PROVE a * b \in Positive
  <1>1. a * b \in Nat /\ a - 1 \in Nat
    BY DEF Positive
  <1>2. a * b = (a - 1) * b + b /\ (a - 1) * b \in Nat
    <2> DEFINE c == a - 1
    <2>1. c \in Nat /\ a = c + 1
      BY DEF Positive
    <2> HIDE DEF c
    <2>2. (c + 1) * b = c * b + b /\ c * b \in Nat
      BY <2>1 DEF Positive
    <2> QED BY <2>1, <2>2 DEF c
  <1> QED BY <1>1, <1>2 DEF Positive

PartialProducts(s, f) ==
    /\ f \in [0 .. Len(s) -> Positive] /\ f[0] = 1
    /\ \A i \in 1 .. Len(s) : f[i] = f[i - 1] * s[i]

LEMMA SomeProducts == ASSUME NEW s \in Seq(Positive) PROVE \E f : PartialProducts(s, f)
  <1> DEFINE A == 0 .. Len(s)
             rank == [i \in A |-> i]
             stop == {0}
             pred == [i \in A |-> IF i = 0 THEN 0 ELSE i - 1]
             base == [i \in A |-> 1]
             next == [i \in A |-> [v \in Positive |-> IF i = 0 THEN 1 ELSE v * s[i]]]
  <1>1. Ranked(A, rank, stop, pred)
    BY DEF Ranked
  <1>2. base \in [A -> Positive] /\ next \in [A -> [Positive -> Positive]]
    <2>1. \A i \in A, v \in Positive : (IF i = 0 THEN 1 ELSE v * s[i]) \in Positive
      <3> SUFFICES ASSUME NEW i \in A, i # 0, NEW v \in Positive PROVE v * s[i] \in Positive
        BY DEF Positive
      <3>1. s[i] \in Positive
        OBVIOUS
      <3> QED BY <3>1, PositiveTimes
    <2>2. 1 \in Positive
      BY DEF Positive
    <2> QED BY <2>1, <2>2
  <1>3. PICK f \in [A -> Positive] : Solution(f, A, stop, base, pred, next)
    <2> HIDE DEF A, rank, stop, pred, base, next
    <2> QED BY <1>1, <1>2, LinearRecursion, Zenon
  <1>4. \A i \in A : f[i] = IF i \in stop THEN base[i] ELSE next[i][f[pred[i]]]
    BY <1>3, Zenon DEF Solution
  <1>5. f[0] = 1
    BY <1>4
  <1>6. ASSUME NEW i \in 1 .. Len(s) PROVE f[i] = f[i - 1] * s[i]
    <2>1. i \in A /\ i - 1 \in A /\ i # 0
      OBVIOUS
    <2>2. f[i] = next[i][f[pred[i]]] /\ pred[i] = i - 1
      BY <1>4, <2>1
    <2>3. f[i - 1] \in Positive
      BY <1>3, <2>1
    <2> QED BY <2>1, <2>2, <2>3
  <1> QED BY <1>3, <1>5, <1>6 DEF PartialProducts

LEMMA ProductIs == ASSUME NEW s \in Seq(Positive), NEW f, PartialProducts(s, f) PROVE Product(s) = f[Len(s)]
  <1> DEFINE Eq(g) == [i \in 0 .. Len(s) |-> IF i = 0 THEN 1 ELSE g[i - 1] * s[i]]
             g == CHOOSE g : g = Eq(g)
  <1>1. f = Eq(f)
    BY DEF PartialProducts
  <1>2. g = Eq(g)
    BY <1>1, Zenon
  <1>3. Product(s) = g[Len(s)]
    BY Zenon DEF Product
  <1> HIDE DEF g
  <1> DEFINE S == {i \in Nat : i <= Len(s) => g[i] = f[i]}
  <1>4. 0 \in S
    BY <1>2 DEF PartialProducts
  <1>5. ASSUME NEW i \in Nat, i \in S PROVE i + 1 \in S
    <2> SUFFICES ASSUME i + 1 <= Len(s) PROVE g[i + 1] = f[i + 1]
      OBVIOUS
    <2>1. g[i + 1] = g[i] * s[i + 1]
      BY <1>2
    <2>2. g[i] = f[i]
      BY <1>5
    <2> QED BY <2>1, <2>2 DEF PartialProducts
  <1>6. Nat \subseteq S
    <2> HIDE DEF S
    <2> QED BY <1>4, <1>5, NatSetInduction
  <1> QED BY <1>3, <1>6

LEMMA ProductPositive ==
    ASSUME NEW s \in Seq(Positive)
    PROVE  Product(s) \in Positive /\ (Len(s) = 0 => Product(s) = 1)
  <1>1. PICK f : PartialProducts(s, f)
    BY SomeProducts
  <1>2. f \in [0 .. Len(s) -> Positive] /\ f[0] = 1
    BY <1>1 DEF PartialProducts
  <1>3. Product(s) = f[Len(s)]
    BY <1>1, ProductIs
  <1>4. Len(s) \in 0 .. Len(s)
    OBVIOUS
  <1> QED BY <1>2, <1>3, <1>4

(* An element put in front multiplies the product. *)
LEMMA ProductFront ==
    ASSUME NEW s \in Seq(Positive), NEW t \in Seq(Positive), Len(t) = Len(s) + 1,
           \A i \in 1 .. Len(s) : t[i + 1] = s[i]
    PROVE  Product(t) = t[1] * Product(s)
  <1>1. PICK f : PartialProducts(s, f)
    BY SomeProducts
  <1>2. PICK g : PartialProducts(t, g)
    BY SomeProducts
  <1>3. /\ f \in [0 .. Len(s) -> Positive] /\ f[0] = 1
        /\ \A i \in 1 .. Len(s) : f[i] = f[i - 1] * s[i]
    BY <1>1 DEF PartialProducts
  <1>4. /\ g \in [0 .. Len(t) -> Positive] /\ g[0] = 1
        /\ \A i \in 1 .. Len(t) : g[i] = g[i - 1] * t[i]
    BY <1>2 DEF PartialProducts
  <1>5. t[1] \in Positive /\ Len(s) \in Nat
    OBVIOUS
  <1> DEFINE S == {i \in Nat : i <= Len(s) => g[i + 1] = t[1] * f[i]}
  <1>6. 0 \in S
    <2>1. g[1] = 1 * t[1]
      BY <1>4
    <2> QED BY <1>3, <1>5, <2>1 DEF Positive
  <1>7. ASSUME NEW i \in Nat, i \in S PROVE i + 1 \in S
    <2> SUFFICES ASSUME i + 1 <= Len(s) PROVE g[i + 1 + 1] = t[1] * f[i + 1]
      OBVIOUS
    <2>1. g[i + 1 + 1] = g[i + 1] * t[i + 1 + 1]
      <3>1. i + 1 + 1 \in 1 .. Len(t) /\ (i + 1 + 1) - 1 = i + 1
        BY <1>5
      <3> QED BY <1>4, <3>1
    <2>2. f[i + 1] = f[i] * s[i + 1] /\ t[i + 1 + 1] = s[i + 1]
      <3>1. i + 1 \in 1 .. Len(s) /\ (i + 1) - 1 = i
        OBVIOUS
      <3> QED BY <1>3, <3>1
    <2>3. g[i + 1] = t[1] * f[i]
      BY <1>7
    <2>4. f[i] \in Int /\ s[i + 1] \in Int /\ t[1] \in Int
      <3>1. i \in 0 .. Len(s) /\ i + 1 \in 1 .. Len(s)
        BY <1>5
      <3>2. f[i] \in Positive /\ s[i + 1] \in Positive
        BY <1>3, <3>1
      <3> QED BY <1>5, <3>2, SMTT(30) DEF Positive
    <2>5. (t[1] * f[i]) * s[i + 1] = t[1] * (f[i] * s[i + 1])
      BY <2>4, Associative
    <2> QED BY <2>1, <2>2, <2>3, <2>5
  <1>8. Nat \subseteq S
    <2> HIDE DEF S
    <2> QED BY <1>6, <1>7, NatSetInduction
  <1>9. g[Len(t)] = t[1] * f[Len(s)]
    BY <1>5, <1>8
  <1> QED BY <1>1, <1>2, <1>9, ProductIs

(* The elements that a step in dimension i passes. *)
Weight(s, i) == Product(SubSeq(s, i + 1, Len(s)))

LEMMA Weights ==
    ASSUME NEW s \in Seq(Positive)
    PROVE  /\ \A i \in 0 .. Len(s) : Weight(s, i) \in Positive
           /\ Weight(s, Len(s)) = 1 /\ Weight(s, 0) = Product(s)
           /\ \A i \in 1 .. Len(s) : Weight(s, i - 1) = s[i] * Weight(s, i)
  <1> DEFINE t(i) == SubSeq(s, i + 1, Len(s))
  <1>1. ASSUME NEW i \in 0 .. Len(s)
        PROVE  /\ t(i) \in Seq(Positive) /\ Len(t(i)) = Len(s) - i
               /\ \A k \in 1 .. Len(s) - i : t(i)[k] = s[i + k]
    OBVIOUS
  <1> HIDE DEF t
  <1>2. ASSUME NEW i \in 0 .. Len(s) PROVE Weight(s, i) \in Positive
    <2>1. Product(t(i)) \in Positive
      BY <1>1, ProductPositive
    <2> QED BY <2>1 DEF Weight, t
  <1>3. Weight(s, Len(s)) = 1
    <2>1. Len(s) \in 0 .. Len(s)
      OBVIOUS
    <2>2. t(Len(s)) \in Seq(Positive) /\ Len(t(Len(s))) = 0
      BY <1>1, <2>1
    <2>3. Product(t(Len(s))) = 1
      BY <2>2, ProductPositive
    <2> QED BY <2>3 DEF Weight, t
  <1>4. Weight(s, 0) = Product(s)
    <2>1. SubSeq(s, 0 + 1, Len(s)) = s
      OBVIOUS
    <2> QED BY <2>1 DEF Weight
  <1>5. ASSUME NEW i \in 1 .. Len(s) PROVE Weight(s, i - 1) = s[i] * Weight(s, i)
    <2> DEFINE a == t(i)
               b == t(i - 1)
    <2>1. i - 1 \in 0 .. Len(s) /\ i \in 0 .. Len(s)
      OBVIOUS
    <2>2. /\ a \in Seq(Positive) /\ Len(a) = Len(s) - i
          /\ \A k \in 1 .. Len(s) - i : a[k] = s[i + k]
      BY <1>1, <2>1
    <2>3. /\ b \in Seq(Positive) /\ Len(b) = Len(s) - (i - 1)
          /\ \A k \in 1 .. Len(s) - (i - 1) : b[k] = s[(i - 1) + k]
      BY <1>1, <2>1
    <2>4. b[1] = s[i] /\ Len(b) = Len(a) + 1 /\ \A k \in 1 .. Len(a) : b[k + 1] = a[k]
      <3> HIDE DEF a, b
      <3>1. b[1] = s[i]
        BY <2>3
      <3>2. ASSUME NEW k \in 1 .. Len(a) PROVE b[k + 1] = a[k]
        <4>1. k + 1 \in 1 .. Len(s) - (i - 1) /\ (i - 1) + (k + 1) = i + k /\ k \in 1 .. Len(s) - i
          BY <2>2
        <4> QED BY <2>2, <2>3, <4>1
      <3>3. Len(b) = Len(a) + 1
        <4>1. Len(s) \in Nat
          OBVIOUS
        <4> QED BY <2>2, <2>3, <4>1
      <3> QED BY <3>1, <3>2, <3>3
    <2>5. Product(b) = b[1] * Product(a)
      <3> HIDE DEF a, b
      <3> QED BY <2>2, <2>3, <2>4, ProductFront
    <2>6. Weight(s, i) = Product(a) /\ Weight(s, i - 1) = Product(b)
      BY DEF Weight, t
    <2> QED BY <2>4, <2>5, <2>6
  <1> QED BY <1>2, <1>3, <1>4, <1>5

-----------------------------------------------------------------------------
(* Indices of coordinates *)

(* Induction over an interval, from either end. *)
LEMMA Upwards ==
    ASSUME NEW m \in Nat, NEW n \in Nat, NEW S, m \in S, \A i \in m .. n - 1 : i \in S => i + 1 \in S
    PROVE  m .. n \subseteq S
  <1> DEFINE T == {k \in Nat : m + k <= n => m + k \in S}
  <1>1. 0 \in T
    OBVIOUS
  <1>2. ASSUME NEW k \in Nat, k \in T PROVE k + 1 \in T
    <2> SUFFICES ASSUME m + (k + 1) <= n PROVE m + (k + 1) \in S
      OBVIOUS
    <2>1. m + k \in m .. n - 1 /\ (m + k) + 1 = m + (k + 1) /\ m + k \in S
      BY <1>2
    <2> QED BY <2>1
  <1>3. Nat \subseteq T
    <2> HIDE DEF T
    <2> QED BY <1>1, <1>2, NatSetInduction
  <1> SUFFICES ASSUME NEW i \in m .. n PROVE i \in S
    OBVIOUS
  <1>4. i - m \in Nat /\ m + (i - m) = i
    OBVIOUS
  <1> QED BY <1>3, <1>4

LEMMA Downwards ==
    ASSUME NEW m \in Nat, NEW n \in Nat, NEW S, n \in S, \A i \in m .. n - 1 : i + 1 \in S => i \in S
    PROVE  m .. n \subseteq S
  <1> DEFINE T == {k \in Nat : n - k >= m => n - k \in S}
  <1>1. 0 \in T
    OBVIOUS
  <1>2. ASSUME NEW k \in Nat, k \in T PROVE k + 1 \in T
    <2> SUFFICES ASSUME n - (k + 1) >= m PROVE n - (k + 1) \in S
      OBVIOUS
    <2>1. n - (k + 1) \in m .. n - 1 /\ n - (k + 1) + 1 = n - k /\ n - k \in S
      BY <1>2
    <2> QED BY <2>1
  <1>3. Nat \subseteq T
    <2> HIDE DEF T
    <2> QED BY <1>1, <1>2, NatSetInduction
  <1> SUFFICES ASSUME NEW i \in m .. n PROVE i \in S
    OBVIOUS
  <1>4. n - i \in Nat /\ n - (n - i) = i
    OBVIOUS
  <1> QED BY <1>3, <1>4

(* What coord_to_lindex has added up from each dimension inwards. *)
Indexes(s, l, f) ==
    /\ f \in [1 .. Len(s) + 1 -> Nat] /\ f[Len(s) + 1] = 0
    /\ \A i \in 1 .. Len(s) : f[i] = f[i + 1] + l[i] * Weight(s, i)

LEMMA SomeIndexes ==
    ASSUME NEW s \in Seq(Positive), NEW l \in [1 .. Len(s) -> Nat]
    PROVE  \E f : Indexes(s, l, f)
  <1> DEFINE n == Len(s)
             A == 1 .. n + 1
             rank == [i \in A |-> (n + 1) - i]
             stop == {n + 1}
             pred == [i \in A |-> IF i = n + 1 THEN i ELSE i + 1]
             base == [i \in A |-> 0]
             next == [i \in A |-> [v \in Nat |-> IF i = n + 1 THEN 0 ELSE v + l[i] * Weight(s, i)]]
  <1>0. n \in Nat
    OBVIOUS
  <1>1. Ranked(A, rank, stop, pred)
    <2> HIDE DEF n
    <2> QED BY <1>0 DEF Ranked
  <1>2. base \in [A -> Nat] /\ next \in [A -> [Nat -> Nat]]
    <2>1. ASSUME NEW i \in A, i # n + 1 PROVE l[i] * Weight(s, i) \in Nat
      <3>1. i \in 1 .. Len(s) /\ i \in 0 .. Len(s)
        BY <1>0, <2>1
      <3>2. l[i] \in Nat /\ Weight(s, i) \in Nat
        BY <3>1, Weights DEF Positive
      <3> QED BY <3>2
    <2> QED BY <2>1
  <1>3. PICK f \in [A -> Nat] : Solution(f, A, stop, base, pred, next)
    <2> HIDE DEF A, rank, stop, pred, base, next
    <2> QED BY <1>1, <1>2, LinearRecursion, Zenon
  <1>4. \A i \in A : f[i] = IF i \in stop THEN base[i] ELSE next[i][f[pred[i]]]
    BY <1>3, Zenon DEF Solution
  <1> HIDE DEF n
  <1>5. f[n + 1] = 0
    <2>1. n + 1 \in A /\ n + 1 \in stop
      BY <1>0
    <2>2. f[n + 1] = base[n + 1]
      <3> HIDE DEF A, stop, base, next, pred
      <3> QED BY <1>4, <2>1
    <2> QED BY <2>1, <2>2
  <1>6. ASSUME NEW i \in 1 .. n PROVE f[i] = f[i + 1] + l[i] * Weight(s, i)
    <2>1. i \in A /\ i + 1 \in A /\ i # n + 1
      BY <1>0
    <2>2. f[i] = next[i][f[pred[i]]] /\ pred[i] = i + 1
      BY <1>4, <2>1
    <2>3. f[i + 1] \in Nat
      BY <1>3, <2>1
    <2> QED BY <2>1, <2>2, <2>3
  <1> QED BY <1>3, <1>5, <1>6 DEF Indexes, n

LEMMA IndexIs ==
    ASSUME NEW s \in Seq(Positive), NEW l, NEW f, Indexes(s, l, f)
    PROVE  coord_to_lindex(l, s) = f[1]
  <1> DEFINE n == Len(s)
             Eq(g) == [i \in 1 .. n + 1 |-> IF i = n + 1 THEN 0 ELSE g[i + 1] + l[i] * Product(SubSeq(s, i + 1, n))]
             g == CHOOSE g : g = Eq(g)
  <1>0. n \in Nat
    OBVIOUS
  <1>1. f = Eq(f)
    BY <1>0 DEF Indexes, Weight
  <1>2. g = Eq(g)
    BY <1>1, Zenon
  <1>3. coord_to_lindex(l, s) = g[1]
    BY Zenon DEF coord_to_lindex
  <1>4. \A i \in 1 .. n + 1 : g[i] = IF i = n + 1 THEN 0 ELSE g[i + 1] + l[i] * Weight(s, i)
    BY <1>2 DEF Weight
  <1>5. f[n + 1] = 0 /\ \A i \in 1 .. n : f[i] = f[i + 1] + l[i] * Weight(s, i)
    BY DEF Indexes
  <1> HIDE DEF g, n
  <1> DEFINE S == {i \in 1 .. n + 1 : g[i] = f[i]}
  <1>6. n + 1 \in S
    BY <1>0, <1>4, <1>5
  <1>7. ASSUME NEW i \in 1 .. (n + 1) - 1, i + 1 \in S PROVE i \in S
    <2>1. i \in 1 .. n /\ i # n + 1 /\ i \in 1 .. n + 1
      BY <1>0
    <2> QED BY <1>4, <1>5, <1>7, <2>1
  <1>8. 1 .. n + 1 \subseteq S
    <2> HIDE DEF S
    <2>1. 1 \in Nat /\ n + 1 \in Nat
      BY <1>0
    <2> QED BY <1>6, <1>7, <2>1, Downwards
  <1> QED BY <1>0, <1>3, <1>8

LEMMA IndexNat ==
    ASSUME NEW s \in Seq(Positive), NEW l \in [1 .. Len(s) -> Nat]
    PROVE  coord_to_lindex(l, s) \in Nat
  <1>1. PICK f : Indexes(s, l, f)
    BY SomeIndexes
  <1>2. f[1] \in Nat
    BY <1>1 DEF Indexes
  <1> QED BY <1>1, <1>2, IndexIs

(* The index of a sum is the sum of the indices. *)
LEMMA IndexAdds ==
    ASSUME NEW s \in Seq(Positive), NEW a \in [1 .. Len(s) -> Nat], NEW b \in [1 .. Len(s) -> Nat],
           NEW c \in [1 .. Len(s) -> Nat], \A i \in 1 .. Len(s) : c[i] = a[i] + b[i]
    PROVE  coord_to_lindex(c, s) = coord_to_lindex(a, s) + coord_to_lindex(b, s)
  <1>1. PICK f : Indexes(s, a, f)
    BY SomeIndexes
  <1>2. PICK g : Indexes(s, b, g)
    BY SomeIndexes
  <1> DEFINE n == Len(s)
             h == [i \in 1 .. n + 1 |-> f[i] + g[i]]
  <1>3. n \in Nat
    OBVIOUS
  <1>4. /\ f \in [1 .. n + 1 -> Nat] /\ f[n + 1] = 0
        /\ \A i \in 1 .. n : f[i] = f[i + 1] + a[i] * Weight(s, i)
    BY <1>1 DEF Indexes
  <1>5. /\ g \in [1 .. n + 1 -> Nat] /\ g[n + 1] = 0
        /\ \A i \in 1 .. n : g[i] = g[i + 1] + b[i] * Weight(s, i)
    BY <1>2 DEF Indexes
  <1>6. h \in [1 .. n + 1 -> Nat] /\ h[n + 1] = 0
    <2> HIDE DEF n
    <2>1. \A i \in 1 .. n + 1 : f[i] + g[i] \in Nat
      BY <1>4, <1>5
    <2>2. n + 1 \in 1 .. n + 1
      BY <1>3
    <2>3. f[n + 1] + g[n + 1] = 0
      BY <1>4, <1>5
    <2> QED BY <2>1, <2>2, <2>3
  <1>7. ASSUME NEW i \in 1 .. n PROVE h[i] = h[i + 1] + c[i] * Weight(s, i)
    <2>1. i \in 1 .. n + 1 /\ i + 1 \in 1 .. n + 1
      BY <1>3
    <2>2. Weight(s, i) \in Nat
      <3>1. i \in 0 .. Len(s)
        BY <1>3
      <3> QED BY <3>1, Weights DEF Positive
    <2>3. a[i] \in Nat /\ b[i] \in Nat /\ c[i] = a[i] + b[i]
      OBVIOUS
    <2> DEFINE w == Weight(s, i)
    <2>4. (a[i] + b[i]) * w = a[i] * w + b[i] * w /\ a[i] * w \in Nat /\ b[i] * w \in Nat
      <3> HIDE DEF w
      <3> QED BY <2>2, <2>3 DEF w
    <2>5. f[i] = f[i + 1] + a[i] * w /\ g[i] = g[i + 1] + b[i] * w
      BY <1>4, <1>5
    <2>6. h[i] = f[i] + g[i] /\ h[i + 1] = f[i + 1] + g[i + 1] /\ f[i + 1] \in Nat /\ g[i + 1] \in Nat
      BY <1>4, <1>5, <2>1
    <2> HIDE DEF w, h
    <2>7. c[i] * w = a[i] * w + b[i] * w
      BY <2>3, <2>4
    <2>8. h[i] = h[i + 1] + c[i] * w
      BY <2>4, <2>5, <2>6, <2>7
    <2> QED BY <2>8 DEF w
  <1>8. Indexes(s, c, h)
    BY <1>6, <1>7 DEF Indexes
  <1>9. coord_to_lindex(a, s) = f[1] /\ coord_to_lindex(b, s) = g[1] /\ coord_to_lindex(c, s) = h[1]
    <2> HIDE DEF h
    <2> QED BY <1>1, <1>2, <1>8, IndexIs
  <1> QED BY <1>3, <1>9

(* A step in one dimension adds as many weights to the index. *)
LEMMA IndexSteps ==
    ASSUME NEW s \in Seq(Positive), NEW a \in [1 .. Len(s) -> Nat], NEW d \in 1 .. Len(s), a[d] = 0,
           NEW k \in Nat
    PROVE  coord_to_lindex([a EXCEPT ![d] = k], s) = coord_to_lindex(a, s) + k * Weight(s, d)
  <1>1. PICK f : Indexes(s, a, f)
    BY SomeIndexes
  <1> DEFINE n == Len(s)
             more == k * Weight(s, d)
             b == [a EXCEPT ![d] = k]
             h == [i \in 1 .. n + 1 |-> IF i <= d THEN f[i] + more ELSE f[i]]
  <1>2. n \in Nat /\ d \in 1 .. n
    OBVIOUS
  <1>3. more \in Nat
    <2>1. Weight(s, d) \in Nat
      <3>1. d \in 0 .. Len(s)
        BY <1>2
      <3> QED BY <3>1, Weights DEF Positive
    <2> QED BY <2>1
  <1>4. /\ f \in [1 .. n + 1 -> Nat] /\ f[n + 1] = 0
        /\ \A i \in 1 .. n : f[i] = f[i + 1] + a[i] * Weight(s, i)
    BY <1>1 DEF Indexes
  <1>5. h \in [1 .. n + 1 -> Nat] /\ h[n + 1] = 0
    <2> HIDE DEF n, more
    <2> QED BY <1>2, <1>3, <1>4
  <1>6. ASSUME NEW i \in 1 .. n PROVE h[i] = h[i + 1] + b[i] * Weight(s, i)
    <2>1. i \in 1 .. n + 1 /\ i + 1 \in 1 .. n + 1
      BY <1>2
    <2>2. f[i] = f[i + 1] + a[i] * Weight(s, i) /\ f[i] \in Nat /\ f[i + 1] \in Nat
      BY <1>4, <2>1
    <2>3. Weight(s, i) \in Nat
      <3>1. i \in 0 .. Len(s)
        BY <1>2
      <3> QED BY <3>1, Weights DEF Positive
    <2>4. CASE i = d
      <3>1. b[i] * Weight(s, i) = more
        BY <2>4
      <3>2. a[i] * Weight(s, i) = 0
        BY <2>3, <2>4
      <3>3. h[i] = f[i] + more /\ h[i + 1] = f[i + 1]
        <4> HIDE DEF more
        <4> QED BY <1>2, <2>1, <2>4
      <3> HIDE DEF more, h, b
      <3> QED BY <1>3, <2>2, <3>1, <3>2, <3>3
    <2>5. CASE i # d
      <3>1. b[i] = a[i] /\ a[i] * Weight(s, i) \in Nat
        BY <2>3, <2>5
      <3>2. \/ h[i] = f[i] + more /\ h[i + 1] = f[i + 1] + more
            \/ h[i] = f[i] /\ h[i + 1] = f[i + 1]
        <4> HIDE DEF more
        <4> QED BY <1>2, <2>1, <2>5
      <3> DEFINE p == a[i] * Weight(s, i)
      <3>3. b[i] * Weight(s, i) = p /\ p \in Nat /\ f[i] = f[i + 1] + p
        BY <2>2, <3>1
      <3>5. f[i + 1] \in Nat
        BY <2>2
      <3> HIDE DEF more, h, b, p
      <3>4. h[i] = h[i + 1] + p
        BY <1>3, <3>5, <3>2, <3>3, SMTT(30)
      <3> QED BY <3>3, <3>4
    <2> QED BY <2>4, <2>5
  <1>7. Indexes(s, b, h)
    BY <1>5, <1>6 DEF Indexes
  <1>8. coord_to_lindex(a, s) = f[1] /\ coord_to_lindex(b, s) = h[1]
    <2> HIDE DEF h, b
    <2> QED BY <1>1, <1>7, IndexIs
  <1>9. h[1] = f[1] + more
    <2> HIDE DEF more
    <2> QED BY <1>2
  <1> QED BY <1>8, <1>9

(* The index depends on the weights of dimensions where it is not 0 only. *)
LEMMA SameWeights ==
    ASSUME NEW s \in Seq(Positive), NEW t \in Seq(Positive), Len(s) = Len(t), NEW a \in [1 .. Len(s) -> Nat],
           \A i \in 1 .. Len(s) : a[i] = 0 \/ Weight(s, i) = Weight(t, i)
    PROVE  coord_to_lindex(a, s) = coord_to_lindex(a, t)
  <1>1. PICK f : Indexes(s, a, f)
    BY SomeIndexes
  <1>2. ASSUME NEW i \in 1 .. Len(s) PROVE a[i] * Weight(s, i) = a[i] * Weight(t, i)
    <2>1. i \in 0 .. Len(s) /\ i \in 0 .. Len(t)
      OBVIOUS
    <2>2. Weight(s, i) \in Nat /\ Weight(t, i) \in Nat
      BY <2>1, Weights DEF Positive
    <2>3. CASE a[i] = 0
      BY <2>2, <2>3
    <2> QED BY <2>3
  <1>3. Indexes(t, a, f)
    <2>1. \A i \in 1 .. Len(s) : f[i] = f[i + 1] + a[i] * Weight(s, i)
      BY <1>1 DEF Indexes
    <2>2. \A i \in 1 .. Len(t) : f[i] = f[i + 1] + a[i] * Weight(t, i)
      BY <1>2, <2>1
    <2> QED BY <1>1, <2>2 DEF Indexes
  <1> QED BY <1>1, <1>3, IndexIs

-----------------------------------------------------------------------------
(* Coordinates of indices *)

InRange(s, a) == a \in [1 .. Len(s) -> Nat] /\ \A i \in 1 .. Len(s) : a[i] < s[i]

(* A sum of less than w and of up to s - 1 times w is less than s times w. *)
LEMMA MixedBound ==
    ASSUME NEW w \in Positive, NEW s \in Positive, NEW a \in 0 .. s - 1, NEW b \in 0 .. w - 1
    PROVE  a * w + b \in 0 .. (s * w) - 1
  <1>1. PICK k \in Nat : s = (a + 1) + k
    <2>1. s = (a + 1) + (s - a - 1) /\ s - a - 1 \in Nat
      BY DEF Positive
    <2> QED BY <2>1
  <1>2. s * w = (a + 1) * w + k * w /\ (a + 1) * w = a * w + w
    BY <1>1 DEF Positive
  <1>3. a * w \in Nat /\ k * w \in Nat
    BY DEF Positive
  <1> DEFINE p == a * w
             q == k * w
             r == s * w
  <1>4. r = p + w + q /\ p \in Nat /\ q \in Nat
    BY <1>2, <1>3
  <1> HIDE DEF p, q, r
  <1>5. p + b \in 0 .. r - 1
    BY <1>4 DEF Positive
  <1> QED BY <1>5 DEF p, r

LEMMA IndexBound ==
    ASSUME NEW s \in Seq(Positive), NEW a, InRange(s, a), NEW f, Indexes(s, a, f)
    PROVE  \A i \in 1 .. Len(s) + 1 : f[i] \in 0 .. Weight(s, i - 1) - 1
  <1> DEFINE n == Len(s)
             S == {i \in 1 .. n + 1 : f[i] \in 0 .. Weight(s, i - 1) - 1}
  <1>1. n \in Nat
    OBVIOUS
  <1>2. /\ f \in [1 .. n + 1 -> Nat] /\ f[n + 1] = 0
        /\ \A i \in 1 .. n : f[i] = f[i + 1] + a[i] * Weight(s, i)
    BY DEF Indexes
  <1>3. n + 1 \in S
    <2>1. (n + 1) - 1 = n /\ n + 1 \in 1 .. n + 1 /\ Weight(s, n) = 1
      BY <1>1, Weights
    <2> QED BY <1>2, <2>1
  <1>4. ASSUME NEW i \in 1 .. (n + 1) - 1, i + 1 \in S PROVE i \in S
    <2>1. i \in 1 .. n /\ i \in 1 .. n + 1 /\ i \in 0 .. n /\ (i + 1) - 1 = i
      BY <1>1
    <2>2. f[i + 1] \in 0 .. Weight(s, i) - 1
      BY <1>4, <2>1
    <2>3. Weight(s, i) \in Positive /\ Weight(s, i - 1) = s[i] * Weight(s, i)
      BY <2>1, Weights
    <2>4. s[i] \in Positive /\ a[i] \in 0 .. s[i] - 1
      <3>1. s[i] \in Positive
        BY <2>1
      <3>2. a[i] \in Nat /\ a[i] < s[i]
        BY <2>1 DEF InRange
      <3> QED BY <3>1, <3>2 DEF Positive
    <2>5. a[i] * Weight(s, i) + f[i + 1] \in 0 .. (s[i] * Weight(s, i)) - 1
      <3> HIDE DEF n, S
      <3> QED BY <2>2, <2>3, <2>4, MixedBound
    <2>6. f[i] = f[i + 1] + a[i] * Weight(s, i) /\ f[i + 1] \in Nat /\ a[i] * Weight(s, i) \in Nat
      <3>1. f[i + 1] \in Nat
        BY <2>2
      <3>2. a[i] \in Nat /\ Weight(s, i) \in Nat
        BY <2>3, <2>4 DEF Positive
      <3> QED BY <1>2, <2>1, <3>1, <3>2
    <2>7. f[i] = a[i] * Weight(s, i) + f[i + 1]
      BY <2>6
    <2> QED BY <2>1, <2>3, <2>5, <2>7
  <1>5. 1 .. n + 1 \subseteq S
    <2> HIDE DEF S, n
    <2>1. 1 \in Nat /\ n + 1 \in Nat
      BY <1>1
    <2> QED BY <1>3, <1>4, <2>1, Downwards
  <1> QED BY <1>5

(* Coordinates in the array with the same index are the same. *)
THEOREM IndexInjective ==
    ASSUME NEW s \in Seq(Positive), NEW a, InRange(s, a), NEW b, InRange(s, b),
           coord_to_lindex(a, s) = coord_to_lindex(b, s)
    PROVE  a = b
  <1>1. a \in [1 .. Len(s) -> Nat] /\ b \in [1 .. Len(s) -> Nat]
    BY DEF InRange
  <1>2. PICK f : Indexes(s, a, f)
    BY <1>1, SomeIndexes
  <1>3. PICK g : Indexes(s, b, g)
    BY <1>1, SomeIndexes
  <1> DEFINE n == Len(s)
             S == {i \in 1 .. n + 1 : f[i] = g[i] /\ \A k \in 1 .. i - 1 : a[k] = b[k]}
  <1>4. n \in Nat
    OBVIOUS
  <1>5. 1 \in S
    <2>1. f[1] = g[1]
      BY <1>2, <1>3, IndexIs
    <2> QED BY <1>4, <2>1
  <1>6. ASSUME NEW i \in 1 .. (n + 1) - 1, i \in S PROVE i + 1 \in S
    <2>1. i \in 1 .. n /\ i + 1 \in 1 .. n + 1 /\ i \in 0 .. n /\ (i + 1) - 1 = i
      BY <1>4
    <2>2. Weight(s, i) \in Positive
      BY <2>1, Weights
    <2>3. f[i + 1] \in 0 .. Weight(s, i) - 1 /\ g[i + 1] \in 0 .. Weight(s, i) - 1
      <3>1. \A k \in 1 .. Len(s) + 1 : f[k] \in 0 .. Weight(s, k - 1) - 1
        BY <1>2, IndexBound
      <3>2. \A k \in 1 .. Len(s) + 1 : g[k] \in 0 .. Weight(s, k - 1) - 1
        BY <1>3, IndexBound
      <3> QED BY <2>1, <3>1, <3>2
    <2>4. f[i] = f[i + 1] + a[i] * Weight(s, i) /\ g[i] = g[i + 1] + b[i] * Weight(s, i)
      BY <1>2, <1>3, <2>1 DEF Indexes
    <2>5. a[i] \in Nat /\ b[i] \in Nat /\ f[i] = g[i]
      BY <1>1, <1>6, <2>1
    <2> DEFINE w == Weight(s, i)
               u == f[i + 1]
               v == g[i + 1]
    <2>6. a[i] * w + u = b[i] * w + v
      <3>1. w \in Nat /\ u \in Nat /\ v \in Nat
        BY <2>2, <2>3 DEF Positive
      <3>2. u + a[i] * w = v + b[i] * w
        BY <2>4, <2>5
      <3> HIDE DEF w, u, v
      <3>3. a[i] * w \in Nat /\ b[i] * w \in Nat
        BY <2>5, <3>1
      <3>4. \A p, q \in Nat : u + p = v + q => p + u = q + v
        BY <3>1
      <3> QED BY <3>2, <3>3, <3>4
    <2>7. a[i] = b[i] /\ f[i + 1] = g[i + 1]
      <3>1. u \in 0 .. w - 1 /\ v \in 0 .. w - 1 /\ w \in Nat \ {0}
        BY <2>2, <2>3 DEF Positive
      <3> HIDE DEF n, S, w, u, v
      <3>2. a[i] = b[i] /\ u = v
        BY <2>5, <2>6, <3>1, SameQuotient, ZenonT(60)
      <3> QED BY <3>2 DEF u, v
    <2> QED BY <1>4, <1>6, <2>1, <2>7
  <1>7. 1 .. n + 1 \subseteq S
    <2> HIDE DEF S, n
    <2>1. 1 \in Nat /\ n + 1 \in Nat
      BY <1>4
    <2> QED BY <1>5, <1>6, <2>1, Upwards
  <1>8. \A k \in 1 .. n : a[k] = b[k]
    <2>1. n + 1 \in S
      BY <1>4, <1>7
    <2> QED BY <1>4, <2>1
  <1> QED BY <1>1, <1>8

(* What idx_to_dim_list has left of the index on the way outwards. *)
Lefts(s, x, f) ==
    /\ f \in [0 .. Len(s) -> Nat] /\ f[Len(s)] = x
    /\ \A i \in 1 .. Len(s) : f[i - 1] = f[i] \div s[i]

LEMMA SomeLefts == ASSUME NEW s \in Seq(Positive), NEW x \in Nat PROVE \E f : Lefts(s, x, f)
  <1> DEFINE n == Len(s)
             A == 0 .. n
             rank == [i \in A |-> n - i]
             stop == {n}
             pred == [i \in A |-> IF i = n THEN i ELSE i + 1]
             base == [i \in A |-> x]
             next == [i \in A |-> [v \in Nat |-> IF i = n THEN 0 ELSE v \div s[i + 1]]]
  <1>0. n \in Nat
    OBVIOUS
  <1>1. Ranked(A, rank, stop, pred)
    <2> HIDE DEF n
    <2> QED BY <1>0 DEF Ranked
  <1>2. base \in [A -> Nat] /\ next \in [A -> [Nat -> Nat]]
    <2>1. ASSUME NEW i \in A, i # n, NEW v \in Nat PROVE v \div s[i + 1] \in Nat
      <3>1. i + 1 \in 1 .. Len(s)
        BY <1>0, <2>1
      <3>2. s[i + 1] \in Nat \ {0}
        BY <3>1 DEF Positive
      <3> HIDE DEF n
      <3> QED BY <3>2, DivisionIs
    <2> QED BY <2>1
  <1>3. PICK f \in [A -> Nat] : Solution(f, A, stop, base, pred, next)
    <2> HIDE DEF A, rank, stop, pred, base, next
    <2> QED BY <1>1, <1>2, LinearRecursion, Zenon
  <1>4. \A i \in A : f[i] = IF i \in stop THEN base[i] ELSE next[i][f[pred[i]]]
    BY <1>3, Zenon DEF Solution
  <1> HIDE DEF n
  <1>5. f[n] = x
    <2>1. n \in A /\ n \in stop
      BY <1>0
    <2>2. f[n] = base[n]
      <3> HIDE DEF A, stop, base, next, pred
      <3> QED BY <1>4, <2>1
    <2> QED BY <2>1, <2>2
  <1>6. ASSUME NEW i \in 1 .. n PROVE f[i - 1] = f[i] \div s[i]
    <2>1. i \in A /\ i - 1 \in A /\ i - 1 # n /\ (i - 1) + 1 = i
      BY <1>0
    <2>2. f[i - 1] = next[i - 1][f[pred[i - 1]]] /\ pred[i - 1] = i
      BY <1>4, <2>1
    <2>3. f[i] \in Nat
      BY <1>3, <2>1
    <2> QED BY <2>1, <2>2, <2>3
  <1> QED BY <1>3, <1>5, <1>6 DEF Lefts, n

LEMMA QuotOfNat == ASSUME NEW a \in Nat, NEW b \in Int PROVE Quot(a, b) = a \div b
  BY DEF Quot

LEMMA DigitsAre ==
    ASSUME NEW s \in Seq(Positive), NEW x \in Nat, NEW f, Lefts(s, x, f)
    PROVE  idx_to_dim_list(s, x) = [i \in 1 .. Len(s) |-> f[i] - Quot(f[i], s[i]) * s[i]]
  <1> DEFINE n == Len(s)
             Eq(g) == [i \in 1 .. n |-> IF i = n THEN x ELSE Quot(g[i + 1], s[i + 1])]
             g == CHOOSE g : g = Eq(g)
             h == [i \in 1 .. n |-> f[i]]
  <1>0. n \in Nat
    OBVIOUS
  <1>1. /\ f \in [0 .. n -> Nat] /\ f[n] = x
        /\ \A i \in 1 .. n : f[i - 1] = f[i] \div s[i]
    BY DEF Lefts
  <1>2. ASSUME NEW i \in 1 .. n, i # n PROVE Quot(f[i + 1], s[i + 1]) = f[i]
    <2>1. i + 1 \in 1 .. n /\ i + 1 \in 0 .. n /\ (i + 1) - 1 = i
      BY <1>0, <1>2
    <2>2. f[i + 1] \in Nat /\ s[i + 1] \in Int
      <3>1. s[i + 1] \in Positive
        BY <2>1
      <3> QED BY <1>1, <2>1, <3>1 DEF Positive
    <2>3. f[i] = f[i + 1] \div s[i + 1]
      BY <1>1, <2>1
    <2> QED BY <2>2, <2>3, QuotOfNat
  <1>3. h = Eq(h)
    <2>1. ASSUME NEW i \in 1 .. n PROVE h[i] = IF i = n THEN x ELSE Quot(h[i + 1], s[i + 1])
      <3>1. CASE i = n
        BY <1>1, <3>1
      <3>2. CASE i # n
        <4>1. i + 1 \in 1 .. n
          BY <1>0, <3>2
        <4> HIDE DEF n
        <4> QED BY <1>2, <3>2, <4>1
      <3> QED BY <3>1, <3>2
    <2> HIDE DEF n
    <2> QED BY <2>1
  <1>4. g = Eq(g)
    BY <1>3, Zenon
  <1>5. idx_to_dim_list(s, x) = [i \in 1 .. n |-> g[i] - Quot(g[i], s[i]) * s[i]]
    BY Zenon DEF idx_to_dim_list
  <1>6. \A i \in 1 .. n : g[i] = IF i = n THEN x ELSE Quot(g[i + 1], s[i + 1])
    BY <1>4
  <1> HIDE DEF g, h
  <1>7. ASSUME NEW i \in 1 .. n PROVE g[i] = f[i]
    <2> DEFINE S == {k \in 1 .. n : g[k] = f[k]}
    <2> HIDE DEF n
    <2>1. n \in S
      <3>1. n \in 1 .. n
        BY <1>0, <1>7
      <3> QED BY <1>1, <1>6, <3>1
    <2>2. ASSUME NEW k \in 1 .. n - 1, k + 1 \in S PROVE k \in S
      <3>1. k \in 1 .. n /\ k # n
        BY <1>0
      <3>2. g[k] = Quot(g[k + 1], s[k + 1])
        BY <1>6, <3>1
      <3>3. g[k] = f[k]
        BY <1>2, <2>2, <3>1, <3>2
      <3> QED BY <3>1, <3>3
    <2>3. 1 .. n \subseteq S
      <3> HIDE DEF S
      <3>1. 1 \in Nat
        OBVIOUS
      <3> QED BY <1>0, <2>1, <2>2, <3>1, Downwards
    <2> QED BY <2>3
  <1> QED BY <1>5, <1>7

(* idx_to_dim_list gives the coordinates in the array that have the index. *)
THEOREM CoordinatesOfIndex ==
    ASSUME NEW s \in Seq(Positive), NEW x \in 0 .. Product(s) - 1
    PROVE  InRange(s, idx_to_dim_list(s, x)) /\ coord_to_lindex(idx_to_dim_list(s, x), s) = x
  <1> DEFINE n == Len(s)
             a == idx_to_dim_list(s, x)
  <1>0. n \in Nat /\ Product(s) \in Positive /\ x \in Nat
    BY ProductPositive DEF Positive
  <1>1. PICK f : Lefts(s, x, f)
    BY <1>0, SomeLefts
  <1>2. /\ f \in [0 .. n -> Nat] /\ f[n] = x
        /\ \A i \in 1 .. n : f[i - 1] = f[i] \div s[i]
    BY <1>1 DEF Lefts
  <1>3. a = [i \in 1 .. n |-> f[i] - Quot(f[i], s[i]) * s[i]]
    BY <1>0, <1>1, DigitsAre
  <1> HIDE DEF a
  <1>4. ASSUME NEW i \in 1 .. n
        PROVE  a[i] \in 0 .. s[i] - 1 /\ f[i] = f[i - 1] * s[i] + a[i] /\ f[i] \in Nat /\ f[i - 1] \in Nat
               /\ s[i] \in Nat \ {0}
    <2>1. i \in 0 .. n /\ i - 1 \in 0 .. n
      BY <1>0
    <2>2. f[i] \in Nat /\ f[i - 1] \in Nat /\ s[i] \in Nat \ {0}
      BY <1>2, <2>1 DEF Positive
    <2> DEFINE b == f[i]
               c == s[i]
    <2>3. a[i] = b - (b \div c) * c /\ f[i - 1] = b \div c
      <3>1. Quot(b, c) = b \div c
        <4>1. b \in Nat /\ c \in Int
          BY <2>2
        <4> HIDE DEF b, c
        <4> QED BY <4>1, QuotOfNat
      <3> QED BY <1>2, <1>3, <3>1
    <2>4. b % c \in 0 .. c - 1 /\ (b \div c) * c \in Nat /\ b = (b \div c) * c + (b % c)
      <3> HIDE DEF b, c
      <3>1. b \in Nat /\ c \in Nat \ {0}
        BY <2>2 DEF b, c
      <3> QED BY <3>1, DivisionIs
    <2>5. a[i] = b % c
      <3> DEFINE p == (b \div c) * c
                 r == b % c
      <3>1. a[i] = b - p /\ b = p + r /\ p \in Nat /\ r \in Nat
        BY <2>3, <2>4
      <3> HIDE DEF p, r, b
      <3>2. a[i] = r
        BY <3>1
      <3> QED BY <3>2 DEF r
    <2> QED BY <2>2, <2>3, <2>4, <2>5
  <1>5. a \in [1 .. n -> Nat] /\ \A i \in 1 .. n : a[i] < s[i]
    <2>1. \A i \in 1 .. n : a[i] \in Nat /\ a[i] < s[i]
      <3> TAKE i \in 1 .. n
      <3>1. a[i] \in 0 .. s[i] - 1 /\ s[i] \in Nat \ {0}
        BY <1>4
      <3> QED BY <3>1
    <2>2. a = [i \in 1 .. n |-> a[i]]
      BY <1>3
    <2> QED BY <2>1, <2>2
  <1>6. InRange(s, a)
    BY <1>5 DEF InRange
  <1>7. PICK g : Indexes(s, a, g)
    BY <1>5, SomeIndexes
  <1>8. /\ g \in [1 .. n + 1 -> Nat] /\ g[n + 1] = 0
        /\ \A i \in 1 .. n : g[i] = g[i + 1] + a[i] * Weight(s, i)
    BY <1>7 DEF Indexes
  <1> DEFINE S == {i \in 0 .. n : f[i] * Weight(s, i) + g[i + 1] = x}
  <1>9. n \in S
    <2>1. Weight(s, n) = 1 /\ n \in 0 .. n
      BY <1>0, Weights
    <2>2. f[n] * 1 + g[n + 1] = x
      BY <1>0, <1>2, <1>8
    <2> QED BY <2>1, <2>2
  <1>10. ASSUME NEW i \in 0 .. n - 1, i + 1 \in S PROVE i \in S
    <2> DEFINE j == i + 1
    <2>1. j \in 1 .. n /\ j - 1 = i /\ i \in 0 .. n /\ j \in 0 .. n /\ j + 1 \in 1 .. n + 1
      BY <1>0
    <2> HIDE DEF j, S, n
    <2>2. /\ f[j] = f[i] * s[j] + a[j] /\ f[i] \in Nat /\ s[j] \in Nat /\ a[j] \in Nat
      <3>1. a[j] \in 0 .. s[j] - 1 /\ f[j] = f[j - 1] * s[j] + a[j] /\ f[j - 1] \in Nat /\ s[j] \in Nat
        BY <1>4, <2>1
      <3> QED BY <2>1, <3>1
    <2>3. g[j] = g[j + 1] + a[j] * Weight(s, j) /\ g[j + 1] \in Nat
      BY <1>8, <2>1
    <2>4. Weight(s, j) \in Nat /\ Weight(s, i) = s[j] * Weight(s, j)
      <3>1. Weight(s, j) \in Positive /\ Weight(s, j - 1) = s[j] * Weight(s, j)
        BY <2>1, Weights DEF n
      <3> QED BY <2>1, <3>1 DEF Positive
    <2>5. f[j] * Weight(s, j) + g[j + 1] = x
      BY <1>10 DEF j, S
    <2> DEFINE w == Weight(s, j)
               y == g[j + 1]
               p == f[i]
               q == s[j]
               r == a[j]
    <2>6. (p * q + r) * w = p * (q * w) + r * w
      <3>1. p \in Nat /\ q \in Nat /\ r \in Nat /\ w \in Nat
        BY <2>2, <2>4
      <3> HIDE DEF p, q, r, w
      <3>2. p * q \in Int /\ (p * q) * w = p * (q * w)
        BY <3>1
      <3>3. (p * q + r) * w = (p * q) * w + r * w
        BY <3>1, <3>2
      <3> QED BY <3>2, <3>3
    <2>7. p * (q * w) + (y + r * w) = x
      <3>1. (p * q + r) * w + y = x
        BY <2>2, <2>5
      <3>2. p \in Nat /\ q \in Nat /\ r \in Nat /\ w \in Nat /\ y \in Nat
        BY <2>2, <2>3, <2>4
      <3> HIDE DEF p, q, r, w, y
      <3>3. p * (q * w) \in Int /\ r * w \in Int
        BY <3>2
      <3>4. (p * (q * w) + r * w) + y = p * (q * w) + (y + r * w)
        BY <3>2, <3>3
      <3> QED BY <2>6, <3>1, <3>4
    <2>8. f[i] * Weight(s, i) + g[j] = x
      BY <2>3, <2>4, <2>7
    <2> QED BY <2>1, <2>8 DEF S, j
  <1>11. 0 .. n \subseteq S
    <2> HIDE DEF S, n
    <2>1. 0 \in Nat
      OBVIOUS
    <2> QED BY <1>0, <1>9, <1>10, <2>1, Downwards
  <1>12. f[0] * Weight(s, 0) + g[1] = x
    <2>1. 0 \in 0 .. n /\ 0 + 1 = 1
      BY <1>0
    <2> QED BY <1>11, <2>1
  <1>13. g[1] = x
    <2> DEFINE w == Product(s)
               y == g[1]
    <2>1. Weight(s, 0) = w
      BY Weights
    <2>2. f[0] \in Nat
      <3>1. 0 \in 0 .. n
        BY <1>0
      <3> QED BY <1>2, <3>1
    <2>3. y \in 0 .. w - 1
      <3>1. 1 \in 1 .. Len(s) + 1 /\ 1 - 1 = 0
        BY <1>0
      <3>2. \A i \in 1 .. Len(s) + 1 : g[i] \in 0 .. Weight(s, i - 1) - 1
        BY <1>6, <1>7, IndexBound
      <3> QED BY <2>1, <3>1, <3>2
    <2>4. f[0] * w + y = 0 * w + x /\ w \in Nat \ {0} /\ x \in 0 .. w - 1
      <3>1. 0 * w = 0 /\ x \in Nat /\ w \in Nat \ {0}
        BY <1>0 DEF Positive
      <3>2. f[0] * w + y = x
        BY <1>12, <2>1
      <3>3. 0 * w + x = x
        BY <3>1
      <3> QED BY <3>1, <3>2, <3>3
    <2> HIDE DEF w, y
    <2>5. y = x
      <3> DEFINE p == f[0]
      <3>1. p \in Nat /\ p * w + y = 0 * w + x /\ 0 \in Nat
        BY <2>2, <2>4
      <3> HIDE DEF p
      <3> QED BY <2>3, <2>4, <3>1, SameQuotient, ZenonT(60)
    <2> QED BY <2>5 DEF y
  <1>14. coord_to_lindex(a, s) = x
    <2> HIDE DEF n
    <2> QED BY <1>7, <1>13, IndexIs
  <1> QED BY <1>6, <1>14 DEF a

-----------------------------------------------------------------------------
(* Blocks: a map that starts with all elements of a box *)

LEMMA IndexZero ==
    ASSUME NEW s \in Seq(Positive), NEW a, a = [i \in 1 .. Len(s) |-> 0]
    PROVE  coord_to_lindex(a, s) = 0
  <1> DEFINE f == [i \in 1 .. Len(s) + 1 |-> 0]
  <1>1. Len(s) \in Nat
    OBVIOUS
  <1>2. ASSUME NEW i \in 1 .. Len(s) PROVE f[i] = f[i + 1] + a[i] * Weight(s, i)
    <2>1. i \in 0 .. Len(s) /\ i + 1 \in 1 .. Len(s) + 1 /\ i \in 1 .. Len(s) + 1
      BY <1>1
    <2>2. Weight(s, i) \in Nat
      BY <2>1, Weights DEF Positive
    <2>3. 0 * Weight(s, i) = 0
      BY <2>2
    <2> QED BY <2>1, <2>3
  <1>3. Len(s) + 1 \in 1 .. Len(s) + 1 /\ 1 \in 1 .. Len(s) + 1
    BY <1>1
  <1>4. Indexes(s, a, f)
    <2>1. f \in [1 .. Len(s) + 1 -> Nat] /\ f[Len(s) + 1] = 0
      BY <1>3
    <2> QED BY <1>2, <2>1 DEF Indexes
  <1>5. coord_to_lindex(a, s) = f[1]
    <2> HIDE DEF f
    <2> QED BY <1>4, IndexIs
  <1> QED BY <1>3, <1>5

LEMMA Ones ==
    ASSUME NEW s \in Seq(Positive), NEW d \in 0 .. Len(s), \A i \in 1 .. d : s[i] = 1
    PROVE  Product(s) = Weight(s, d)
  <1> DEFINE S == {i \in 0 .. d : Weight(s, i) = Product(s)}
  <1>1. d \in Nat
    OBVIOUS
  <1>2. 0 \in S
    BY <1>1, Weights
  <1>3. ASSUME NEW i \in 0 .. d - 1, i \in S PROVE i + 1 \in S
    <2>1. i + 1 \in 1 .. d /\ i + 1 \in 1 .. Len(s) /\ i + 1 \in 0 .. Len(s) /\ (i + 1) - 1 = i
      BY <1>1
    <2>2. Weight(s, i) = s[i + 1] * Weight(s, i + 1) /\ Weight(s, i + 1) \in Positive
      <3>1. \A k \in 1 .. Len(s) : Weight(s, k - 1) = s[k] * Weight(s, k)
        BY Weights
      <3>2. Weight(s, (i + 1) - 1) = s[i + 1] * Weight(s, i + 1)
        BY <2>1, <3>1, Zenon
      <3> QED BY <2>1, <3>2, Weights
    <2>3. s[i + 1] = 1
      BY <2>1
    <2>4. 1 * Weight(s, i + 1) = Weight(s, i + 1)
      BY <2>2 DEF Positive
    <2>5. Weight(s, i + 1) = Weight(s, i)
      BY <2>2, <2>3, <2>4
    <2> QED BY <1>1, <1>3, <2>1, <2>5
  <1>4. 0 .. d \subseteq S
    <2> HIDE DEF S
    <2>1. 0 \in Nat
      OBVIOUS
    <2> QED BY <1>1, <1>2, <1>3, <2>1, Upwards
  <1> QED BY <1>1, <1>4

LEMMA SameTail ==
    ASSUME NEW s \in Seq(Positive), NEW t \in Seq(Positive), Len(s) = Len(t), NEW d \in 0 .. Len(s),
           \A i \in d + 1 .. Len(s) : s[i] = t[i], NEW i \in d .. Len(s)
    PROVE  Weight(s, i) = Weight(t, i)
  <1> DEFINE a == SubSeq(s, i + 1, Len(s))
             b == SubSeq(t, i + 1, Len(t))
  <1>1. a \in Seq(Positive) /\ Len(a) = Len(s) - i /\ \A k \in 1 .. Len(s) - i : a[k] = s[i + k]
    OBVIOUS
  <1>2. b \in Seq(Positive) /\ Len(b) = Len(s) - i /\ \A k \in 1 .. Len(s) - i : b[k] = t[i + k]
    OBVIOUS
  <1> HIDE DEF a, b
  <1>3. ASSUME NEW k \in 1 .. Len(s) - i PROVE a[k] = b[k]
    <2>1. i + k \in d + 1 .. Len(s)
      OBVIOUS
    <2> QED BY <1>1, <1>2, <2>1
  <1>4. a = b
    <2> DEFINE l == Len(s) - i
    <2>1. l \in Nat
      OBVIOUS
    <2> HIDE DEF l
    <2>2. a = [k \in 1 .. l |-> a[k]] /\ b = [k \in 1 .. l |-> b[k]]
      BY <1>1, <1>2, <2>1 DEF l
    <2>3. \A k \in 1 .. l : a[k] = b[k]
      BY <1>3 DEF l
    <2> QED BY <2>2, <2>3
  <1> QED BY <1>4 DEF a, b, Weight

(* The box with count elements in each dimension, and where it is in map.  *)
Block(g, map, count_) ==
    /\ Product(count_) <= Len(map)
    /\ \A m \in 1 .. Product(count_) : map[m] = map[1] + coord_to_lindex(idx_to_dim_list(count_, m - 1), g)

(* A number is a number of whole blocks and a place in the next one. *)
LEMMA PlaceInBlock ==
    ASSUME NEW p \in Positive, NEW c \in Positive, NEW m \in 1 .. p * c
    PROVE  \E k \in 0 .. c - 1, j \in 1 .. p : m = k * p + j
  <1> DEFINE k == (m - 1) \div p
             j == ((m - 1) % p) + 1
  <1>1. m - 1 \in Nat /\ p \in Nat \ {0} /\ p * c \in Nat /\ m \in Nat
    <2>1. p * c \in Positive
      BY PositiveTimes
    <2> QED BY <2>1 DEF Positive
  <1>2. k \in Nat /\ (m - 1) % p \in 0 .. p - 1 /\ k * p \in Nat /\ m - 1 = k * p + ((m - 1) % p)
    <2> DEFINE x == m - 1
    <2> HIDE DEF x
    <2>1. x \in Nat
      BY <1>1 DEF x
    <2>2. x \div p \in Nat /\ x % p \in 0 .. p - 1 /\ (x \div p) * p \in Nat /\ x = (x \div p) * p + (x % p)
      BY <1>1, <2>1, DivisionIs
    <2> QED BY <2>2 DEF x
  <1>3. j \in 1 .. p /\ m = k * p + j
    <2> DEFINE r == (m - 1) % p
               q == k * p
    <2>1. r \in 0 .. p - 1 /\ q \in Nat /\ m - 1 = q + r
      BY <1>2
    <2> HIDE DEF k, r, q
    <2>2. r + 1 \in 1 .. p /\ m = q + (r + 1)
      BY <1>1, <2>1
    <2> QED BY <2>2 DEF r, q
  <1>4. k < c
    <2> SUFFICES ASSUME k >= c PROVE FALSE
      BY <1>2 DEF Positive
    <2>1. PICK e \in Nat : k = c + e
      <3>1. k - c \in Nat /\ k = c + (k - c)
        BY <1>2 DEF Positive
      <3> QED BY <3>1
    <2>2. (c + e) * p = p * c + e * p /\ e * p \in Nat
      BY DEF Positive
    <2> DEFINE q == k * p
               t == p * c
               y == e * p
    <2>3. q = t + y /\ y \in Nat /\ t \in Nat /\ m = q + j /\ m <= t /\ j >= 1
      <3>1. m <= p * c
        BY <1>1
      <3>2. j >= 1
        <4> HIDE DEF j
        <4> QED BY <1>1, <1>3
      <3> QED BY <1>1, <1>3, <2>1, <2>2, <3>1, <3>2
    <2>4. j \in Nat
      <3> HIDE DEF j
      <3> QED BY <1>1, <1>3
    <2> HIDE DEF q, t, y, j
    <2> QED BY <2>3, <2>4
  <1> HIDE DEF k, j
  <1>5. k \in 0 .. c - 1
    BY <1>2, <1>4 DEF Positive
  <1> QED BY <1>3, <1>5

(* A block whose elements continue for c times as many is a block c times  *)
(* as large, if the box had one element in this dimension and the outer    *)
(* ones.                                                                   *)
Grows(g, map, s, d, c, t) ==
    /\ s \in Seq(Positive) /\ Len(s) = Len(g) /\ d \in 1 .. Len(g) /\ c \in Positive
    /\ \A i \in 1 .. d : s[i] = 1
    /\ Block(g, map, s)
    /\ \A i \in 1 .. c - 1 : Continues(map, Product(s), Weight(g, d), i)
    /\ t \in Seq(Positive) /\ Len(t) = Len(g) /\ t[d] = c
    /\ \A i \in 1 .. Len(g) : i # d => t[i] = s[i]

LEMMA BlockGrows ==
    ASSUME NEW g \in Seq(Positive), NEW map \in Seq(Positive), NEW s, NEW d, NEW c, NEW t,
           Grows(g, map, s, d, c, t)
    PROVE  Product(t) = Product(s) * c /\ Block(g, map, t)
  <1> SUFFICES ASSUME s \in Seq(Positive), Len(s) = Len(g), d \in 1 .. Len(g), c \in Positive,
                      \A i \in 1 .. d : s[i] = 1, Block(g, map, s),
                      \A i \in 1 .. c - 1 : Continues(map, Product(s), Weight(g, d), i),
                      t \in Seq(Positive), Len(t) = Len(g), t[d] = c,
                      \A i \in 1 .. Len(g) : i # d => t[i] = s[i]
               PROVE  Product(t) = Product(s) * c /\ Block(g, map, t)
    BY DEF Grows
  <1> DEFINE n == Len(g)
             p == Product(s)
  <1>1. n \in Nat /\ d \in 1 .. n /\ d \in 0 .. Len(s) /\ d - 1 \in 0 .. Len(s)
    OBVIOUS
  <1>2. t \in Seq(Positive) /\ Len(t) = n /\ t[d] = c /\ \A i \in 1 .. n : i # d => t[i] = s[i]
    OBVIOUS
  <1>3. p \in Positive /\ p = Weight(s, d)
    <2>1. Product(s) = Weight(s, d)
      BY <1>1, Ones
    <2> QED BY <2>1, ProductPositive
  <1>4. \A i \in d .. n : Weight(s, i) = Weight(t, i)
    <2> TAKE i \in d .. n
    <2>1. \A k \in d + 1 .. Len(s) : s[k] = t[k]
      BY <1>1, <1>2
    <2>2. i \in d .. Len(s) /\ Len(s) = Len(t)
      BY <1>2
    <2> HIDE DEF n
    <2> QED BY <1>1, <1>2, <2>1, <2>2, SameTail
  <1>5. Product(t) = p * c
    <2>1. d - 1 \in 0 .. Len(t) /\ d \in 1 .. Len(t)
      BY <1>1, <1>2
    <2>2. \A i \in 1 .. d - 1 : t[i] = 1
      <3> TAKE i \in 1 .. d - 1
      <3>1. i \in 1 .. d /\ i \in 1 .. n /\ i # d
        BY <1>1
      <3>2. s[i] = 1 /\ t[i] = s[i]
        BY <1>2, <3>1
      <3> QED BY <3>2
    <2>3. Product(t) = Weight(t, d - 1)
      BY <1>2, <2>1, <2>2, Ones
    <2>4. Weight(t, d - 1) = t[d] * Weight(t, d)
      BY <1>2, <2>1, Weights
    <2>5. Weight(t, d) = p
      BY <1>1, <1>3, <1>4
    <2>6. c * p = p * c
      <3> HIDE DEF p
      <3> QED BY <1>3 DEF Positive
    <2> QED BY <1>2, <2>3, <2>4, <2>5, <2>6
  <1>6. ASSUME NEW m \in 1 .. Product(t)
        PROVE  m <= Len(map) /\ map[m] = map[1] + coord_to_lindex(idx_to_dim_list(t, m - 1), g)
    <2>1. PICK k \in 0 .. c - 1, j \in 1 .. p : m = k * p + j
      <3> HIDE DEF p
      <3> QED BY <1>3, <1>5, <1>6, PlaceInBlock
    <2>2. k \in Nat /\ j \in Nat /\ k * p \in Nat
      <3> HIDE DEF p
      <3>1. p \in Nat /\ c \in Nat
        BY <1>3 DEF Positive
      <3>2. k \in Nat /\ j \in Nat
        BY <3>1
      <3> QED BY <3>1, <3>2
    <2> DEFINE u == idx_to_dim_list(s, j - 1)
               v == [u EXCEPT ![d] = k]
               w == Weight(g, d)
    <2>3. InRange(s, u) /\ coord_to_lindex(u, s) = j - 1
      <3>1. j - 1 \in 0 .. Product(s) - 1
        <4>1. p \in Nat /\ j \in 1 .. p
          BY <1>3, <2>1 DEF Positive
        <4> HIDE DEF p
        <4>2. j - 1 \in 0 .. p - 1
          BY <4>1
        <4> QED BY <4>2 DEF p
      <3> QED BY <3>1, CoordinatesOfIndex
    <2> HIDE DEF u
    <2>4. /\ u \in [1 .. n -> Nat] /\ \A i \in 1 .. n : u[i] < s[i]
      BY <2>3 DEF InRange
    <2>5. \A i \in 1 .. d : u[i] = 0
      <3> TAKE i \in 1 .. d
      <3>1. i \in 1 .. n /\ s[i] = 1
        BY <1>1
      <3>2. u[i] \in Nat /\ u[i] < 1
        BY <2>4, <3>1
      <3> QED BY <3>2
    <2>6. /\ v \in [1 .. n -> Nat] /\ v[d] = k /\ \A i \in 1 .. n : i # d => v[i] = u[i]
      BY <1>1, <2>2, <2>4
    <2>7. coord_to_lindex(v, s) = m - 1
      <3>1. coord_to_lindex(v, s) = coord_to_lindex(u, s) + k * Weight(s, d)
        <4>1. u \in [1 .. Len(s) -> Nat] /\ d \in 1 .. Len(s) /\ u[d] = 0
          BY <1>1, <2>4, <2>5
        <4> QED BY <2>2, <4>1, IndexSteps, ZenonT(60)
      <3>2. (j - 1) + k * p = m - 1
        <4> DEFINE q == k * p
        <4>1. m = q + j /\ q \in Nat /\ j \in Nat
          BY <2>1, <2>2
        <4> HIDE DEF q
        <4>2. (j - 1) + q = m - 1
          BY <4>1
        <4> QED BY <4>2 DEF q
      <3> QED BY <1>3, <2>3, <3>1, <3>2
    <2>8. coord_to_lindex(v, t) = m - 1
      <3>1. \A i \in 1 .. Len(s) : v[i] = 0 \/ Weight(s, i) = Weight(t, i)
        <4> TAKE i \in 1 .. Len(s)
        <4>1. CASE i < d
          BY <1>1, <2>5, <2>6, <4>1
        <4>2. CASE i >= d
          <5>1. i \in d .. n
            BY <1>1, <4>2
          <5> QED BY <1>4, <5>1
        <4> QED BY <1>1, <4>1, <4>2
      <3>2. v \in [1 .. Len(s) -> Nat] /\ Len(s) = Len(t)
        BY <1>2, <2>6
      <3>3. coord_to_lindex(v, s) = coord_to_lindex(v, t)
        <4> HIDE DEF v
        <4> QED BY <1>2, <3>1, <3>2, SameWeights
      <3> QED BY <2>7, <3>3
    <2>9. v = idx_to_dim_list(t, m - 1)
      <3>1. InRange(t, v)
        <4>1. \A i \in 1 .. n : v[i] < t[i]
          <5> TAKE i \in 1 .. n
          <5>1. CASE i = d
            <6>1. k < c
              BY <2>1, <2>2 DEF Positive
            <6> QED BY <1>2, <2>6, <5>1, <6>1
          <5>2. CASE i # d
            BY <1>2, <2>4, <2>6, <5>2
          <5> QED BY <5>1, <5>2
        <4>2. v \in [1 .. Len(t) -> Nat] /\ \A i \in 1 .. Len(t) : v[i] < t[i]
          BY <1>2, <2>6, <4>1
        <4> QED BY <4>2 DEF InRange
      <3>2. InRange(t, idx_to_dim_list(t, m - 1)) /\ coord_to_lindex(idx_to_dim_list(t, m - 1), t) = m - 1
        <4>1. m - 1 \in 0 .. Product(t) - 1
          <5>1. Product(t) \in Nat
            BY <1>2, ProductPositive DEF Positive
          <5> QED BY <1>6, <5>1
        <4> QED BY <1>2, <4>1, CoordinatesOfIndex
      <3> HIDE DEF v
      <3> QED BY <1>2, <2>8, <3>1, <3>2, IndexInjective
    <2>10. coord_to_lindex(v, g) = coord_to_lindex(u, g) + k * w
      <3>1. u \in [1 .. Len(g) -> Nat] /\ u[d] = 0
        BY <1>1, <2>4, <2>5
      <3> QED BY <2>2, <3>1, IndexSteps, ZenonT(60)
    <2>11. j <= Len(map) /\ map[j] = map[1] + coord_to_lindex(u, g)
      BY <1>3, <2>1 DEF Block, u, Positive
    <2>12. m <= Len(map) /\ map[m] = map[j] + k * w
      <3>1. CASE k = 0
        <4>1. k * w = 0 /\ m = j
          <5>1. w \in Nat /\ p \in Nat
            <6>1. d \in 0 .. Len(g)
              BY <1>1
            <6> QED BY <1>3, <6>1, Weights DEF Positive
          <5>2. 0 * w = 0 /\ 0 * p = 0
            <6> HIDE DEF w, p
            <6> QED BY <5>1
          <5> QED BY <2>1, <2>2, <3>1, <5>2
        <4>2. map[j] \in Nat
          <5>1. j \in 1 .. Len(map)
            BY <2>1, <2>2, <2>11
          <5> QED BY <5>1 DEF Positive
        <4> HIDE DEF w
        <4> QED BY <2>11, <4>1, <4>2
      <3>2. CASE k # 0
        <4>1. k \in 1 .. c - 1
          BY <2>1, <3>2 DEF Positive
        <4> QED BY <2>1, <4>1 DEF Continues
      <3> QED BY <3>1, <3>2
    <2>13. map[m] = map[1] + coord_to_lindex(v, g)
      <3> DEFINE x == coord_to_lindex(u, g)
                 q == k * w
                 y == map[1]
                 z == map[j]
      <3>1. x \in Nat
        BY <2>4, IndexNat
      <3>2. q \in Nat
        <4>1. w \in Nat
          <5>1. d \in 0 .. Len(g)
            BY <1>1
          <5> QED BY <5>1, Weights DEF Positive
        <4> HIDE DEF w
        <4> QED BY <2>2, <4>1
      <3>3. y \in Nat
        <4>1. 1 \in 1 .. Len(map)
          BY <2>1, <2>2, <2>11
        <4> QED BY <4>1 DEF Positive
      <3>4. z = y + x /\ map[m] = z + q /\ coord_to_lindex(v, g) = x + q
        BY <2>10, <2>11, <2>12
      <3> HIDE DEF x, q, y, z, v
      <3>5. map[m] = y + (x + q)
        BY <3>1, <3>2, <3>3, <3>4
      <3> QED BY <3>4, <3>5 DEF y
    <2> QED BY <2>9, <2>12, <2>13
  <1>7. Product(t) <= Len(map)
    <2>1. Product(t) \in 1 .. Product(t)
      BY <1>2, ProductPositive, SMTT(30) DEF Positive
    <2> QED BY <1>6, <2>1
  <1>8. Block(g, map, t)
    BY <1>6, <1>7 DEF Block
  <1> QED BY <1>2, <1>5, <1>8

-----------------------------------------------------------------------------
(* expand_region *)

Stops(map, max, s)    == {i \in 1 .. max : ~Continues(map, s.size, s.stride, i)}
FirstOf(stops, max)   == IF stops = {} THEN max ELSE CHOOSE i \in stops : \A j \in stops : i <= j
Unexpanded(n)         == [size |-> 1, stride |-> 1, count |-> [i \in 1 .. n |-> 1], done |-> FALSE]
Expanded(gdims, map, max_size, d, s) ==
    IF s.done THEN s
    ELSE [size |-> s.size * FirstOf(Stops(map, max_size[d], s), max_size[d]), stride |-> s.stride * gdims[d],
          count |-> [s.count EXCEPT ![d] = FirstOf(Stops(map, max_size[d], s), max_size[d])],
          done |-> Stops(map, max_size[d], s) # {}]
Expansions(n) == [size : Positive, stride : Positive, count : [1 .. n -> Positive], done : BOOLEAN]

LEMMA FirstOfIs ==
    ASSUME NEW max \in Positive, NEW stops \in SUBSET (1 .. max)
    PROVE  /\ FirstOf(stops, max) \in 1 .. max
           /\ \A i \in 1 .. FirstOf(stops, max) - 1 : i \notin stops
  <1>1. CASE stops = {}
    BY <1>1 DEF FirstOf, Positive
  <1>2. CASE stops # {}
    <2>1. \E i \in stops : \A j \in stops : i <= j
      <3> SUFFICES ASSUME \A i \in stops : \E j \in stops : j < i PROVE FALSE
        BY DEF Positive
      <3> DEFINE S == {n \in Nat : \A i \in 0 .. n : i \notin stops}
      <3>1. 0 \in S
        OBVIOUS
      <3>2. ASSUME NEW n \in Nat, n \in S PROVE n + 1 \in S
        <4> SUFFICES ASSUME n + 1 \in stops PROVE FALSE
          BY <3>2
        <4>1. PICK j \in stops : j < n + 1
          OBVIOUS
        <4>2. j \in 0 .. n
          BY <4>1
        <4> QED BY <3>2, <4>2
      <3>3. Nat \subseteq S
        <4> HIDE DEF S
        <4> QED BY <3>1, <3>2, NatSetInduction
      <3>4. PICK i : i \in stops
        BY <1>2
      <3>5. i \in Nat /\ i \in 0 .. i
        BY <3>4
      <3> QED BY <3>3, <3>4, <3>5
    <2> DEFINE m == CHOOSE i \in stops : \A j \in stops : i <= j
    <2>2. m \in stops /\ \A j \in stops : m <= j
      BY <2>1, Zenon
    <2>3. FirstOf(stops, max) = m
      BY <1>2, Zenon DEF FirstOf
    <2> HIDE DEF m
    <2>4. m \in 1 .. max
      BY <2>2
    <2>5. \A i \in 1 .. m - 1 : i \notin stops
      <3> SUFFICES ASSUME NEW i \in 1 .. m - 1, i \in stops PROVE FALSE
        OBVIOUS
      <3>1. m <= i
        BY <2>2
      <3> QED BY <2>4, <3>1
    <2> QED BY <2>3, <2>4, <2>5
  <1> QED BY <1>1, <1>2

LEMMA ExpandedType ==
    ASSUME NEW gdims \in Seq(Positive), NEW map, NEW max_size \in [1 .. Len(gdims) -> Positive],
           NEW d \in 1 .. Len(gdims), NEW s \in Expansions(Len(gdims))
    PROVE  Expanded(gdims, map, max_size, d, s) \in Expansions(Len(gdims))
  <1> DEFINE c == FirstOf(Stops(map, max_size[d], s), max_size[d])
  <1>1. s.size \in Positive /\ s.stride \in Positive /\ s.count \in [1 .. Len(gdims) -> Positive]
    BY DEF Expansions
  <1>2. c \in Positive
    <2>1. max_size[d] \in Positive
      OBVIOUS
    <2>2. Stops(map, max_size[d], s) \in SUBSET (1 .. max_size[d])
      BY DEF Stops
    <2>3. c \in 1 .. max_size[d]
      BY <2>1, <2>2, FirstOfIs
    <2> HIDE DEF c
    <2> QED BY <2>1, <2>3 DEF Positive
  <1>3. gdims[d] \in Positive
    OBVIOUS
  <1>4. (Stops(map, max_size[d], s) # {}) \in BOOLEAN
    OBVIOUS
  <1>5. s.size * c \in Positive /\ s.stride * gdims[d] \in Positive
    <2> HIDE DEF c
    <2> QED BY <1>1, <1>2, <1>3, PositiveTimes
  <1>6. [s.count EXCEPT ![d] = c] \in [1 .. Len(gdims) -> Positive]
    <2> HIDE DEF c
    <2> QED BY <1>1, <1>2
  <1> DEFINE r == [size |-> s.size * c, stride |-> s.stride * gdims[d], count |-> [s.count EXCEPT ![d] = c],
                   done |-> Stops(map, max_size[d], s) # {}]
  <1>7. r \in Expansions(Len(gdims))
    <2> HIDE DEF c
    <2> QED BY <1>4, <1>5, <1>6 DEF Expansions
  <1>8. Expanded(gdims, map, max_size, d, s) = IF s.done THEN s ELSE r
    BY Zenon DEF Expanded
  <1> HIDE DEF r
  <1> QED BY <1>7, <1>8

LEMMA ExpandIs ==
    ASSUME NEW gdims \in Seq(Positive), NEW map, NEW max_size \in [1 .. Len(gdims) -> Positive]
    PROVE  \E e \in [1 .. Len(gdims) + 1 -> Expansions(Len(gdims))] :
              /\ e[Len(gdims) + 1] = Unexpanded(Len(gdims))
              /\ \A d \in 1 .. Len(gdims) : e[d] = Expanded(gdims, map, max_size, d, e[d + 1])
              /\ expand_region(gdims, map, max_size) = e[1].count
  <1> DEFINE n == Len(gdims)
             A == 1 .. n + 1
             R == Expansions(n)
             rank == [i \in A |-> (n + 1) - i]
             stop == {n + 1}
             pred == [i \in A |-> IF i = n + 1 THEN i ELSE i + 1]
             base == [i \in A |-> Unexpanded(n)]
             next == [i \in A |-> [v \in R |-> IF i = n + 1 THEN Unexpanded(n) ELSE Expanded(gdims, map, max_size, i, v)]]
  <1>0. n \in Nat
    OBVIOUS
  <1>1. Ranked(A, rank, stop, pred)
    <2> HIDE DEF n
    <2> QED BY <1>0 DEF Ranked
  <1>2. base \in [A -> R] /\ next \in [A -> [R -> R]]
    <2>1. Unexpanded(n) \in R
      BY DEF Unexpanded, Expansions, Positive
    <2>2. ASSUME NEW i \in A, i # n + 1, NEW v \in R PROVE Expanded(gdims, map, max_size, i, v) \in R
      <3>1. i \in 1 .. Len(gdims)
        BY <1>0, <2>2
      <3> QED BY <3>1, ExpandedType
    <2> HIDE DEF R, A, n
    <2> QED BY <2>1, <2>2
  <1>3. PICK f \in [A -> R] : Solution(f, A, stop, base, pred, next)
    <2> HIDE DEF A, R, rank, stop, pred, base, next
    <2> QED BY <1>1, <1>2, LinearRecursion, Zenon
  <1>4. \A i \in A : f[i] = IF i \in stop THEN base[i] ELSE next[i][f[pred[i]]]
    BY <1>3, Zenon DEF Solution
  <1> DEFINE Eq(e) == [d \in 1 .. n + 1 |-> IF d = n + 1 THEN Unexpanded(n)
                                            ELSE Expanded(gdims, map, max_size, d, e[d + 1])]
             e == CHOOSE e : e = Eq(e)
  <1>5. f = Eq(f)
    <2> HIDE DEF n, R
    <2>1. ASSUME NEW i \in A
          PROVE  f[i] = IF i = n + 1 THEN Unexpanded(n) ELSE Expanded(gdims, map, max_size, i, f[i + 1])
      <3>1. CASE i = n + 1
        <4>1. f[i] = base[i]
          <5>1. i \in stop
            BY <3>1
          <5> HIDE DEF A, stop, base, next, pred
          <5> QED BY <1>4, <5>1
        <4> QED BY <3>1, <4>1
      <3>2. CASE i # n + 1
        <4>1. i \notin stop /\ pred[i] = i + 1 /\ i + 1 \in A
          BY <1>0, <3>2
        <4>2. f[i] = next[i][f[i + 1]]
          <5> HIDE DEF A, stop, base, next
          <5> QED BY <1>4, <4>1
        <4>3. f[i + 1] \in R
          BY <1>3, <4>1
        <4> QED BY <3>2, <4>2, <4>3
      <3> QED BY <3>1, <3>2
    <2> QED BY <1>3, <2>1
  <1>6. e = Eq(e)
    BY <1>5, Zenon
  <1>7. expand_region(gdims, map, max_size) = e[1].count
    BY Zenon DEF expand_region, Expanded, Unexpanded, Stops, FirstOf
  <1> HIDE DEF e
  <1> DEFINE S == {i \in 1 .. n + 1 : e[i] = f[i]}
  <1>8. 1 .. n + 1 \subseteq S
    <2>1. n + 1 \in S
      <3> HIDE DEF n
      <3>1. n + 1 \in 1 .. n + 1
        BY <1>0
      <3> QED BY <1>5, <1>6, <3>1
    <2>2. ASSUME NEW i \in 1 .. (n + 1) - 1, i + 1 \in S PROVE i \in S
      <3> HIDE DEF n
      <3>1. i \in 1 .. n + 1 /\ i # n + 1
        BY <1>0
      <3> QED BY <1>5, <1>6, <2>2, <3>1
    <2> HIDE DEF S, n
    <2>3. 1 \in Nat /\ n + 1 \in Nat
      BY <1>0
    <2> QED BY <2>1, <2>2, <2>3, Downwards
  <1>9. e \in [A -> R]
    <2> HIDE DEF n, R
    <2>1. \A i \in A : e[i] \in R
      BY <1>3, <1>8
    <2> QED BY <1>6, <2>1
  <1>10. e[n + 1] = Unexpanded(n) /\ \A d \in 1 .. n : e[d] = Expanded(gdims, map, max_size, d, e[d + 1])
    <2> HIDE DEF n
    <2>1. n + 1 \in 1 .. n + 1
      BY <1>0
    <2>2. \A d \in 1 .. n : d \in 1 .. n + 1 /\ d # n + 1
      BY <1>0
    <2> QED BY <1>6, <2>1, <2>2
  <1> QED BY <1>7, <1>9, <1>10

(* The dimensions outside of d are not expanded yet, and the map starts    *)
(* with the elements of the box.                                           *)
ExpandedTo(gdims, map, max_size, d, s) ==
    /\ s \in Expansions(Len(gdims))
    /\ \A i \in 1 .. d - 1 : s.count[i] = 1
    /\ \A i \in 1 .. Len(gdims) : s.count[i] <= max_size[i]
    /\ s.size = Product(s.count)
    /\ Block(gdims, map, s.count)
    /\ ~s.done => s.stride = Weight(gdims, d - 1)

LEMMA UnexpandedIs ==
    ASSUME NEW gdims \in Seq(Positive), NEW map \in Seq(Positive), map # <<>>,
           NEW max_size \in [1 .. Len(gdims) -> Positive]
    PROVE  ExpandedTo(gdims, map, max_size, Len(gdims) + 1, Unexpanded(Len(gdims)))
  <1> DEFINE n == Len(gdims)
             ones == [i \in 1 .. n |-> 1]
  <1>1. n \in Nat
    OBVIOUS
  <1>2. ones \in Seq(Positive) /\ Len(ones) = n
    BY <1>1 DEF Positive
  <1>3. Product(ones) = 1
    <2>1. n \in 0 .. Len(ones) /\ \A i \in 1 .. n : ones[i] = 1
      BY <1>1, <1>2
    <2>2. Weight(ones, n) = 1
      BY <1>2, Weights
    <2> HIDE DEF ones, n
    <2> QED BY <1>2, <2>1, <2>2, Ones
  <1>4. Block(gdims, map, ones)
    <2> SUFFICES ASSUME NEW m \in 1 .. 1
                 PROVE  map[m] = map[1] + coord_to_lindex(idx_to_dim_list(ones, m - 1), gdims)
      <3>1. 1 <= Len(map)
        OBVIOUS
      <3> HIDE DEF ones
      <3> QED BY <1>3, <3>1 DEF Block
    <2>1. m = 1
      OBVIOUS
    <2> DEFINE u == idx_to_dim_list(ones, m - 1)
    <2>2. InRange(ones, u)
      <3>1. m - 1 \in 0 .. Product(ones) - 1
        <4> HIDE DEF ones
        <4> QED BY <1>3, <2>1
      <3> HIDE DEF ones
      <3> QED BY <1>2, <3>1, CoordinatesOfIndex
    <2> HIDE DEF u
    <2>3. u = [i \in 1 .. Len(gdims) |-> 0]
      <3>1. u \in [1 .. n -> Nat] /\ \A i \in 1 .. n : u[i] < ones[i]
        BY <1>2, <2>2 DEF InRange
      <3>2. \A i \in 1 .. n : u[i] = 0
        BY <3>1
      <3> QED BY <3>1, <3>2
    <2>4. coord_to_lindex(u, gdims) = 0
      BY <2>3, IndexZero
    <2>5. map[1] \in Nat
      <3>1. 1 \in 1 .. Len(map)
        OBVIOUS
      <3> QED BY <3>1 DEF Positive
    <2> QED BY <2>1, <2>4, <2>5 DEF u
  <1>5. Weight(gdims, (n + 1) - 1) = 1
    <2>1. (n + 1) - 1 = n
      BY <1>1
    <2> QED BY <2>1, Weights
  <1>6. \A i \in 1 .. n : ones[i] <= max_size[i]
    <2> TAKE i \in 1 .. n
    <2>1. max_size[i] \in Positive /\ ones[i] = 1
      OBVIOUS
    <2> QED BY <2>1 DEF Positive
  <1>7. Unexpanded(n) \in Expansions(n)
    BY DEF Unexpanded, Expansions, Positive
  <1>8. /\ Unexpanded(n).count = ones /\ Unexpanded(n).size = 1
        /\ Unexpanded(n).stride = 1 /\ ~Unexpanded(n).done
    BY DEF Unexpanded
  <1>9. \A i \in 1 .. (n + 1) - 1 : ones[i] = 1
    BY <1>1
  <1> HIDE DEF ones
  <1> QED BY <1>3, <1>4, <1>5, <1>6, <1>7, <1>8, <1>9 DEF ExpandedTo

LEMMA ExpandStep ==
    ASSUME NEW gdims \in Seq(Positive), NEW map \in Seq(Positive),
           NEW max_size \in [1 .. Len(gdims) -> Positive], NEW d \in 1 .. Len(gdims),
           NEW s, ExpandedTo(gdims, map, max_size, d + 1, s)
    PROVE  ExpandedTo(gdims, map, max_size, d, Expanded(gdims, map, max_size, d, s))
  <1> DEFINE n == Len(gdims)
             c == FirstOf(Stops(map, max_size[d], s), max_size[d])
             x == Expanded(gdims, map, max_size, d, s)
  <1>1. n \in Nat /\ d \in 1 .. n /\ (d + 1) - 1 = d
    OBVIOUS
  <1>2. /\ s \in Expansions(n)
        /\ \A i \in 1 .. d : s.count[i] = 1
        /\ \A i \in 1 .. n : s.count[i] <= max_size[i]
        /\ s.size = Product(s.count)
        /\ Block(gdims, map, s.count)
        /\ ~s.done => s.stride = Weight(gdims, d)
    BY <1>1 DEF ExpandedTo
  <1>3. CASE s.done
    <2>1. x = s
      BY <1>3 DEF Expanded
    <2>2. \A i \in 1 .. d - 1 : s.count[i] = 1
      BY <1>1, <1>2
    <2> HIDE DEF x
    <2> QED BY <1>2, <1>3, <2>1, <2>2 DEF ExpandedTo, x
  <1>4. CASE ~s.done
    <2> DEFINE t == [s.count EXCEPT ![d] = c]
    <2>1. /\ x.size = s.size * c /\ x.stride = s.stride * gdims[d] /\ x.count = t
      BY <1>4 DEF Expanded
    <2>2. x \in Expansions(n)
      BY <1>2, ExpandedType
    <2>3. max_size[d] \in Positive /\ Stops(map, max_size[d], s) \in SUBSET (1 .. max_size[d])
      BY DEF Stops
    <2>4. c \in 1 .. max_size[d] /\ \A i \in 1 .. c - 1 : i \notin Stops(map, max_size[d], s)
      BY <2>3, FirstOfIs
    <2> HIDE DEF c, x
    <2>5. c \in Positive /\ c <= max_size[d]
      BY <2>3, <2>4 DEF Positive
    <2>6. \A i \in 1 .. c - 1 : Continues(map, Product(s.count), Weight(gdims, d), i)
      <3> TAKE i \in 1 .. c - 1
      <3>1. i \in 1 .. max_size[d]
        BY <2>3, <2>4 DEF Positive
      <3>2. Continues(map, s.size, s.stride, i)
        BY <2>4, <3>1 DEF Stops
      <3> QED BY <1>2, <1>4, <3>2
    <2>7. s.count \in Seq(Positive) /\ Len(s.count) = n /\ s.count \in [1 .. n -> Positive]
      <3>1. s.count \in [1 .. n -> Positive]
        BY <1>2 DEF Expansions
      <3> HIDE DEF n
      <3> QED BY <1>1, <3>1
    <2>8. Product(t) = s.size * c /\ Block(gdims, map, t)
      <3> DEFINE a == s.count
      <3>1. /\ a \in Seq(Positive) /\ Len(a) = Len(gdims) /\ Block(gdims, map, a)
            /\ \A i \in 1 .. d : a[i] = 1
            /\ \A i \in 1 .. c - 1 : Continues(map, Product(a), Weight(gdims, d), i)
        BY <1>2, <2>6, <2>7
      <3>2. /\ t \in Seq(Positive) /\ Len(t) = Len(gdims) /\ t[d] = c
            /\ \A i \in 1 .. Len(gdims) : i # d => t[i] = a[i]
        BY <2>5, <3>1
      <3> HIDE DEF a, n, t
      <3>3. Grows(gdims, map, a, d, c, t)
        BY <2>5, <3>1, <3>2 DEF Grows
      <3>4. Product(t) = Product(a) * c /\ Block(gdims, map, t)
        BY <3>3, BlockGrows
      <3> QED BY <1>2, <3>4 DEF a
    <2>9. t[d] = c /\ \A i \in 1 .. n : i # d => t[i] = s.count[i]
      BY <2>7
    <2> HIDE DEF t
    <2>10. \A i \in 1 .. d - 1 : t[i] = 1
      <3> TAKE i \in 1 .. d - 1
      <3>1. i \in 1 .. d /\ i \in 1 .. n /\ i # d
        BY <1>1
      <3> QED BY <1>2, <2>9, <3>1
    <2>11. \A i \in 1 .. n : t[i] <= max_size[i]
      <3> TAKE i \in 1 .. n
      <3>1. CASE i = d
        BY <2>5, <2>9, <3>1
      <3>2. CASE i # d
        BY <1>2, <2>9, <3>2
      <3> QED BY <3>1, <3>2
    <2>12. x.stride = Weight(gdims, d - 1)
      <3>1. Weight(gdims, d - 1) = gdims[d] * Weight(gdims, d) /\ Weight(gdims, d) \in Positive
        <4>1. d \in 1 .. Len(gdims) /\ d \in 0 .. Len(gdims)
          BY <1>1
        <4> QED BY <4>1, Weights
      <3>2. gdims[d] \in Positive
        OBVIOUS
      <3> DEFINE a == gdims[d]
                 b == Weight(gdims, d)
      <3>3. a \in Positive /\ b \in Positive
        BY <3>1, <3>2
      <3>4. x.stride = b * a
        BY <1>2, <1>4, <2>1
      <3> HIDE DEF a, b
      <3>5. b * a = a * b
        BY <3>3 DEF Positive
      <3> QED BY <3>1, <3>4, <3>5 DEF a, b
    <2>13. ExpandedTo(gdims, map, max_size, d, x)
      BY <2>1, <2>2, <2>8, <2>10, <2>11, <2>12 DEF ExpandedTo
    <2> QED BY <2>13 DEF x
  <1> QED BY <1>3, <1>4

(* expand_region: a box of at most the largest size, with whose elements   *)
(* the map starts.                                                         *)
LEMMA ExpandRegion ==
    ASSUME NEW gdims \in Seq(Positive), NEW map \in Seq(Positive), map # <<>>,
           NEW max_size \in [1 .. Len(gdims) -> Positive]
    PROVE  LET count_ == expand_region(gdims, map, max_size)
           IN  /\ count_ \in Seq(Positive) /\ Len(count_) = Len(gdims)
               /\ \A i \in 1 .. Len(gdims) : count_[i] <= max_size[i]
               /\ Block(gdims, map, count_)
  <1> DEFINE n == Len(gdims)
  <1>1. n \in Nat
    OBVIOUS
  <1>2. PICK e \in [1 .. n + 1 -> Expansions(n)] :
              /\ e[n + 1] = Unexpanded(n)
              /\ \A d \in 1 .. n : e[d] = Expanded(gdims, map, max_size, d, e[d + 1])
              /\ expand_region(gdims, map, max_size) = e[1].count
    BY ExpandIs
  <1> DEFINE S == {d \in 1 .. n + 1 : ExpandedTo(gdims, map, max_size, d, e[d])}
  <1>3. n + 1 \in S
    <2>1. n + 1 \in 1 .. n + 1
      BY <1>1
    <2>2. ExpandedTo(gdims, map, max_size, n + 1, Unexpanded(n))
      BY UnexpandedIs
    <2> QED BY <1>2, <2>1, <2>2
  <1>4. ASSUME NEW d \in 1 .. (n + 1) - 1, d + 1 \in S PROVE d \in S
    <2>1. d \in 1 .. n /\ d \in 1 .. n + 1
      BY <1>1
    <2>2. ExpandedTo(gdims, map, max_size, d + 1, e[d + 1])
      BY <1>4
    <2>3. ExpandedTo(gdims, map, max_size, d, Expanded(gdims, map, max_size, d, e[d + 1]))
      BY <2>1, <2>2, ExpandStep
    <2> QED BY <1>2, <2>1, <2>3
  <1>5. 1 \in S
    <2>1. 1 \in Nat /\ n + 1 \in Nat /\ 1 \in 1 .. n + 1
      BY <1>1
    <2> HIDE DEF S, n
    <2>2. 1 .. n + 1 \subseteq S
      BY <1>3, <1>4, <2>1, Downwards
    <2> QED BY <2>1, <2>2
  <1> DEFINE a == e[1].count
  <1>6. ExpandedTo(gdims, map, max_size, 1, e[1])
    BY <1>5
  <1>7. a \in [1 .. n -> Positive] /\ (\A i \in 1 .. n : a[i] <= max_size[i]) /\ Block(gdims, map, a)
    BY <1>6 DEF ExpandedTo, Expansions
  <1>8. expand_region(gdims, map, max_size) = a
    BY <1>2
  <1> HIDE DEF a
  <1>9. a \in Seq(Positive) /\ Len(a) = n
    <2> HIDE DEF n
    <2> QED BY <1>1, <1>7
  <1> QED BY <1>7, <1>8, <1>9

-----------------------------------------------------------------------------
(* get_regions *)

PartialTotals(s, f) ==
    /\ f \in [0 .. Len(s) -> Nat] /\ f[0] = 0
    /\ \A i \in 1 .. Len(s) : f[i] = f[i - 1] + s[i]

LEMMA SomeTotals == ASSUME NEW s \in Seq(Nat) PROVE \E f : PartialTotals(s, f)
  <1> DEFINE A == 0 .. Len(s)
             rank == [i \in A |-> i]
             stop == {0}
             pred == [i \in A |-> IF i = 0 THEN 0 ELSE i - 1]
             base == [i \in A |-> 0]
             next == [i \in A |-> [v \in Nat |-> IF i = 0 THEN 0 ELSE v + s[i]]]
  <1>1. Ranked(A, rank, stop, pred)
    BY DEF Ranked
  <1>2. base \in [A -> Nat] /\ next \in [A -> [Nat -> Nat]]
    OBVIOUS
  <1>3. PICK f \in [A -> Nat] : Solution(f, A, stop, base, pred, next)
    <2> HIDE DEF A, rank, stop, pred, base, next
    <2> QED BY <1>1, <1>2, LinearRecursion, Zenon
  <1>4. \A i \in A : f[i] = IF i \in stop THEN base[i] ELSE next[i][f[pred[i]]]
    BY <1>3, Zenon DEF Solution
  <1>5. f[0] = 0
    BY <1>4
  <1>6. ASSUME NEW i \in 1 .. Len(s) PROVE f[i] = f[i - 1] + s[i]
    <2>1. i \in A /\ i - 1 \in A /\ i # 0
      OBVIOUS
    <2>2. f[i] = next[i][f[pred[i]]] /\ pred[i] = i - 1
      BY <1>4, <2>1
    <2>3. f[i - 1] \in Nat
      BY <1>3, <2>1
    <2> QED BY <2>1, <2>2, <2>3
  <1> QED BY <1>3, <1>5, <1>6 DEF PartialTotals

LEMMA TotalIs == ASSUME NEW s \in Seq(Nat), NEW f, PartialTotals(s, f) PROVE Total(s) = f[Len(s)]
  <1> DEFINE Eq(g) == [i \in 0 .. Len(s) |-> IF i = 0 THEN 0 ELSE g[i - 1] + s[i]]
             g == CHOOSE g : g = Eq(g)
  <1>1. f = Eq(f)
    BY DEF PartialTotals
  <1>2. g = Eq(g)
    BY <1>1, Zenon
  <1>3. Total(s) = g[Len(s)]
    BY Zenon DEF Total
  <1>4. Len(s) \in Nat
    OBVIOUS
  <1> HIDE DEF g
  <1> DEFINE S == {i \in 0 .. Len(s) : g[i] = f[i]}
  <1>5. 0 \in S
    BY <1>2, <1>4 DEF PartialTotals
  <1>6. ASSUME NEW i \in 0 .. Len(s) - 1, i \in S PROVE i + 1 \in S
    <2>1. i + 1 \in 1 .. Len(s) /\ (i + 1) - 1 = i /\ i + 1 \in 0 .. Len(s) /\ i + 1 # 0
      BY <1>4
    <2>2. g[i + 1] = g[i] + s[i + 1]
      BY <1>2, <2>1
    <2>3. f[i + 1] = f[i] + s[i + 1]
      BY <2>1 DEF PartialTotals
    <2> QED BY <1>6, <2>1, <2>2, <2>3
  <1>7. 0 .. Len(s) \subseteq S
    <2> HIDE DEF S
    <2>1. 0 \in Nat
      OBVIOUS
    <2> QED BY <1>4, <1>5, <1>6, <2>1, Upwards
  <1> QED BY <1>3, <1>4, <1>7

Fronted(s, t) == Len(t) = Len(s) + 1 /\ \A i \in 1 .. Len(s) : t[i + 1] = s[i]

LEMMA TotalFront ==
    ASSUME NEW s \in Seq(Nat), NEW t \in Seq(Nat), Fronted(s, t)
    PROVE  Total(t) = t[1] + Total(s)
  <1>0. Len(t) = Len(s) + 1
    BY DEF Fronted
  <1>1. PICK f : PartialTotals(s, f)
    BY SomeTotals
  <1>2. PICK g : PartialTotals(t, g)
    BY SomeTotals
  <1>3. /\ f \in [0 .. Len(s) -> Nat] /\ f[0] = 0
        /\ \A i \in 1 .. Len(s) : f[i] = f[i - 1] + s[i]
    BY <1>1 DEF PartialTotals
  <1>4. /\ g \in [0 .. Len(t) -> Nat] /\ g[0] = 0
        /\ \A i \in 1 .. Len(t) : g[i] = g[i - 1] + t[i]
    BY <1>2 DEF PartialTotals
  <1>5. t[1] \in Nat /\ Len(s) \in Nat
    BY <1>0
  <1> DEFINE S == {i \in Nat : i <= Len(s) => g[i + 1] = t[1] + f[i]}
  <1>6. 0 \in S
    <2>1. g[1] = 0 + t[1]
      BY <1>0, <1>4, <1>5
    <2> QED BY <1>3, <1>5, <2>1
  <1>7. ASSUME NEW i \in Nat, i \in S PROVE i + 1 \in S
    <2> SUFFICES ASSUME i + 1 <= Len(s) PROVE g[i + 1 + 1] = t[1] + f[i + 1]
      OBVIOUS
    <2>1. g[i + 1 + 1] = g[i + 1] + t[i + 1 + 1]
      <3>1. i + 1 + 1 \in 1 .. Len(t) /\ (i + 1 + 1) - 1 = i + 1
        BY <1>0, <1>5
      <3> QED BY <1>4, <3>1
    <2>2. f[i + 1] = f[i] + s[i + 1] /\ t[i + 1 + 1] = s[i + 1]
      <3>1. i + 1 \in 1 .. Len(s) /\ (i + 1) - 1 = i
        BY <1>5
      <3> QED BY <1>3, <3>1 DEF Fronted
    <2>3. g[i + 1] = t[1] + f[i]
      BY <1>7
    <2>4. f[i] \in Int /\ s[i + 1] \in Int /\ t[1] \in Int
      <3>1. i \in 0 .. Len(s) /\ i + 1 \in 1 .. Len(s)
        BY <1>5
      <3>2. f \in [0 .. Len(s) -> Nat] /\ s \in [1 .. Len(s) -> Nat]
        BY <1>3
      <3>3. f[i] \in Nat /\ s[i + 1] \in Nat
        BY <3>1, <3>2, Zenon
      <3>4. Nat \subseteq Int
        OBVIOUS
      <3> QED BY <1>5, <3>3, <3>4, Zenon
    <2>5. (t[1] + f[i]) + s[i + 1] = t[1] + (f[i] + s[i + 1])
      <3>1. \A x, y, z \in Int : (x + y) + z = x + (y + z)
        OBVIOUS
      <3> QED BY <2>4, <3>1, Zenon
    <2> QED BY <2>1, <2>2, <2>3, <2>5
  <1>8. Nat \subseteq S
    <2> HIDE DEF S
    <2> QED BY <1>6, <1>7, NatSetInduction
  <1>9. g[Len(t)] = t[1] + f[Len(s)]
    BY <1>0, <1>5, <1>8
  <1> QED BY <1>1, <1>2, <1>9, TotalIs

LEMMA TotalEmpty == ASSUME NEW s \in Seq(Nat), Len(s) = 0 PROVE Total(s) = 0
  <1>1. PICK f : PartialTotals(s, f)
    BY SomeTotals
  <1> QED BY <1>1, TotalIs DEF PartialTotals

(* The region at n: its elements are those of the map from n on. *)
RegionAt(gdims, map, n) ==
    [start   |-> find_region(gdims, SubSeq(map, n + 1, Len(map))).start,
     count   |-> find_region(gdims, SubSeq(map, n + 1, Len(map))).count,
     loffset |-> n]
RightRegion(gdims, map, n, r) ==
    /\ r.loffset = n
    /\ r.count \in Seq(Positive) /\ Len(r.count) = Len(gdims)
    /\ \A d \in 1 .. Len(gdims) : r.start[d] + r.count[d] <= gdims[d]
    /\ n + Product(r.count) <= Len(map)
    /\ \A j \in 1 .. Product(r.count) : map[n + j] = RegionElements(gdims, r.start, r.count)[j] + 1

MapInto(gdims, map) == map \in Seq(1 .. Product(gdims))

LEMMA FoundRegion ==
    ASSUME NEW gdims \in Seq(Positive), NEW map, MapInto(gdims, map), NEW n \in 0 .. Len(map) - 1
    PROVE  RightRegion(gdims, map, n, RegionAt(gdims, map, n))
  <1> DEFINE m == SubSeq(map, n + 1, Len(map))
             a == idx_to_dim_list(gdims, m[1] - 1)
             max == [i \in DOMAIN gdims |-> gdims[i] - a[i]]
             c == expand_region(gdims, m, max)
  <1>1. Product(gdims) \in Nat /\ Product(gdims) >= 1 /\ Len(map) \in Nat
    <2>1. Product(gdims) \in Positive
      BY ProductPositive
    <2> DEFINE V == 1 .. Product(gdims)
    <2>2. map \in Seq(V)
      BY DEF MapInto
    <2> HIDE DEF V
    <2>3. Len(map) \in Nat
      BY <2>2
    <2> QED BY <2>1, <2>3 DEF Positive
  <1>2. m \in Seq(1 .. Product(gdims)) /\ Len(m) = Len(map) - n /\ \A k \in 1 .. Len(map) - n : m[k] = map[n + k]
    <2> DEFINE V == 1 .. Product(gdims)
    <2>1. map \in Seq(V)
      BY DEF MapInto
    <2> HIDE DEF V
    <2>2. m \in Seq(V) /\ Len(m) = Len(map) - n /\ \A k \in 1 .. Len(map) - n : m[k] = map[n + k]
      BY <1>1, <2>1
    <2> QED BY <2>2 DEF V
  <1> HIDE DEF m
  <1>3. m[1] \in 1 .. Product(gdims) /\ m # <<>> /\ m \in Seq(Positive) /\ m[1] - 1 \in 0 .. Product(gdims) - 1
    <2>1. 1 \in 1 .. Len(m)
      BY <1>1, <1>2
    <2> DEFINE V == 1 .. Product(gdims)
    <2>2. V \subseteq Positive /\ m \in Seq(V)
      <3>1. V \subseteq Positive
        BY <1>1 DEF Positive
      <3>2. m \in Seq(V)
        BY <1>2
      <3> QED BY <3>1, <3>2
    <2> HIDE DEF V
    <2>3. m[1] \in V /\ m # <<>> /\ m \in Seq(Positive)
      BY <2>1, <2>2
    <2> DEFINE x == m[1]
    <2>4. x \in 1 .. Product(gdims)
      BY <2>3 DEF V
    <2> HIDE DEF x
    <2>5. x - 1 \in 0 .. Product(gdims) - 1
      BY <1>1, <2>4
    <2> QED BY <2>3, <2>4, <2>5 DEF x
  <1>4. InRange(gdims, a) /\ coord_to_lindex(a, gdims) = m[1] - 1
    BY <1>3, CoordinatesOfIndex
  <1> HIDE DEF a
  <1>5. a \in [1 .. Len(gdims) -> Nat] /\ \A i \in 1 .. Len(gdims) : a[i] < gdims[i]
    BY <1>4 DEF InRange
  <1>6. max \in [1 .. Len(gdims) -> Positive] /\ \A i \in 1 .. Len(gdims) : max[i] = gdims[i] - a[i]
    <2>1. DOMAIN gdims = 1 .. Len(gdims)
      OBVIOUS
    <2>2. ASSUME NEW i \in 1 .. Len(gdims) PROVE gdims[i] - a[i] \in Positive
      <3>1. gdims[i] \in Positive
        OBVIOUS
      <3> QED BY <1>5, <3>1, SMTT(30) DEF Positive
    <2> QED BY <2>1, <2>2
  <1> HIDE DEF max
  <1>7. /\ c \in Seq(Positive) /\ Len(c) = Len(gdims)
        /\ \A i \in 1 .. Len(gdims) : c[i] <= max[i]
        /\ Block(gdims, m, c)
    BY <1>3, <1>6, ExpandRegion
  <1>8. RegionAt(gdims, map, n) = [start |-> a, count |-> c, loffset |-> n]
    BY DEF RegionAt, find_region, m, a, max
  <1> HIDE DEF c
  <1>9. ASSUME NEW d \in 1 .. Len(gdims) PROVE a[d] + c[d] <= gdims[d]
    <2>1. gdims[d] \in Positive /\ c[d] \in Positive /\ a[d] \in Nat /\ c[d] <= gdims[d] - a[d]
      BY <1>5, <1>6, <1>7
    <2>2. \A x, y, z \in Int : y <= z - x => x + y <= z
      OBVIOUS
    <2>3. gdims[d] \in Int /\ c[d] \in Int /\ a[d] \in Int
      BY <2>1 DEF Positive
    <2> QED BY <2>1, <2>2, <2>3, Zenon
  <1>10. Product(c) \in Positive /\ Product(c) <= Len(m)
    BY <1>7, ProductPositive DEF Block
  <1>11. ASSUME NEW j \in 1 .. Product(c)
         PROVE  map[n + j] = RegionElements(gdims, a, c)[j] + 1
    <2> DEFINE u == idx_to_dim_list(c, j - 1)
               v == [i \in DOMAIN gdims |-> a[i] + u[i]]
    <2>1. InRange(c, u)
      <3>1. j - 1 \in 0 .. Product(c) - 1
        BY <1>10 DEF Positive
      <3> QED BY <1>7, <3>1, CoordinatesOfIndex
    <2>2. RegionElements(gdims, a, c)[j] = coord_to_lindex(v, gdims)
      BY Zenon DEF RegionElements
    <2>3. m[j] = m[1] + coord_to_lindex(u, gdims)
      BY <1>7 DEF Block
    <2> HIDE DEF u
    <2>4. u \in [1 .. Len(gdims) -> Nat]
      BY <1>7, <2>1 DEF InRange
    <2>5. v \in [1 .. Len(gdims) -> Nat] /\ \A i \in 1 .. Len(gdims) : v[i] = a[i] + u[i]
      <3>1. DOMAIN gdims = 1 .. Len(gdims)
        OBVIOUS
      <3> QED BY <1>5, <2>4, <3>1
    <2> HIDE DEF v
    <2>6. coord_to_lindex(v, gdims) = coord_to_lindex(a, gdims) + coord_to_lindex(u, gdims)
      BY <1>5, <2>4, <2>5, IndexAdds
    <2>7. coord_to_lindex(u, gdims) \in Nat
      BY <2>4, IndexNat
    <2>8. map[n + j] = m[j]
      BY <1>1, <1>2, <1>10 DEF Positive
    <2>9. m[1] \in Int
      BY <1>3
    <2>10. \A x, y \in Int : x + y = ((x - 1) + y) + 1
      OBVIOUS
    <2>11. coord_to_lindex(u, gdims) \in Int
      BY <2>7
    <2>12. map[n + j] = ((m[1] - 1) + coord_to_lindex(u, gdims)) + 1
      BY <2>3, <2>8, <2>9, <2>10, <2>11, Zenon
    <2> QED BY <1>4, <2>2, <2>6, <2>12, Zenon
  <1>12. n + Product(c) <= Len(map)
    BY <1>1, <1>2, <1>10 DEF Positive
  <1> DEFINE r == [start |-> a, count |-> c, loffset |-> n]
  <1>13. RightRegion(gdims, map, n, r)
    BY <1>7, <1>9, <1>11, <1>12 DEF RightRegion
  <1> HIDE DEF r
  <1> QED BY <1>8, <1>13 DEF r

(* The regions from n on, one after the other. *)
RegionSet(gdims, map) == {RegionAt(gdims, map, n) : n \in 0 .. Len(map) - 1}
SizeAt(gdims, map, n) == Product(find_region(gdims, SubSeq(map, n + 1, Len(map))).count)
Counts(q) == [k \in DOMAIN q |-> Product(q[k].count)]
RegionsFrom(gdims, map, n, q) ==
    /\ q \in Seq(RegionSet(gdims, map))
    /\ Counts(q) \in Seq(Nat)
    /\ Total(Counts(q)) = Len(map) - n

LEMMA SizeOfRegion ==
    ASSUME NEW gdims \in Seq(Positive), NEW map, MapInto(gdims, map), Len(map) \in Nat, NEW n \in 0 .. Len(map) - 1
    PROVE  /\ SizeAt(gdims, map, n) \in Nat /\ n + SizeAt(gdims, map, n) \in n + 1 .. Len(map)
           /\ RegionAt(gdims, map, n) \in RegionSet(gdims, map)
           /\ Product(RegionAt(gdims, map, n).count) = SizeAt(gdims, map, n)
  <1> DEFINE r == RegionAt(gdims, map, n)
             z == Product(r.count)
  <1>1. r.count \in Seq(Positive) /\ n + z <= Len(map)
    BY FoundRegion DEF RightRegion
  <1>2. SizeAt(gdims, map, n) = z
    BY DEF SizeAt, RegionAt
  <1>3. z \in Positive
    BY <1>1, ProductPositive
  <1>4. r \in RegionSet(gdims, map)
    BY Zenon DEF RegionSet
  <1> HIDE DEF z
  <1>5. n \in Nat
    OBVIOUS
  <1>6. z \in Nat /\ n + z \in n + 1 .. Len(map)
    BY <1>1, <1>3, <1>5 DEF Positive
  <1> QED BY <1>2, <1>4, <1>6 DEF z

LEMMA RegionsFromEnd ==
    ASSUME NEW gdims, NEW map, Len(map) \in Nat
    PROVE  RegionsFrom(gdims, map, Len(map), <<>>)
  <1>1. Counts(<<>>) = <<>>
    BY DEF Counts
  <1>2. <<>> \in Seq(RegionSet(gdims, map)) /\ <<>> \in Seq(Nat) /\ Len(<<>>) = 0
    OBVIOUS
  <1>3. Total(<<>>) = 0
    BY <1>2, TotalEmpty
  <1>4. Len(map) - Len(map) = 0
    OBVIOUS
  <1> QED BY <1>1, <1>2, <1>3, <1>4 DEF RegionsFrom

LEMMA RegionsFromHere ==
    ASSUME NEW gdims, NEW map, Len(map) \in Nat, NEW n \in Nat, NEW r \in RegionSet(gdims, map),
           Product(r.count) \in Nat, NEW q, RegionsFrom(gdims, map, n + Product(r.count), q)
    PROVE  RegionsFrom(gdims, map, n, <<r>> \o q)
  <1> DEFINE R == RegionSet(gdims, map)
             p == <<r>> \o q
             z == Product(r.count)
             s == Counts(q)
             t == Counts(p)
  <1>1. q \in Seq(R) /\ s \in Seq(Nat) /\ Total(s) = Len(map) - (n + z)
    BY DEF RegionsFrom
  <1> HIDE DEF R
  <1>2. p \in Seq(R) /\ Len(p) = Len(q) + 1 /\ p[1] = r /\ (\A k \in 1 .. Len(q) : p[k + 1] = q[k]) /\ Len(q) \in Nat
    BY <1>1 DEF R
  <1> HIDE DEF p
  <1>3. DOMAIN p = 1 .. Len(q) + 1 /\ DOMAIN q = 1 .. Len(q)
    BY <1>1, <1>2
  <1>4. t[1] = z /\ DOMAIN t = 1 .. Len(q) + 1
    BY <1>2, <1>3 DEF Counts
  <1>5. DOMAIN s = 1 .. Len(q) /\ \A k \in 1 .. Len(q) : s[k] = Product(q[k].count) /\ t[k + 1] = s[k]
    <2>1. ASSUME NEW k \in 1 .. Len(q) PROVE s[k] = Product(q[k].count) /\ t[k + 1] = s[k]
      <3>1. k \in DOMAIN q /\ k + 1 \in DOMAIN p /\ p[k + 1] = q[k]
        BY <1>2, <1>3
      <3> QED BY <3>1 DEF Counts
    <2> QED BY <1>3, <2>1 DEF Counts
  <1> HIDE DEF s, t, z
  <1>6. Len(s) = Len(q)
    BY <1>1, <1>2, <1>5
  <1>7. t \in Seq(Nat) /\ Len(t) = Len(s) + 1
    <2>1. \A k \in 1 .. Len(q) + 1 : t[k] \in Nat
      <3> TAKE k \in 1 .. Len(q) + 1
      <3>1. CASE k = 1
        BY <1>4, <3>1 DEF z
      <3>2. CASE k # 1
        <4> DEFINE j == k - 1
        <4>1. j \in 1 .. Len(q) /\ k = j + 1
          BY <1>2, <3>2
        <4> HIDE DEF j
        <4>2. s[j] \in Nat /\ t[k] = s[j]
          BY <1>1, <1>5, <1>6, <4>1
        <4> QED BY <4>2
      <3> QED BY <3>1, <3>2
    <2>2. t = [k \in 1 .. Len(q) + 1 |-> t[k]]
      BY <1>4 DEF Counts, t
    <2>3. Len(q) + 1 \in Nat
      BY <1>2
    <2> QED BY <1>6, <2>1, <2>2, <2>3
  <1>8. Fronted(s, t)
    BY <1>5, <1>6, <1>7 DEF Fronted
  <1>9. Total(t) = z + Total(s)
    BY <1>1, <1>4, <1>7, <1>8, TotalFront
  <1>10. Total(t) = Len(map) - n
    <2>1. z \in Nat
      BY DEF z
    <2>2. \A x, y, l \in Int : x + (l - (y + x)) = l - y
      OBVIOUS
    <2>3. z \in Int /\ n \in Int /\ Len(map) \in Int
      BY <2>1
    <2>4. z + (Len(map) - (n + z)) = Len(map) - n
      BY <2>2, <2>3, Zenon
    <2> QED BY <1>1, <1>9, <2>4
  <1> QED BY <1>2, <1>7, <1>10 DEF RegionsFrom, R, p, t

LEMMA GetRegions ==
    ASSUME NEW gdims \in Seq(Positive), NEW map, MapInto(gdims, map), Len(map) \in Nat
    PROVE  RegionsFrom(gdims, map, 0, get_regions(gdims, map))
  <1> DEFINE l == Len(map)
             A == 0 .. l
             R == RegionSet(gdims, map)
             at(n) == RegionAt(gdims, map, n)
             size(n) == SizeAt(gdims, map, n)
             rank == [n \in A |-> l - n]
             stop == {l}
             pred == [n \in A |-> IF n = l THEN n ELSE n + size(n)]
             base == [n \in A |-> <<>>]
             next == [n \in A |-> [v \in Seq(R) |-> IF n = l THEN <<>> ELSE <<at(n)>> \o v]]
  <1>1. ASSUME NEW n \in A, n # l
        PROVE  /\ size(n) \in Nat /\ n + size(n) \in n + 1 .. l /\ at(n) \in R /\ Product(at(n).count) = size(n)
               /\ n \in 0 .. l - 1
    <2>1. n \in 0 .. l - 1
      BY <1>1
    <2> QED BY <2>1, SizeOfRegion
  <1> HIDE DEF R, at, size, l
  <1>2. l \in Nat
    BY DEF l
  <1>3. Ranked(A, rank, stop, pred)
    <2>1. ASSUME NEW n \in A PROVE rank[n] \in Nat /\ pred[n] \in A /\ (n \notin stop => rank[pred[n]] < rank[n])
      <3>1. CASE n = l
        BY <1>2, <3>1
      <3>2. CASE n # l
        <4> DEFINE m == n + size(n)
        <4>1. m \in n + 1 .. l
          BY <1>1, <3>2
        <4> HIDE DEF m
        <4>2. m \in A /\ l - m < l - n /\ l - n \in Nat
          BY <1>2, <4>1
        <4> QED BY <3>2, <4>2 DEF m
      <3> QED BY <3>1, <3>2
    <2> HIDE DEF rank, pred, stop, A
    <2>2. rank = [n \in A |-> rank[n]] /\ pred = [n \in A |-> pred[n]]
      BY DEF rank, pred
    <2> QED BY <2>1, <2>2 DEF Ranked
  <1>4. base \in [A -> Seq(R)] /\ next \in [A -> [Seq(R) -> Seq(R)]]
    <2>1. \A n \in A, v \in Seq(R) : (IF n = l THEN <<>> ELSE <<at(n)>> \o v) \in Seq(R)
      <3> TAKE n \in A, v \in Seq(R)
      <3>1. CASE n = l
        BY <3>1
      <3>2. CASE n # l
        <4>1. at(n) \in R
          BY <1>1, <3>2
        <4>2. <<at(n)>> \o v \in Seq(R)
          BY <4>1
        <4> QED BY <3>2, <4>2
      <3> QED BY <3>1, <3>2
    <2> HIDE DEF A
    <2> QED BY <2>1
  <1>5. PICK f \in [A -> Seq(R)] : Solution(f, A, stop, base, pred, next)
    <2> HIDE DEF A, rank, stop, pred, base, next
    <2> QED BY <1>3, <1>4, LinearRecursion, Zenon
  <1>6. \A n \in A : f[n] = IF n \in stop THEN base[n] ELSE next[n][f[pred[n]]]
    BY <1>5, Zenon DEF Solution
  <1> DEFINE Eq(e) == [n \in A |-> IF n = l THEN <<>> ELSE <<at(n)>> \o e[n + size(n)]]
             e == CHOOSE e : e = Eq(e)
  <1>7. f = Eq(f)
    <2>1. ASSUME NEW n \in A PROVE f[n] = IF n = l THEN <<>> ELSE <<at(n)>> \o f[n + size(n)]
      <3>1. CASE n = l
        BY <1>6, <3>1
      <3>2. CASE n # l
        <4>1. n \notin stop /\ pred[n] = n + size(n)
          BY <3>2
        <4>2. n + size(n) \in A
          BY <1>1, <1>2, <3>2
        <4>3. f[n] = next[n][f[n + size(n)]]
          <5> HIDE DEF A, stop, base, next
          <5> QED BY <1>6, <4>1
        <4>4. f[n + size(n)] \in Seq(R)
          BY <1>5, <4>2
        <4> QED BY <3>2, <4>3, <4>4
      <3> QED BY <3>1, <3>2
    <2> HIDE DEF A
    <2> QED BY <1>5, <2>1
  <1>8. e = Eq(e)
    BY <1>7, Zenon
  <1>9. get_regions(gdims, map) = e[0]
    BY Zenon DEF get_regions, at, size, RegionAt, SizeAt, l
  <1> HIDE DEF e
  <1> DEFINE S == {n \in A : RegionsFrom(gdims, map, n, e[n])}
  <1>10. Inherited(S, A, stop, pred)
    <2> SUFFICES ASSUME NEW n \in A, n \in stop \/ pred[n] \in S
                 PROVE  RegionsFrom(gdims, map, n, e[n])
      BY DEF Inherited
    <2>1. CASE n = l
      <3>1. e[n] = <<>>
        BY <1>8, <2>1
      <3> QED BY <2>1, <3>1, RegionsFromEnd DEF l
    <2>2. CASE n # l
      <3>1. n + size(n) \in S
        BY <2>2
      <3>2. e[n] = <<at(n)>> \o e[n + size(n)]
        BY <1>8, <2>2
      <3>3. size(n) \in Nat /\ at(n) \in R /\ Product(at(n).count) = size(n) /\ n \in Nat
        BY <1>1, <2>2
      <3> DEFINE r == at(n)
                 q == e[n + size(n)]
      <3>4. RegionsFrom(gdims, map, n + Product(r.count), q) /\ Product(r.count) \in Nat /\ r \in RegionSet(gdims, map)
        BY <3>1, <3>3 DEF R
      <3> HIDE DEF r, q
      <3>5. RegionsFrom(gdims, map, n, <<r>> \o q)
        BY <3>3, <3>4, RegionsFromHere
      <3> QED BY <3>2, <3>5 DEF r, q
    <2> QED BY <2>1, <2>2
  <1>11. A \subseteq S
    <2> HIDE DEF A, rank, stop, pred, S
    <2> QED BY <1>3, <1>10, RankInduction, Zenon
  <1>12. 0 \in S
    BY <1>2, <1>11
  <1> QED BY <1>9, <1>12

-----------------------------------------------------------------------------
(* The regions of a map *)

(* get_regions: for every shape and every map into the array, the regions  *)
(* are inside the array and hold, one after the other, the elements of the *)
(* map in its order, all of them and no others.                            *)
THEOREM RegionsCover ==
    ASSUME NEW gdims \in Seq(Positive), NEW map \in Seq(1 .. Product(gdims))
    PROVE  Cover(gdims, map, get_regions(gdims, map))
  <1> DEFINE q == get_regions(gdims, map)
             elements(n) == RegionElements(gdims, q[n].start, q[n].count)
  <1>1. MapInto(gdims, map)
    BY DEF MapInto
  <1>2. Len(map) \in Nat
    <2> DEFINE V == 1 .. Product(gdims)
    <2>1. map \in Seq(V)
      OBVIOUS
    <2> HIDE DEF V
    <2> QED BY <2>1
  <1>3. RegionsFrom(gdims, map, 0, q)
    BY <1>1, <1>2, GetRegions
  <1> HIDE DEF q
  <1>4. DOMAIN gdims = 1 .. Len(gdims)
    OBVIOUS
  <1>5. ASSUME NEW n \in DOMAIN q
        PROVE  RightRegion(gdims, map, q[n].loffset, q[n])
    <2>1. q[n] \in RegionSet(gdims, map)
      <3> DEFINE R == RegionSet(gdims, map)
      <3>1. q \in Seq(R)
        BY <1>3 DEF RegionsFrom
      <3> HIDE DEF R
      <3>2. q[n] \in R
        BY <3>1, <1>5
      <3> QED BY <3>2 DEF R
    <2>2. PICK m \in 0 .. Len(map) - 1 : q[n] = RegionAt(gdims, map, m)
      BY <2>1 DEF RegionSet
    <2>3. RightRegion(gdims, map, m, q[n])
      <3>1. RightRegion(gdims, map, m, RegionAt(gdims, map, m))
        BY <1>1, FoundRegion
      <3> QED BY <2>2, <3>1
    <2> QED BY <2>3 DEF RightRegion
  <1>6. \A n \in DOMAIN q : \A d \in DOMAIN gdims : q[n].start[d] + q[n].count[d] <= gdims[d]
    BY <1>4, <1>5 DEF RightRegion
  <1>7. ASSUME NEW n \in DOMAIN q, NEW j \in DOMAIN elements(n)
        PROVE  map[q[n].loffset + j] = elements(n)[j] + 1
    <2>1. j \in 1 .. Product(q[n].count)
      BY DEF RegionElements
    <2> QED BY <1>5, <2>1 DEF RightRegion
  <1>8. Total([n \in DOMAIN q |-> Product(q[n].count)]) = Len(map)
    <2>1. Total(Counts(q)) = Len(map) - 0
      BY <1>3 DEF RegionsFrom
    <2>2. Len(map) - 0 = Len(map)
      BY <1>2
    <2> QED BY <2>1, <2>2 DEF Counts
  <1>9. Cover(gdims, map, q)
    <2> HIDE DEF elements
    <2>1. \A n \in DOMAIN q : \A j \in DOMAIN elements(n) : map[q[n].loffset + j] = elements(n)[j] + 1
      BY <1>7
    <2> QED BY <1>6, <1>8, <2>1, Zenon DEF Cover, elements
  <1> QED BY <1>9 DEF q

LEMMA AscendingInto ==
    ASSUME NEW p \in Nat, NEW S \in SUBSET (1 .. p)
    PROVE  Ascending(S, p) \in Seq(1 .. p)
  <1> DEFINE V == 1 .. p
             A == 0 .. p
             rank == [k \in A |-> k]
             stop == {0}
             pred == [k \in A |-> IF k = 0 THEN 0 ELSE k - 1]
             base == [k \in A |-> <<>>]
             next == [k \in A |-> [v \in Seq(V) |-> IF k = 0 THEN <<>> ELSE IF k \in S THEN Append(v, k) ELSE v]]
  <1>1. Ranked(A, rank, stop, pred)
    BY DEF Ranked
  <1>2. base \in [A -> Seq(V)] /\ next \in [A -> [Seq(V) -> Seq(V)]]
    <2>1. S \subseteq V
      OBVIOUS
    <2> HIDE DEF V
    <2>2. \A k \in A, v \in Seq(V) : (IF k = 0 THEN <<>> ELSE IF k \in S THEN Append(v, k) ELSE v) \in Seq(V)
      BY <2>1
    <2> HIDE DEF A
    <2> QED BY <2>2
  <1>3. PICK f \in [A -> Seq(V)] : Solution(f, A, stop, base, pred, next)
    <2> HIDE DEF A, rank, stop, pred, base, next
    <2> QED BY <1>1, <1>2, LinearRecursion, Zenon
  <1>4. \A k \in A : f[k] = IF k \in stop THEN base[k] ELSE next[k][f[pred[k]]]
    BY <1>3, Zenon DEF Solution
  <1> DEFINE Eq(e) == [k \in 0 .. p |-> IF k = 0 THEN <<>> ELSE IF k \in S THEN Append(e[k - 1], k) ELSE e[k - 1]]
             e == CHOOSE e : e = Eq(e)
  <1>5. f = Eq(f)
    <2> HIDE DEF V
    <2>1. ASSUME NEW k \in A
          PROVE  f[k] = IF k = 0 THEN <<>> ELSE IF k \in S THEN Append(f[k - 1], k) ELSE f[k - 1]
      <3>1. CASE k = 0
        BY <1>4, <3>1
      <3>2. CASE k # 0
        <4>1. k \notin stop /\ pred[k] = k - 1 /\ k - 1 \in A
          BY <3>2
        <4>2. f[k] = next[k][f[k - 1]]
          <5> HIDE DEF A, stop, base, next
          <5> QED BY <1>4, <4>1
        <4>3. f[k - 1] \in Seq(V)
          BY <1>3, <4>1
        <4> QED BY <3>2, <4>2, <4>3
      <3> QED BY <3>1, <3>2
    <2> QED BY <1>3, <2>1
  <1>6. e = Eq(e)
    BY <1>5, Zenon
  <1>7. Ascending(S, p) = e[p]
    BY Zenon DEF Ascending
  <1> HIDE DEF e, V
  <1> DEFINE T == {k \in 0 .. p : e[k] \in Seq(V)}
  <1>8. 0 \in T
    BY <1>6
  <1>9. ASSUME NEW k \in 0 .. p - 1, k \in T PROVE k + 1 \in T
    <2>1. k + 1 \in 0 .. p /\ k + 1 # 0 /\ (k + 1) - 1 = k /\ S \subseteq V
      BY DEF V
    <2>2. e[k + 1] = IF k + 1 \in S THEN Append(e[k], k + 1) ELSE e[k]
      BY <1>6, <2>1
    <2>3. e[k] \in Seq(V)
      BY <1>9
    <2>4. e[k + 1] \in Seq(V)
      <3>1. CASE k + 1 \in S
        <4> DEFINE v == e[k]
                   j == k + 1
        <4>1. j \in V /\ v \in Seq(V) /\ e[k + 1] = Append(v, j)
          BY <2>1, <2>2, <2>3, <3>1
        <4> HIDE DEF v, j
        <4>2. Append(v, j) \in Seq(V)
          BY <4>1
        <4> QED BY <4>1, <4>2
      <3>2. CASE k + 1 \notin S
        BY <2>2, <2>3, <3>2
      <3> QED BY <3>1, <3>2
    <2> QED BY <2>1, <2>4
  <1>10. 0 .. p \subseteq T
    <2> HIDE DEF T
    <2>1. 0 \in Nat
      OBVIOUS
    <2> QED BY <1>8, <1>9, <2>1, Upwards
  <1> QED BY <1>7, <1>10 DEF V

(* Checked for two shapes by the run of the rearrangers, and here because  *)
(* it is so for every shape.                                               *)
THEOREM AlwaysRegionsExact == Spec => []RegionsExact
  <1>1. RegionsExact
    <2> SUFFICES ASSUME NEW shape \in RegionShapes, NEW S \in (SUBSET (1 .. Product(shape))) \ {{}}
                 PROVE  Cover(shape, Ascending(S, Product(shape)), get_regions(shape, Ascending(S, Product(shape))))
      BY Zenon DEF RegionsExact
    <2>1. shape \in Seq(Positive)
      <3>1. 3 \in Positive /\ 2 \in Positive
        BY DEF Positive
      <3>2. <<3, 3>> \in Seq(Positive) /\ <<2, 2, 2>> \in Seq(Positive)
        BY <3>1
      <3>3. shape = <<3, 3>> \/ shape = <<2, 2, 2>>
        BY DEF RegionShapes
      <3> QED BY <3>2, <3>3
    <2>2. Product(shape) \in Nat
      BY <2>1, ProductPositive DEF Positive
    <2> DEFINE map == Ascending(S, Product(shape))
    <2>3. map \in Seq(1 .. Product(shape))
      <3> DEFINE p == Product(shape)
      <3>1. p \in Nat /\ S \in SUBSET (1 .. p)
        BY <2>2
      <3> HIDE DEF p
      <3>2. Ascending(S, p) \in Seq(1 .. p)
        BY <3>1, AscendingInto
      <3> QED BY <3>2 DEF p
    <2> HIDE DEF map
    <2>4. Cover(shape, map, get_regions(shape, map))
      BY <2>1, <2>3, RegionsCover
    <2> QED BY <2>4 DEF map
  <1> QED BY <1>1, PTL

=============================================================================
