----------------------------- MODULE SwapmProofs -----------------------------
(***************************************************************************)
(* Proofs about SwapSchedule and Swapm, for every number of tasks, traffic *)
(* matrix, flow control option and buffering behaviour of MPI.             *)
(***************************************************************************)
EXTENDS MCSwapm, Recursion

-----------------------------------------------------------------------------
(***************************************************************************)
(* The schedule of rounds.  First the exclusive or, by halving.            *)
(***************************************************************************)

LEMMA Halves ==
  \A a \in Nat : /\ a \div 2 \in Nat /\ a % 2 \in {0, 1} /\ a = 2 * (a \div 2) + (a % 2)
                 /\ a > 0 => a \div 2 < a
  BY Z3

\* Xor is defined by a recursive equation; this is what it says.
LEMMA XorEquation ==
  \A a, b \in Nat :
    /\ Xor[a][b] \in Nat
    /\ Xor[a][b] = IF a = 0 THEN b ELSE IF b = 0 THEN a
                   ELSE 2 * Xor[a \div 2][b \div 2] + ((a + b) % 2)
<1>. DEFINE V == [Nat -> Nat]
            rank == [a \in Nat |-> a]
            pred == [a \in Nat |-> a \div 2]
            base == [a \in Nat |-> [b \in Nat |-> b]]
            step == [a \in Nat |-> [g \in V |-> [b \in Nat |->
                       IF b = 0 THEN a ELSE 2 * g[b \div 2] + ((a + b) % 2)]]]
            Eq(f) == [a \in Nat |-> [b \in Nat |->
                       IF a = 0 THEN b ELSE IF b = 0 THEN a
                       ELSE 2 * f[a \div 2][b \div 2] + ((a + b) % 2)]]
<1>1. Ranked(Nat, rank, {0}, pred)
  BY Halves DEF Ranked
<1>2. base \in [Nat -> V]
  OBVIOUS
<1>3. step \in [Nat -> [V -> V]]
  <2>1. ASSUME NEW a \in Nat, NEW g \in V PROVE step[a][g] \in V
    BY Halves
  <2>2. \A a \in Nat : step[a] = [g \in V |-> step[a][g]]
    OBVIOUS
  <2>. HIDE DEF V
  <2>3. \A a \in Nat : step[a] \in [V -> V]
    BY <2>1, <2>2
  <2>. QED
    BY <2>3
<1>4. PICK f \in [Nat -> V] : Solution(f, Nat, {0}, base, pred, step)
  <2>. HIDE DEF V, rank, pred, base, step
  <2>. QED
    BY <1>1, <1>2, <1>3, LinearRecursion, Zenon
<1>5. f = Eq(f)
  <2>1. ASSUME NEW a \in Nat PROVE f[a] = Eq(f)[a]
    <3>1. f[a] = IF a = 0 THEN base[a] ELSE step[a][f[a \div 2]]
      BY <1>4 DEF Solution
    <3>2. f[a \div 2] \in V
      BY Halves
    <3>. QED
      BY <3>1, <3>2
  <2>. QED
    BY <2>1
<1>6. Xor = Eq(Xor)
  BY <1>5, Zenon DEF Xor
<1>7. \A a \in Nat : Xor[a] = Eq(Xor)[a]
  BY <1>6
<1>8. Nat \subseteq {a \in Nat : Xor[a] \in [Nat -> Nat]}
  <2>. DEFINE S == {a \in Nat : Xor[a] \in [Nat -> Nat]}
  <2>1. ASSUME NEW a \in Nat, a \in {0} \/ pred[a] \in S PROVE a \in S
    <3>1. Xor[a] = [b \in Nat |-> Eq(Xor)[a][b]]
      BY <1>7
    <3>2. a = 0 \/ Xor[a \div 2] \in [Nat -> Nat]
      BY <2>1
    <3>3. ASSUME NEW b \in Nat PROVE Eq(Xor)[a][b] \in Nat
      <4>1. b \div 2 \in Nat /\ (a + b) % 2 \in Nat
        BY Halves
      <4>2. CASE a = 0
        BY <4>2
      <4>3. CASE a # 0
        <5>1. Xor[a \div 2][b \div 2] \in Nat
          BY <3>2, <4>1, <4>3
        <5>2. 2 * Xor[a \div 2][b \div 2] + ((a + b) % 2) \in Nat
          <6>. DEFINE x == Xor[a \div 2][b \div 2]
                      y == (a + b) % 2
          <6>1. x \in Nat /\ y \in Nat
            BY <4>1, <5>1
          <6>. HIDE DEF x, y
          <6>2. 2 * x + y \in Nat
            BY <6>1
          <6>. QED
            BY <6>2 DEF x, y
        <5>. QED
          BY <4>3, <5>2
      <4>. QED
        BY <4>2, <4>3
    <3>. QED
      BY <3>1, <3>3
  <2>2. Inherited(S, Nat, {0}, pred)
    BY <2>1 DEF Inherited
  <2>. HIDE DEF S, rank, pred
  <2>3. Nat \subseteq S
    BY <1>1, <2>2, RankInduction, Zenon
  <2>. QED
    BY <2>3 DEF S
<1>. QED
  BY <1>7, <1>8

LEMMA XorType == \A a, b \in Nat : Xor[a][b] \in Nat
BY XorEquation

LEMMA XorZero == \A a \in Nat : Xor[0][a] = a /\ Xor[a][0] = a
BY XorEquation

\* The last bit and the others are computed apart, whatever the arguments.
LEMMA XorHalves ==
  \A a, b \in Nat :
    /\ Xor[a][b] \div 2 = Xor[a \div 2][b \div 2]
    /\ Xor[a][b] % 2 = (a + b) % 2
<1>. SUFFICES ASSUME NEW a \in Nat, NEW b \in Nat
              PROVE  /\ Xor[a][b] \div 2 = Xor[a \div 2][b \div 2]
                     /\ Xor[a][b] % 2 = (a + b) % 2
  OBVIOUS
<1>1. /\ a \div 2 \in Nat /\ b \div 2 \in Nat /\ (a + b) % 2 \in {0, 1}
      /\ Xor[a \div 2][b \div 2] \in Nat
  BY Halves, XorType
<1>2. CASE a = 0
  BY <1>1, <1>2, XorZero
<1>3. CASE b = 0
  BY <1>1, <1>3, XorZero
<1>4. CASE a # 0 /\ b # 0
  <2>. DEFINE x == Xor[a \div 2][b \div 2]
              y == (a + b) % 2
  <2>1. Xor[a][b] = 2 * x + y
    BY <1>4, XorEquation
  <2>2. x \in Nat /\ y \in {0, 1}
    BY <1>1
  <2>. HIDE DEF x, y
  <2>3. (2 * x + y) \div 2 = x /\ (2 * x + y) % 2 = y
    BY <2>2
  <2>. QED
    BY <2>1, <2>3 DEF x, y
<1>. QED
  BY <1>2, <1>3, <1>4

\* Two naturals with the same halves and the same last bits are equal.
LEMMA SameBits ==
  ASSUME NEW a \in Nat, NEW b \in Nat, a \div 2 = b \div 2, a % 2 = b % 2
  PROVE  a = b
OBVIOUS

\* What a set has for 0, and for a if it has it for a \div 2, it has for all.
LEMMA HalvingInduction ==
  ASSUME NEW S, \A a \in Nat : a = 0 \/ a \div 2 \in S => a \in S
  PROVE  Nat \subseteq S
<1>. DEFINE rank == [a \in Nat |-> a]
            pred == [a \in Nat |-> a \div 2]
<1>1. Ranked(Nat, rank, {0}, pred)
  BY Halves DEF Ranked
<1>2. Inherited(S, Nat, {0}, pred)
  BY DEF Inherited
<1>. HIDE DEF rank, pred
<1>. QED
  BY <1>1, <1>2, RankInduction, Zenon

\* Exclusive or is its own inverse: task t is the partner of its partner.
LEMMA XorBack == \A a, b \in Nat : Xor[a][Xor[a][b]] = b
<1>. DEFINE S == {a \in Nat : \A b \in Nat : Xor[a][Xor[a][b]] = b}
<1>1. ASSUME NEW a \in Nat, a = 0 \/ a \div 2 \in S PROVE a \in S
  <2>. SUFFICES ASSUME NEW b \in Nat PROVE Xor[a][Xor[a][b]] = b
    OBVIOUS
  <2>1. CASE a = 0
    BY <2>1, XorZero
  <2>2. CASE a # 0
    <3>1. /\ Xor[a][b] \in Nat /\ Xor[a][Xor[a][b]] \in Nat
          /\ b \div 2 \in Nat
      BY XorType, Halves
    <3>2. Xor[a][Xor[a][b]] \div 2 = b \div 2
      <4>1. Xor[a][Xor[a][b]] \div 2 = Xor[a \div 2][Xor[a][b] \div 2]
        BY <3>1, XorHalves
      <4>2. Xor[a][b] \div 2 = Xor[a \div 2][b \div 2]
        BY XorHalves
      <4>3. Xor[a \div 2][Xor[a \div 2][b \div 2]] = b \div 2
        BY <1>1, <2>2, <3>1
      <4>. QED
        BY <4>1, <4>2, <4>3, Zenon
    <3>3. Xor[a][Xor[a][b]] % 2 = (a + Xor[a][b]) % 2
      BY <3>1, XorHalves
    <3>4. Xor[a][b] % 2 = (a + b) % 2
      BY XorHalves
    <3>5. Xor[a][Xor[a][b]] % 2 = b % 2
      <4>. DEFINE c == Xor[a][b]
      <4>1. c \in Nat /\ c % 2 = (a + b) % 2
        BY <3>1, <3>4
      <4>. HIDE DEF c
      <4>2. (a + c) % 2 = b % 2
        BY <4>1
      <4>. QED
        BY <3>3, <4>2 DEF c
    <3>. QED
      BY <3>1, <3>2, <3>5, SameBits
  <2>. QED
    BY <2>1, <2>2
<1>2. Nat \subseteq S
  <2>. HIDE DEF S
  <2>. QED
    BY <1>1, HalvingInduction
<1>. QED
  BY <1>2

LEMMA XorCommutes == \A a, b \in Nat : Xor[a][b] = Xor[b][a]
<1>. DEFINE S == {a \in Nat : \A b \in Nat : Xor[a][b] = Xor[b][a]}
<1>1. ASSUME NEW a \in Nat, a = 0 \/ a \div 2 \in S PROVE a \in S
  <2>. SUFFICES ASSUME NEW b \in Nat PROVE Xor[a][b] = Xor[b][a]
    OBVIOUS
  <2>1. CASE a = 0
    BY <2>1, XorZero
  <2>2. CASE a # 0
    <3>1. Xor[a][b] \in Nat /\ Xor[b][a] \in Nat /\ b \div 2 \in Nat
      BY XorType, Halves
    <3>2. Xor[a][b] \div 2 = Xor[b][a] \div 2
      <4>1. Xor[a \div 2][b \div 2] = Xor[b \div 2][a \div 2]
        BY <1>1, <2>2, <3>1
      <4>. QED
        BY <4>1, XorHalves, Zenon
    <3>3. Xor[a][b] % 2 = Xor[b][a] % 2
      <4>1. Xor[a][b] % 2 = (a + b) % 2
        BY XorHalves, Zenon
      <4>2. Xor[b][a] % 2 = (b + a) % 2
        BY XorHalves, Zenon
      <4>. QED
        BY <4>1, <4>2
    <3>. QED
      BY <3>1, <3>2, <3>3, SameBits, Zenon
  <2>. QED
    BY <2>1, <2>2
<1>2. Nat \subseteq S
  <2>. HIDE DEF S
  <2>. QED
    BY <1>1, HalvingInduction
<1>. QED
  BY <1>2

\* c is the exclusive or of a and b, or a of b and c: one follows from the other.
LEMMA XorSolve == \A a, b, c \in Nat : Xor[a][b] = c => Xor[b][c] = a /\ Xor[a][c] = b
<1>. SUFFICES ASSUME NEW a \in Nat, NEW b \in Nat, NEW c \in Nat, Xor[a][b] = c
              PROVE  Xor[b][c] = a /\ Xor[a][c] = b
  OBVIOUS
<1>1. Xor[b][a] = c
  BY XorCommutes
<1>. QED
  BY <1>1, XorBack

\* Nobody but round "-1" pairs a task with itself.
LEMMA XorSelf == \A a, b \in Nat : Xor[a][b] = b => a = 0
<1>. SUFFICES ASSUME NEW a \in Nat, NEW b \in Nat, Xor[a][b] = b PROVE a = 0
  OBVIOUS
<1>1. Xor[b][b] = a
  BY XorSolve
<1>2. Xor[b][0] = b
  BY XorZero
<1>3. Xor[b][b] = 0
  BY <1>2, XorSolve
<1>. QED
  BY <1>1, <1>3

-----------------------------------------------------------------------------
\* ceil2(): it ends, at a power of two that is at least n and less than 2 * n.
\* What matters of a power of two is that the numbers below it are closed
\* under the exclusive or.
Closed(p) == \A a, b \in Nat : a < p /\ b < p => Xor[a][b] < p

LEMMA ClosedDoubles ==
  ASSUME NEW p \in Nat, Closed(p) PROVE Closed(2 * p)
<1>. SUFFICES ASSUME NEW a \in Nat, NEW b \in Nat, a < 2 * p, b < 2 * p PROVE Xor[a][b] < 2 * p
  BY DEF Closed
<1>1. a \div 2 \in Nat /\ b \div 2 \in Nat /\ a \div 2 < p /\ b \div 2 < p
  BY Halves
<1>2. Xor[a \div 2][b \div 2] < p /\ Xor[a \div 2][b \div 2] \in Nat
  BY <1>1, XorType DEF Closed
<1>. DEFINE x == Xor[a][b]
<1>3. x \in Nat /\ x \div 2 < p
  BY <1>2, XorHalves, XorType
<1>. HIDE DEF x
<1>4. x < 2 * p
  BY <1>3
<1>. QED
  BY <1>4 DEF x

LEMMA Ceil2Is ==
  ASSUME NEW n \in Nat \ {0}
  PROVE  Ceil2(n) \in Nat /\ n <= Ceil2(n) /\ Ceil2(n) < 2 * n /\ Closed(Ceil2(n))
<1>. DEFINE P == Nat \ {0}
            rank == [p \in P |-> IF p < n THEN n - p ELSE 0]
            stop == {p \in P : ~(p < n)}
            pred == [p \in P |-> 2 * p]
            base == [p \in P |-> p]
            step == [p \in P |-> [v \in P |-> v]]
            Eq(d) == [p \in P |-> IF p < n THEN d[2 * p] ELSE p]
            d == CHOOSE d : d = Eq(d)
<1>1. Ranked(P, rank, stop, pred)
  <2>1. rank \in [P -> Nat] /\ pred \in [P -> P]
    OBVIOUS
  <2>2. \A p \in P : p \notin stop => rank[pred[p]] < rank[p]
    OBVIOUS
  <2>. QED
    BY <2>1, <2>2 DEF Ranked
<1>2. base \in [P -> P] /\ step \in [P -> [P -> P]]
  OBVIOUS
<1>3. PICK f \in [P -> P] : Solution(f, P, stop, base, pred, step)
  <2>. HIDE DEF P, rank, stop, pred, base, step
  <2>. QED
    BY <1>1, <1>2, LinearRecursion, Zenon
<1>4. f = Eq(f)
  BY <1>3 DEF Solution
<1>5. d = Eq(d)
  BY <1>4, Zenon
<1>6. Ceil2(n) = d[1]
  BY Zenon DEF Ceil2
<1>. HIDE DEF d
<1>. DEFINE S == {p \in P : p < 2 * n /\ Closed(p) =>
                     d[p] \in Nat /\ n <= d[p] /\ d[p] < 2 * n /\ Closed(d[p])}
<1>7. ASSUME NEW p \in P, p \in stop \/ pred[p] \in S PROVE p \in S
  <2>1. d[p] = IF p < n THEN d[2 * p] ELSE p
    BY <1>5
  <2>2. CASE p < n
    <3>1. 2 * p \in S /\ 2 * p < 2 * n
      BY <1>7, <2>2
    <3>. QED
      BY <2>1, <2>2, <3>1, ClosedDoubles
  <2>3. CASE ~(p < n)
    BY <2>1, <2>3
  <2>. QED
    BY <2>2, <2>3
<1>8. P \subseteq S
  <2>1. Inherited(S, P, stop, pred)
    BY <1>7 DEF Inherited
  <2>. HIDE DEF S, P, rank, stop, pred
  <2>. QED
    BY <1>1, <2>1, RankInduction, Zenon
<1>9. Closed(1)
  BY XorZero DEF Closed
<1>10. 1 \in S /\ 1 < 2 * n
  BY <1>8
<1>. QED
  BY <1>6, <1>9, <1>10

-----------------------------------------------------------------------------
\* pair(): in round k task t meets the task whose rank is the exclusive or.
LEMMA PairIs ==
  ASSUME NEW n \in Nat \ {0}, NEW k \in Nat, NEW t \in 0 .. n - 1
  PROVE  \/ Pair(n, k, t) = -1
         \/ Pair(n, k, t) \in 0 .. n - 1 /\ Pair(n, k, t) = Xor[k + 1][t]
BY XorType DEF Pair

LEMMA MutualAlways == \A n \in Nat \ {0} : Mutual(n)
<1>. SUFFICES ASSUME NEW n \in Nat \ {0}, NEW k \in 0 .. Ceil2(n) - 2, NEW t \in 0 .. n - 1,
                     Pair(n, k, t) >= 0
              PROVE  Pair(n, k, t) \in (0 .. n - 1) \ {t} /\ Pair(n, k, Pair(n, k, t)) = t
  BY DEF Mutual
<1>1. k \in Nat /\ k + 1 \in Nat /\ k + 1 # 0 /\ t \in Nat
  BY Ceil2Is
<1>. DEFINE p == Pair(n, k, t)
<1>2. p \in 0 .. n - 1 /\ p = Xor[k + 1][t]
  BY <1>1, PairIs
<1>. HIDE DEF p
<1>3. p # t /\ Xor[k + 1][p] = t /\ p \in Nat
  BY <1>1, <1>2, XorSelf, XorBack
<1>4. Pair(n, k, p) = t
  BY <1>3 DEF Pair
<1>. QED
  BY <1>2, <1>3, <1>4 DEF p

\* pair() is symmetric: in every round the tasks of a communicator of any size
\* pair up, and no task is its own partner.
THEOREM RoundsPairUp ==
  /\ \A n \in Nat \ {0} : Mutual(n)
  /\ Spec => []PairingIsMutual
<1>1. PairingIsMutual
  BY MutualAlways DEF PairingIsMutual, MaxTasks
<1>. QED
  BY <1>1, MutualAlways, PTL

\* Two different tasks meet in the round that is one less than the exclusive
\* or of their ranks, and in no other.
LEMMA MeetsAlways == \A n \in Nat \ {0} : MeetsOnce(n)
<1>. SUFFICES ASSUME NEW n \in Nat \ {0}, NEW t \in 0 .. n - 1, NEW u \in (0 .. n - 1) \ {t}
              PROVE  Cardinality({k \in 0 .. Ceil2(n) - 2 : Pair(n, k, t) = u}) = 1
  BY DEF MeetsOnce
<1>. DEFINE x == Xor[t][u]
<1>1. t \in Nat /\ u \in Nat /\ t < n /\ u < n /\ t # u
  OBVIOUS
<1>2. Ceil2(n) \in Nat /\ n <= Ceil2(n) /\ Closed(Ceil2(n))
  BY Ceil2Is
<1>3. x \in Nat /\ x < Ceil2(n)
  <2>1. t < Ceil2(n) /\ u < Ceil2(n)
    BY <1>1, <1>2
  <2>. QED
    BY <1>1, <1>2, <2>1, XorType DEF Closed
<1>4. x # 0 /\ Xor[x][t] = u
  <2>1. Xor[t][x] = u
    BY <1>1, XorBack
  <2>2. Xor[x][t] = u
    BY <1>1, <1>3, <2>1, XorCommutes
  <2>3. x # 0
    BY <1>1, <2>2, XorZero
  <2>. QED
    BY <2>2, <2>3
<1>5. ASSUME NEW k \in 0 .. Ceil2(n) - 2, Pair(n, k, t) = u PROVE k + 1 = x
  <2>1. k \in Nat /\ k + 1 \in Nat
    BY <1>2
  <2>2. Xor[k + 1][t] = u
    BY <1>1, <1>5, <2>1, PairIs
  <2>3. Xor[t][u] = k + 1
    BY <1>1, <2>1, <2>2, XorSolve
  <2>. QED
    BY <2>3
<1>. HIDE DEF x
<1>6. x - 1 \in 0 .. Ceil2(n) - 2 /\ x - 1 \in Nat /\ (x - 1) + 1 = x
  BY <1>2, <1>3, <1>4
<1>7. Pair(n, x - 1, t) = u
  BY <1>1, <1>4, <1>6 DEF Pair
<1>8. {k \in 0 .. Ceil2(n) - 2 : Pair(n, k, t) = u} = {x - 1}
  BY <1>2, <1>3, <1>5, <1>6, <1>7
<1>. QED
  BY <1>8, FS_Singleton

\* The rounds of a call: two different tasks meet in exactly one of them, and
\* ceil2() - 1 rounds are enough for it, whatever the size of the communicator.
THEOREM EveryTwoMeet ==
  /\ \A n \in Nat \ {0} : MeetsOnce(n)
  /\ Spec => []MeetsAllOnce
<1>1. MeetsAllOnce
  BY MeetsAlways DEF MeetsAllOnce, MaxTasks
<1>. QED
  BY <1>1, MeetsAlways, PTL

-----------------------------------------------------------------------------
\* A task has finitely many partners (the loop over ceil2(ntasks) rounds).
LEMMA StepsType == \A t \in Tasks : Steps(t) \in Nat
<1>. SUFFICES ASSUME NEW t \in Tasks PROVE Steps(t) \in Nat
  OBVIOUS
<1>1. 0 \in Int /\ 2 * NTasks \in Int
  BY SwapmAssumption
<1>2. IsFiniteSet(0 .. 2 * NTasks)
  BY <1>1, FS_Interval
<1>3. PartnerRounds(t) \subseteq 0 .. 2 * NTasks
  BY DEF PartnerRounds
<1>. QED
  BY <1>2, <1>3, FS_Subset, FS_CardinalityType DEF Steps

\* The steps of a task: its partners, each once, in the order of the rounds.

\* How many of the rounds R come before round k.
Place(R, k) == Cardinality({j \in R : j < k})

LEMMA PlacesOrdered ==
  ASSUME NEW R \in SUBSET Nat, IsFiniteSet(R), NEW k \in R
  PROVE  /\ Place(R, k) \in 0 .. Cardinality(R) - 1
         /\ \A l \in R : k < l => Place(R, k) < Place(R, l)
<1>. DEFINE B(l) == {j \in R : j < l}
<1>1. ASSUME NEW l PROVE IsFiniteSet(B(l)) /\ Cardinality(B(l)) \in Nat
  BY FS_Subset, FS_CardinalityType
<1>2. IsFiniteSet(B(k) \cup {k}) /\ Cardinality(B(k) \cup {k}) = Cardinality(B(k)) + 1
  <2>1. k \notin B(k)
    OBVIOUS
  <2>. QED
    BY <1>1, <2>1, FS_AddElement
<1>3. Cardinality(R) \in Nat
  BY FS_CardinalityType
<1>4. Cardinality(B(k)) + 1 <= Cardinality(R)
  <2>1. B(k) \cup {k} \subseteq R
    OBVIOUS
  <2>. HIDE DEF B
  <2>. QED
    BY <1>2, <2>1, FS_Subset
<1>5. ASSUME NEW l \in R, k < l PROVE Cardinality(B(k)) + 1 <= Cardinality(B(l))
  <2>1. B(k) \cup {k} \subseteq B(l)
    <3>1. \A j \in R : j < k => j < l
      BY <1>5
    <3>. QED
      BY <1>5, <3>1
  <2>2. IsFiniteSet(B(l))
    BY <1>1
  <2>. HIDE DEF B
  <2>. QED
    BY <1>2, <2>1, <2>2, FS_Subset
<1>6. ASSUME NEW l \in R, k < l PROVE Cardinality(B(k)) < Cardinality(B(l))
  <2>. HIDE DEF B
  <2>. QED
    BY <1>1, <1>5, <1>6
<1>. QED
  BY <1>1, <1>3, <1>4, <1>6 DEF Place

\* Every place is taken, by one round.
LEMMA PlacesTaken ==
  ASSUME NEW R \in SUBSET Nat, IsFiniteSet(R), NEW i \in 0 .. Cardinality(R) - 1
  PROVE  \E k \in R : Place(R, k) = i
<1>. SUFFICES ASSUME \A k \in R : Place(R, k) # i PROVE FALSE
  OBVIOUS
<1>. DEFINE n == Cardinality(R)
            T == (0 .. n - 1) \ {i}
            f == [k \in R |-> Place(R, k)]
<1>1. n \in Nat
  BY FS_CardinalityType
<1>2. IsFiniteSet(0 .. n - 1) /\ Cardinality(0 .. n - 1) = n
  <2>. HIDE DEF n
  <2>1. 0 \in Int /\ n - 1 \in Int
    BY <1>1
  <2>. QED
    BY <1>1, <2>1, FS_Interval
<1>3. IsFiniteSet(T) /\ Cardinality(T) = n - 1
  <2>. HIDE DEF n
  <2>1. i \in 0 .. n - 1
    BY DEF n
  <2>. QED
    BY <1>2, <2>1, FS_RemoveElement
<1>4. f \in [R -> T]
  BY PlacesOrdered
<1>5. \A k, l \in R : k # l => f[k] # f[l]
  <2>. SUFFICES ASSUME NEW k \in R, NEW l \in R, k # l PROVE Place(R, k) # Place(R, l)
    OBVIOUS
  <2>1. Place(R, k) \in Nat /\ Place(R, l) \in Nat
    BY <1>1, PlacesOrdered
  <2>2. k < l \/ l < k
    OBVIOUS
  <2>. QED
    BY <2>1, <2>2, PlacesOrdered
<1>6. Cardinality(T) < Cardinality(R)
  BY <1>1, <1>3
<1>. HIDE DEF T, f
<1>. QED
  BY <1>3, <1>4, <1>5, <1>6, FS_PigeonHole

LEMMA RoundsOfTask ==
  ASSUME NEW t \in Tasks
  PROVE  /\ PartnerRounds(t) \in SUBSET Nat /\ IsFiniteSet(PartnerRounds(t))
         /\ \A k \in PartnerRounds(t) : PairTable[t][k] \in Tasks \ {t}
         /\ \A u \in Tasks \ {t} : Sends(t, u) \/ Sends(u, t) =>
               \E k \in PartnerRounds(t) : PairTable[t][k] = u
<1>1. NTasks \in Nat \ {0}
  BY SwapmAssumption
<1>2. /\ Ceil2(NTasks) \in Nat /\ Ceil2(NTasks) < 2 * NTasks
  BY <1>1, Ceil2Is
<1>3. PartnerRounds(t) \subseteq 0 .. 2 * NTasks
  BY DEF PartnerRounds
<1>4. IsFiniteSet(0 .. 2 * NTasks)
  <2>1. 0 \in Int /\ 2 * NTasks \in Int
    BY <1>1
  <2>. QED
    BY <2>1, FS_Interval
<1>5. PartnerRounds(t) \in SUBSET Nat /\ IsFiniteSet(PartnerRounds(t))
  <2>1. 0 .. 2 * NTasks \subseteq Nat
    BY <1>1
  <2>2. IsFiniteSet(PartnerRounds(t))
    BY <1>3, <1>4, FS_Subset
  <2>. QED
    BY <1>3, <2>1, <2>2
<1>6. ASSUME NEW k \in PartnerRounds(t) PROVE PairTable[t][k] \in Tasks \ {t}
  <2>1. k \in 0 .. 2 * NTasks /\ k < Ceil2(NTasks) - 1 /\ PairTable[t][k] >= 0
    BY DEF PartnerRounds, LoopEnd
  <2>2. k \in 0 .. Ceil2(NTasks) - 2
    BY <1>2, <2>1
  <2>3. PairTable[t][k] = Pair(NTasks, k, t)
    BY <2>1 DEF PairTable
  <2>. QED
    BY <1>1, <2>1, <2>2, <2>3, MutualAlways DEF Mutual, Tasks
<1>7. ASSUME NEW u \in Tasks \ {t}, Sends(t, u) \/ Sends(u, t)
      PROVE  \E k \in PartnerRounds(t) : PairTable[t][k] = u
  <2>. DEFINE K == {k \in 0 .. Ceil2(NTasks) - 2 : Pair(NTasks, k, t) = u}
  <2>1. Cardinality(K) = 1
    BY <1>1, MeetsAlways DEF MeetsOnce, Tasks
  <2>2. K # {}
    BY <2>1, FS_EmptySet
  <2>3. PICK k : k \in 0 .. Ceil2(NTasks) - 2 /\ Pair(NTasks, k, t) = u
    BY <2>2
  <2>4. k \in 0 .. 2 * NTasks /\ k < Ceil2(NTasks) - 1
    BY <1>1, <1>2, <2>3
  <2>5. PairTable[t][k] = u /\ u >= 0
    BY <2>3, <2>4 DEF PairTable, Tasks
  <2>. QED
    BY <1>7, <2>4, <2>5 DEF PartnerRounds, LoopEnd
<1>. QED
  BY <1>5, <1>6, <1>7

\* swapids of a task: other tasks only, and everybody it has something to
\* exchange with.
LEMMA PartnersOfTask ==
  ASSUME NEW t \in Tasks
  PROVE  /\ \A i \in 0 .. Steps(t) - 1 : Swapids(t, i) \in Tasks \ {t}
         /\ \A u \in Tasks \ {t} : Sends(t, u) \/ Sends(u, t) =>
               \E i \in 0 .. Steps(t) - 1 : Swapids(t, i) = u
<1>. DEFINE R == PartnerRounds(t)
            round(i) == CHOOSE k \in R : Place(R, k) = i
<1>1. R \in SUBSET Nat /\ IsFiniteSet(R)
  BY RoundsOfTask
<1>2. \A i : Swapids(t, i) = PairTable[t][round(i)]
  BY DEF Swapids, Place
<1>3. Steps(t) = Cardinality(R)
  BY DEF Steps
<1>4. ASSUME NEW i \in 0 .. Steps(t) - 1 PROVE Swapids(t, i) \in Tasks \ {t}
  <2>1. \E k \in R : Place(R, k) = i
    BY <1>1, <1>3, PlacesTaken
  <2>2. round(i) \in R
    BY <2>1
  <2>. QED
    BY <1>2, <2>2, RoundsOfTask
<1>5. ASSUME NEW u \in Tasks \ {t}, Sends(t, u) \/ Sends(u, t)
      PROVE  \E i \in 0 .. Steps(t) - 1 : Swapids(t, i) = u
  <2>1. PICK k \in R : PairTable[t][k] = u
    BY <1>5, RoundsOfTask
  <2>. DEFINE i == Place(R, k)
              l == round(i)
  <2>2. i \in 0 .. Steps(t) - 1
    BY <1>1, <1>3, PlacesOrdered
  <2>3. l \in R /\ Place(R, l) = i
    OBVIOUS
  <2>4. l = k
    <3>. HIDE DEF l
    <3>1. Place(R, k) \in Nat /\ Place(R, l) \in Nat
      BY <2>2, <2>3, StepsType
    <3>2. ~(k < l) /\ ~(l < k)
      BY <1>1, <2>3, <3>1, PlacesOrdered
    <3>. QED
      BY <1>1, <2>3, <3>2
  <2>. QED
    BY <1>2, <2>1, <2>2, <2>4
<1>. QED
  BY <1>4, <1>5

-----------------------------------------------------------------------------
\* What the code computes from max_pend_req: 0 <= maxreqh <= maxreq,
\* and maxreq > 0 when there is a step at all.
LEMMA MaxReqType ==
  ASSUME fc \in FlowControl, NEW t \in Tasks
  PROVE  /\ MaxReq(t) \in Nat
         /\ MaxReqH(t) \in Nat
         /\ MaxReqH(t) <= MaxReq(t)
         /\ Steps(t) > 0 => MaxReq(t) > 0
<1>1. Steps(t) \in Nat
  BY StepsType
<1>2. fc.max_pend_req \in Int
  BY DEF FlowControl
<1>. QED
  BY <1>1, <1>2, Z3 DEF MaxReq, MaxReqH, Throttled

\* The schedule and the throttle of a call do not change during the call.
LEMMA ScheduleFixed ==
  ASSUME UNCHANGED <<traffic, fc>>, NEW t \in Tasks
  PROVE  /\ Steps(t)' = Steps(t)
         /\ MaxReq(t)' = MaxReq(t)
         /\ MaxReqH(t)' = MaxReqH(t)
         /\ \A i : Swapids(t, i)' = Swapids(t, i)
<1>1. PartnerRounds(t)' = PartnerRounds(t)
  BY DEF PartnerRounds, Sends
<1>2. Steps(t)' = Steps(t)
  BY <1>1 DEF Steps
<1>3. Throttled(t)' = Throttled(t)
  BY <1>2 DEF Throttled
<1>. QED
  BY <1>1, <1>2, <1>3 DEF MaxReq, MaxReqH, Swapids

-----------------------------------------------------------------------------

\* Type correctness of the exchange.
THEOREM TypeCorrect == Spec => []TypeOK
<1>1. Init => TypeOK
  BY SwapmAssumption, SMTT(30) DEF Init, TypeOK, PC
<1>2. TypeOK /\ [Next]_vars => TypeOK'
  <2>. SUFFICES ASSUME TypeOK, [Next]_vars PROVE TypeOK'
    OBVIOUS
  <2>. USE DEF TypeOK, PC, Goto
  <2>1. CASE UNCHANGED vars
    BY <2>1 DEF vars
  <2>2. ASSUME NEW t \in Tasks, Alltoallw(t) PROVE TypeOK'
    BY <2>2 DEF Alltoallw, Data, Envelope
  <2>3. ASSUME NEW t \in Tasks, AlltoallwReturn(t) PROVE TypeOK'
    BY <2>3 DEF AlltoallwReturn
  <2>4. ASSUME NEW t \in Tasks, SendToSelf(t) PROVE TypeOK'
    BY <2>4 DEF SendToSelf, Data, Handshake, Envelope
  <2>5. ASSUME NEW t \in Tasks, PostReceive(t) PROVE TypeOK'
    BY <2>5 DEF PostReceive, NextReceive, Data, Envelope
  <2>6. ASSUME NEW t \in Tasks, SendHandshake(t) PROVE TypeOK'
    BY <2>6 DEF SendHandshake, NextReceive, Handshake, Envelope, Rendezvous
  <2>7. ASSUME NEW t \in Tasks, SendData(t) PROVE TypeOK'
    BY <2>7 DEF SendData, Data, Envelope, Rendezvous
  <2>8. ASSUME NEW t \in Tasks, Drain(t) PROVE TypeOK'
    BY <2>8 DEF Drain, Handshake, Envelope
  <2>9. ASSUME NEW t \in Tasks, WaitAll(t) PROVE TypeOK'
    BY <2>9 DEF WaitAll
  <2>. QED
    BY <2>1, <2>2, <2>3, <2>4, <2>5, <2>6, <2>7, <2>8, <2>9 DEF Next, Step, Done
<1>. QED
  BY <1>1, <1>2, PTL DEF Spec

-----------------------------------------------------------------------------
(***************************************************************************)
(* A ready send finds its receive posted.  A task sends a block only after *)
(* it matched the handshake of the receiver, so it is enough that no       *)
(* handshake is sent before the receive it announces is posted; and that   *)
(* is so while a task stands between its MPI_Irsend and its MPI_Send.      *)
(***************************************************************************)

HandshakeAfterReceive ==
  /\ \A s, d \in Tasks : Handshake(d, s) \in sent => Data(s, d) \in posted
  /\ \A s, d \in Tasks : Data(s, d) \in sent => Data(s, d) \in posted
  /\ \A d, p \in Tasks :
       pc[d] = "handshake" /\ p = Swapids(d, rstep[d]) => Data(p, d) \in posted

ReadyInv == fc.hs /\ fc.max_pend_req # 0 => HandshakeAfterReceive

\* Ready sends are safe: under handshakes no block is sent before its
\* receive is posted.
THEOREM ReadySend == Spec => []ReadySendSafe
<1>1. Init => ReadyInv
  BY DEF Init, ReadyInv, HandshakeAfterReceive
<1>2. TypeOK /\ ReadyInv /\ [Next]_vars => ReadyInv'
  <2>. SUFFICES ASSUME TypeOK, ReadyInv, [Next]_vars,
                       fc'.hs, fc'.max_pend_req # 0
                PROVE  HandshakeAfterReceive'
    BY DEF ReadyInv
  <2>a. UNCHANGED <<traffic, fc>>
    BY DEF Next, Step, Done, vars, Alltoallw, AlltoallwReturn, SendToSelf, PostReceive,
           SendHandshake, SendData, Drain, WaitAll
  <2>b. HandshakeAfterReceive /\ fc.hs /\ fc.max_pend_req # 0
    BY <2>a DEF ReadyInv
  <2>c. \A d \in Tasks : \A i : Swapids(d, i)' = Swapids(d, i)
    BY <2>a, ScheduleFixed
  <2>. USE DEF HandshakeAfterReceive
  <2>1. CASE UNCHANGED vars
    BY <2>1, <2>b, <2>c DEF vars
  <2>2. ASSUME NEW t \in Tasks, Alltoallw(t) PROVE HandshakeAfterReceive'
    BY <2>2, <2>b DEF Alltoallw
  <2>3. ASSUME NEW t \in Tasks, AlltoallwReturn(t) PROVE HandshakeAfterReceive'
    BY <2>3, <2>b, <2>c DEF AlltoallwReturn, TypeOK, Goto
  <2>4. ASSUME NEW t \in Tasks, SendToSelf(t) PROVE HandshakeAfterReceive'
    BY <2>4, <2>b, <2>c DEF SendToSelf, TypeOK, Goto, Data, Handshake
  <2>5. ASSUME NEW t \in Tasks, PostReceive(t) PROVE HandshakeAfterReceive'
    <3>1. UNCHANGED sent /\ posted \subseteq posted'
      BY <2>5 DEF PostReceive
    <3>2. \A p \in Tasks :
            pc'[t] = "handshake" /\ p = Swapids(t, rstep'[t]) => Data(p, t) \in posted'
      BY <2>5 DEF PostReceive, NextReceive, Goto, TypeOK
    <3>3. \A d \in Tasks \ {t} : pc'[d] = pc[d] /\ rstep'[d] = rstep[d]
      BY <2>5 DEF PostReceive, NextReceive, Goto, TypeOK
    <3>. QED
      BY <3>1, <3>2, <3>3, <2>b, <2>c
  <2>6. ASSUME NEW t \in Tasks, SendHandshake(t) PROVE HandshakeAfterReceive'
    <3>1. PICK p \in Tasks : /\ p = Swapids(t, rstep[t])
                             /\ sent' = sent \cup {Handshake(t, p)}
      BY <2>6 DEF SendHandshake
    <3>2. Data(p, t) \in posted
      BY <3>1, <2>6, <2>b DEF SendHandshake
    <3>3. UNCHANGED posted
      BY <2>6 DEF SendHandshake
    <3>4. /\ pc'[t] # "handshake"
          /\ \A d \in Tasks \ {t} : pc'[d] = pc[d] /\ rstep'[d] = rstep[d]
      BY <2>6 DEF SendHandshake, NextReceive, Goto, TypeOK
    <3>5. \A s, d \in Tasks : Handshake(d, s) \in sent' => Data(s, d) \in posted'
      BY <3>1, <3>2, <3>3, <2>b DEF Handshake
    <3>6. \A s, d \in Tasks : Data(s, d) \in sent' => Data(s, d) \in posted'
      BY <3>1, <3>2, <3>3, <2>b DEF Handshake, Data
    <3>. QED
      BY <3>3, <3>4, <3>5, <3>6, <2>b, <2>c
  <2>7. ASSUME NEW t \in Tasks, SendData(t) PROVE HandshakeAfterReceive'
    <3>1. UNCHANGED <<posted, rstep>>
      BY <2>7 DEF SendData
    <3>2. \A e \in sent' \ sent : \E p \in Tasks : e = Data(t, p) /\ e \in posted
      BY <2>7, <2>b DEF SendData, HandshakeArrived, Matched
    <3>3. /\ pc'[t] # "handshake"
          /\ \A d \in Tasks \ {t} : pc'[d] = pc[d]
      BY <2>7 DEF SendData, Goto, TypeOK
    <3>4. \A s, d \in Tasks : Handshake(d, s) \in sent' => Data(s, d) \in posted'
      BY <3>1, <3>2, <2>b DEF Handshake, Data
    <3>. QED
      BY <3>1, <3>2, <3>3, <3>4, <2>b, <2>c
  <2>8. ASSUME NEW t \in Tasks, Drain(t) PROVE HandshakeAfterReceive'
    BY <2>8, <2>b, <2>c DEF Drain, TypeOK, Goto
  <2>9. ASSUME NEW t \in Tasks, WaitAll(t) PROVE HandshakeAfterReceive'
    BY <2>9, <2>b, <2>c DEF WaitAll, TypeOK, Goto
  <2>. QED
    BY <2>1, <2>2, <2>3, <2>4, <2>5, <2>6, <2>7, <2>8, <2>9 DEF Next, Step, Done
<1>3. ReadyInv => ReadySendSafe
  BY DEF ReadyInv, HandshakeAfterReceive, ReadySendSafe
<1>. QED
  BY <1>1, <1>2, <1>3, TypeCorrect, PTL DEF Spec

-----------------------------------------------------------------------------
(***************************************************************************)
(* The throttle.  While the first maxreq receives are posted rcvids grows  *)
(* from the bottom; afterwards the pending receives lie in a window that   *)
(* the send loop moves up: from the step maxreqh before istep to the last  *)
(* posted one, and a receive is posted only after the lowest was awaited.  *)
(***************************************************************************)

Low(t) == IF istep[t] < MaxReqH(t) THEN 0 ELSE istep[t] - MaxReqH(t)

\* The task is in the loop that posts the first maxreq receives.
Filling(t) == istep[t] = 0 /\ rstep[t] < MaxReq(t)

\* The task posts the receive of rstep, and is at step istep of the send loop.
Refilling(t) ==
  /\ MaxReqH(t) <= istep[t]
  /\ 1 <= MaxReq(t)
  /\ rstep[t] = MaxReq(t) + Low(t)

Window(t) ==
  /\ pc[t] \in {"start", "alltoallw"} =>
       istep[t] = 0 /\ rstep[t] = 0 /\ rcvids[t] = {}
  /\ pc[t] = "post" =>
       \/ Filling(t) /\ rcvids[t] \subseteq 0 .. rstep[t] - 1
       \/ Refilling(t) /\ rcvids[t] \subseteq Low(t) + 1 .. rstep[t] - 1
  /\ pc[t] = "handshake" =>
       \/ Filling(t) /\ rcvids[t] \subseteq 0 .. rstep[t]
       \/ Refilling(t) /\ rcvids[t] \subseteq Low(t) + 1 .. rstep[t]
  /\ pc[t] \in {"send", "drain", "waitall", "returned"} =>
       rstep[t] <= MaxReq(t) + Low(t) /\ rcvids[t] \subseteq Low(t) .. rstep[t] - 1
  /\ pc[t] \in {"send", "drain"} =>
       rstep[t] = MaxReq(t) + Low(t) \/ Steps(t) <= rstep[t]
  /\ pc[t] = "drain" => MaxReqH(t) <= istep[t]

WindowInv == \A t \in Tasks : Window(t)

\* An interval of k integers, or a part of it, has at most k members.
LEMMA IntervalBound ==
  ASSUME NEW a \in Nat, NEW b \in Nat, NEW k \in Nat, b <= a + k,
         NEW S \in SUBSET (a .. b - 1)
  PROVE  Cardinality(S) <= k
<1>1. /\ IsFiniteSet(a .. b - 1)
      /\ Cardinality(a .. b - 1) = IF a > b - 1 THEN 0 ELSE (b - 1) - a + 1
  BY FS_Interval
<1>2. Cardinality(S) <= Cardinality(a .. b - 1) /\ Cardinality(S) \in Nat
  BY <1>1, FS_Subset, FS_CardinalityType
<1>. QED
  BY <1>1, <1>2

LEMMA WindowHolds == Spec => []WindowInv
<1>1. Init => WindowInv
  BY DEF Init, WindowInv, Window
<1>2. TypeOK /\ WindowInv /\ [Next]_vars => WindowInv'
  <2>. SUFFICES ASSUME TypeOK, WindowInv, [Next]_vars, NEW t \in Tasks
                PROVE  Window(t)'
    BY DEF WindowInv
  <2>a. UNCHANGED <<traffic, fc>>
    BY DEF Next, Step, Done, vars, Alltoallw, AlltoallwReturn, SendToSelf, PostReceive,
           SendHandshake, SendData, Drain, WaitAll
  <2>b. /\ Steps(t)' = Steps(t) /\ MaxReq(t)' = MaxReq(t) /\ MaxReqH(t)' = MaxReqH(t)
        /\ Steps(t) \in Nat /\ MaxReq(t) \in Nat /\ MaxReqH(t) \in Nat
        /\ MaxReqH(t) <= MaxReq(t)
        /\ Steps(t) > 0 => MaxReq(t) > 0
    BY <2>a, ScheduleFixed, MaxReqType, StepsType DEF TypeOK
  <2>c. Window(t) /\ istep[t] \in Nat /\ rstep[t] \in Nat /\ rcvids[t] \subseteq Nat
    BY DEF TypeOK, WindowInv
  <2>d. \A u \in Tasks : Step(u) /\ u # t =>
          /\ pc'[t] = pc[t] /\ istep'[t] = istep[t]
          /\ rstep'[t] = rstep[t] /\ rcvids'[t] = rcvids[t]
    BY DEF TypeOK, Step, Goto, Alltoallw, AlltoallwReturn, SendToSelf, PostReceive,
           NextReceive, SendHandshake, SendData, Drain, WaitAll
  <2>. USE DEF Window, Low, Filling, Refilling
  <2>1. CASE UNCHANGED vars
    BY <2>1, <2>b, <2>c DEF vars
  <2>2. CASE \E u \in Tasks : Step(u) /\ u # t
    <3>1. /\ pc'[t] = pc[t] /\ istep'[t] = istep[t]
          /\ rstep'[t] = rstep[t] /\ rcvids'[t] = rcvids[t]
      BY <2>2, <2>d
    <3>. QED
      BY <3>1, <2>b, <2>c
  <2>3. CASE Alltoallw(t)
    BY <2>3, <2>b, <2>c DEF Alltoallw, Goto, TypeOK
  <2>4. CASE AlltoallwReturn(t)
    BY <2>4, <2>b, <2>c DEF AlltoallwReturn, Goto, TypeOK
  <2>5. CASE SendToSelf(t)
    BY <2>5, <2>b, <2>c, StepsType DEF SendToSelf, Goto, TypeOK, MaxReq
  <2>6. CASE PostReceive(t)
    <3>1. pc[t] = "post" /\ rcvids'[t] \subseteq rcvids[t] \cup {rstep[t]}
      BY <2>6 DEF PostReceive, TypeOK
    <3>2. CASE pc' = [pc EXCEPT ![t] = "handshake"] /\ UNCHANGED <<istep, rstep>>
      <4>1. pc'[t] = "handshake" /\ istep'[t] = istep[t] /\ rstep'[t] = rstep[t]
        BY <3>2 DEF TypeOK
      <4>2. CASE Filling(t) /\ rcvids[t] \subseteq 0 .. rstep[t] - 1
        BY <3>1, <4>1, <4>2, <2>b, <2>c
      <4>3. CASE Refilling(t) /\ rcvids[t] \subseteq Low(t) + 1 .. rstep[t] - 1
        <5>1. Low(t) \in Nat /\ Low(t)' = Low(t)
          BY <4>1, <2>b, <2>c
        <5>2. Refilling(t)'
          BY <4>1, <4>3, <5>1, <2>b
        <5>3. \A i \in rcvids'[t] : Low(t) + 1 <= i /\ i <= rstep[t] /\ i \in Int
          <6>. HIDE DEF Low
          <6>. QED
            BY <3>1, <4>3, <5>1, <2>b, <2>c
        <5>4. rcvids'[t] \subseteq Low(t)' + 1 .. rstep'[t]
          <6>. HIDE DEF Low, Refilling
          <6>. QED
            BY <5>1, <5>3, <4>1, <2>c
        <5>. QED
          BY <4>1, <5>2, <5>4
      <4>. QED
        BY <3>1, <4>2, <4>3, <2>c
    <3>3. CASE NextReceive(t)
      <4>1. rstep'[t] = rstep[t] + 1
        BY <3>3 DEF NextReceive, TypeOK
      <4>2. CASE Filling(t) /\ rcvids[t] \subseteq 0 .. rstep[t] - 1
        <5>1. /\ pc'[t] = IF rstep[t] + 1 < MaxReq(t) THEN "post" ELSE "send"
              /\ istep'[t] = 0
          BY <3>3, <4>2 DEF NextReceive, Goto, TypeOK
        <5>2. rcvids'[t] \subseteq 0 .. rstep'[t] - 1
          BY <3>1, <4>1, <4>2, <2>c
        <5>. QED
          BY <4>1, <4>2, <5>1, <5>2, <2>b, <2>c
      <4>3. CASE Refilling(t) /\ rcvids[t] \subseteq Low(t) + 1 .. rstep[t] - 1
        <5>1. /\ pc'[t] = IF istep[t] + 1 < Steps(t) THEN "send" ELSE "waitall"
              /\ istep'[t] = istep[t] + 1
          BY <3>3, <4>3, <2>b, <2>c DEF NextReceive, Goto, TypeOK
        <5>2. rcvids'[t] \subseteq Low(t)' .. rstep'[t] - 1
          <6>1. Low(t) \in Nat /\ Low(t)' = Low(t) + 1
            BY <4>3, <5>1, <2>b, <2>c
          <6>. HIDE DEF Low, Refilling
          <6>2. \A i \in rcvids'[t] : Low(t) + 1 <= i /\ i <= rstep[t] /\ i \in Int
            BY <3>1, <4>3, <6>1, <2>b, <2>c DEF Refilling
          <6>. QED
            BY <6>1, <6>2, <4>1, <2>c
        <5>. QED
          BY <4>1, <4>3, <5>1, <5>2, <2>b, <2>c
      <4>. QED
        BY <3>1, <4>2, <4>3, <2>c
    <3>. QED
      BY <2>6, <3>2, <3>3 DEF PostReceive, Goto
  <2>7. CASE SendHandshake(t)
    <3>1. /\ pc[t] = "handshake" /\ rcvids'[t] = rcvids[t]
          /\ rstep'[t] = rstep[t] + 1
      BY <2>7 DEF SendHandshake, NextReceive, TypeOK
    <3>2. CASE Filling(t) /\ rcvids[t] \subseteq 0 .. rstep[t]
      <4>1. /\ pc'[t] = IF rstep[t] + 1 < MaxReq(t) THEN "post" ELSE "send"
            /\ istep'[t] = 0
        BY <2>7, <3>2 DEF SendHandshake, NextReceive, Goto, TypeOK
      <4>. QED
        BY <3>1, <3>2, <4>1, <2>b, <2>c
    <3>3. CASE Refilling(t) /\ rcvids[t] \subseteq Low(t) + 1 .. rstep[t]
      <4>1. /\ pc'[t] = IF istep[t] + 1 < Steps(t) THEN "send" ELSE "waitall"
            /\ istep'[t] = istep[t] + 1
        BY <2>7, <3>3, <2>b, <2>c DEF SendHandshake, NextReceive, Goto, TypeOK
      <4>. QED
        BY <3>1, <3>3, <4>1, <2>b, <2>c
    <3>. QED
      BY <3>1, <3>2, <3>3, <2>c
  <2>8. CASE SendData(t)
    BY <2>8, <2>b, <2>c DEF SendData, Goto, TypeOK
  <2>9. CASE Drain(t)
    <3>1. /\ pc[t] = "drain" /\ rstep'[t] = rstep[t]
          /\ rcvids'[t] \subseteq Low(t) + 1 .. rstep[t] - 1
      BY <2>9, <2>b, <2>c DEF Drain, Due, TypeOK
    <3>. QED
      BY <3>1, <2>9, <2>b, <2>c DEF Drain, Goto, TypeOK
  <2>10. CASE WaitAll(t)
    BY <2>10, <2>b, <2>c DEF WaitAll, Goto, TypeOK
  <2>. QED
    BY <2>1, <2>2, <2>3, <2>4, <2>5, <2>6, <2>7, <2>8, <2>9, <2>10 DEF Next, Step, Done
<1>. QED
  BY <1>1, <1>2, TypeCorrect, PTL DEF Spec

\* A task never has more than maxreq receives pending.
THEOREM ThrottleHolds == Spec => []PendingBound
<1>1. TypeOK /\ WindowInv => PendingBound
  <2>. SUFFICES ASSUME TypeOK, WindowInv, NEW t \in Tasks
                PROVE  Cardinality(rcvids[t]) <= MaxReq(t)
    BY DEF PendingBound
  <2>1. /\ MaxReq(t) \in Nat /\ MaxReqH(t) \in Nat /\ MaxReqH(t) <= MaxReq(t)
        /\ istep[t] \in Nat /\ rstep[t] \in Nat /\ pc[t] \in PC
    BY MaxReqType DEF TypeOK
  <2>2. \E a, b \in Nat : b <= a + MaxReq(t) /\ rcvids[t] \subseteq a .. b - 1
    <3>. DEFINE lo == Low(t)
    <3>1. lo \in Nat /\ Window(t)
      BY <2>1 DEF Low, WindowInv
    <3>3. CASE pc[t] \in {"send", "drain", "waitall", "returned"}
      BY <2>1, <3>1, <3>3 DEF Window
    <3>4. CASE pc[t] \in {"start", "alltoallw"}
      BY <2>1, <3>1, <3>4 DEF Window
    <3>5. CASE pc[t] \in {"post", "handshake"}
      <4>1. CASE Filling(t)
        <5>1. rstep[t] + 1 <= 0 + MaxReq(t)
          BY <2>1, <4>1 DEF Filling
        <5>2. rcvids[t] \subseteq 0 .. (rstep[t] + 1) - 1
          BY <2>1, <3>1, <3>5, <4>1 DEF Window, Refilling, Filling
        <5>. QED
          BY <2>1, <5>1, <5>2
      <4>2. CASE Refilling(t)
        <5>1. rstep[t] + 1 <= lo + 1 + MaxReq(t)
          BY <2>1, <3>1, <4>2 DEF Refilling
        <5>2. rcvids[t] \subseteq lo + 1 .. (rstep[t] + 1) - 1
          BY <2>1, <3>1, <3>5, <4>2 DEF Window, Refilling, Filling
        <5>. QED
          BY <2>1, <3>1, <5>1, <5>2
      <4>. QED
        BY <3>1, <3>5, <4>1, <4>2 DEF Window
    <3>. QED
      BY <2>1, <3>3, <3>4, <3>5 DEF PC
  <2>. QED
    BY <2>1, <2>2, IntervalBound
<1>. QED
  BY <1>1, WindowHolds, TypeCorrect, PTL

-----------------------------------------------------------------------------
(***************************************************************************)
(* Nothing is left behind.  Every message of a call belongs to a block; a  *)
(* task that is through with step i has sent its block of that step, with  *)
(* the handshake it needed, and has announced the block it expects and not *)
(* forgotten to wait for it; and a task leaves the loops only after all    *)
(* its steps, which bring it together with everybody it exchanges with.    *)
(***************************************************************************)

IsData(e) == \E s, d \in Tasks : Sends(s, d) /\ e = Data(s, d)
IsHandshake(e) ==
  /\ fc.hs /\ fc.max_pend_req # 0
  /\ \E s, d \in Tasks : s # d /\ Sends(s, d) /\ e = Handshake(d, s)
Legitimate == \A e \in sent \cup posted : IsData(e) \/ IsHandshake(e)

\* The exchange is MPI_Alltoallw.
InOneGo(t) ==
  /\ pc[t] \in {"start", "alltoallw", "returned"}
  /\ pc[t] # "start" => \A d \in Tasks : Sends(t, d) => Data(t, d) \in sent
  /\ pc[t] = "returned" => \A s \in Tasks : Sends(s, t) => Matched(Data(s, t))

\* The steps whose block has been sent.
Upto(t) ==
  IF pc[t] = "drain" \/ (pc[t] \in {"post", "handshake"} /\ MaxReq(t) <= rstep[t])
  THEN istep[t] + 1 ELSE istep[t]

SentTo(t, p) == Sends(t, p) => Data(t, p) \in sent /\ HandshakeArrived(t, p)
Expected(t, i) ==
  LET p == Swapids(t, i) IN Sends(p, t) => i \in rcvids[t] \/ Matched(Data(p, t))
Announced(t, p) == fc.hs /\ Sends(p, t) => Handshake(t, p) \in sent

Counters(t) ==
  /\ pc[t] \in {"send", "drain"} => istep[t] < Steps(t)
  /\ pc[t] \in {"post", "handshake"} => rstep[t] < Steps(t) /\ istep[t] < Steps(t)
  /\ pc[t] \in {"waitall", "returned"} => Steps(t) <= istep[t] /\ Steps(t) <= rstep[t]

StepDone(t, i) ==
  /\ i < Upto(t) => SentTo(t, Swapids(t, i))
  /\ i < rstep[t] => Expected(t, i) /\ Announced(t, Swapids(t, i))
  /\ i = rstep[t] /\ pc[t] = "handshake" =>
       fc.hs /\ Sends(Swapids(t, i), t) /\ Expected(t, i)

StepByStep(t) ==
  /\ pc[t] # "alltoallw"
  /\ pc[t] # "start" /\ Sends(t, t) => Matched(Data(t, t))
  /\ \A i \in 0 .. Steps(t) - 1 : StepDone(t, i)
  /\ Counters(t)
  /\ pc[t] = "returned" => rcvids[t] = {}

Clean(t) == IF fc.max_pend_req = 0 THEN InOneGo(t) ELSE StepByStep(t)
CleanInv == Legitimate /\ \A t \in Tasks : Clean(t)

\* There are no more first receives than steps, and fewer sends ahead of the
\* first wait unless all receives are posted at the start.
LEMMA MaxReqSteps ==
  ASSUME fc \in FlowControl, NEW t \in Tasks
  PROVE  MaxReq(t) <= Steps(t) /\ (MaxReqH(t) < Steps(t) \/ MaxReq(t) = Steps(t))
<1>1. Steps(t) \in Nat
  BY StepsType
<1>2. fc.max_pend_req \in Int
  BY DEF FlowControl
<1>. QED
  BY <1>1, <1>2, Z3 DEF MaxReq, MaxReqH, Throttled

LEMMA LegitimateNext == TypeOK /\ WindowInv /\ CleanInv /\ [Next]_vars => Legitimate'
<1>. SUFFICES ASSUME TypeOK, WindowInv, CleanInv, [Next]_vars PROVE Legitimate'
  OBVIOUS
<1>a. UNCHANGED <<traffic, fc>>
  BY DEF Next, Step, Done, vars, Alltoallw, AlltoallwReturn, SendToSelf, PostReceive,
         SendHandshake, SendData, Drain, WaitAll
<1>b. \A e : (IsData(e) => IsData(e)') /\ (IsHandshake(e) => IsHandshake(e)')
  BY <1>a DEF IsData, IsHandshake, Sends
<1>1. SUFFICES ASSUME NEW t \in Tasks, Step(t), NEW e \in sent' \cup posted', e \notin sent \cup posted
               PROVE  IsData(e) \/ IsHandshake(e)
  BY <1>b DEF CleanInv, Legitimate, Next, Done, vars
<1>c. fc.max_pend_req # 0 => StepByStep(t)
  BY DEF CleanInv, Clean
<1>d. \A i \in 0 .. Steps(t) - 1 : Swapids(t, i) \in Tasks \ {t}
  BY PartnersOfTask
<1>e. /\ MaxReq(t) \in Nat /\ Steps(t) \in Nat /\ MaxReq(t) <= Steps(t)
      /\ rstep[t] \in Nat /\ istep[t] \in Nat
  BY MaxReqType, MaxReqSteps, StepsType DEF TypeOK
<1>2. CASE Alltoallw(t)
  BY <1>2, <1>1 DEF Alltoallw, IsData
<1>3. CASE AlltoallwReturn(t) \/ WaitAll(t)
  BY <1>3, <1>1 DEF AlltoallwReturn, WaitAll
<1>4. CASE SendToSelf(t)
  <2>1. CASE \E d \in Tasks : d = t /\ Sends(t, d) /\ e = Data(t, t)
    BY <2>1 DEF IsData
  <2>2. CASE \E p \in Tasks : /\ fc.hs /\ Sends(t, p) /\ e = Handshake(p, t)
                              /\ \E i \in 0 .. MaxReq(t) - 1 : p = Swapids(t, i)
    <3>1. PICK p \in Tasks : /\ fc.hs /\ Sends(t, p) /\ e = Handshake(p, t)
                             /\ \E i \in 0 .. MaxReq(t) - 1 : p = Swapids(t, i)
      BY <2>2
    <3>2. p # t
      BY <3>1, <1>d, <1>e
    <3>3. fc.max_pend_req # 0
      BY <1>4 DEF SendToSelf
    <3>. QED
      BY <3>1, <3>2, <3>3 DEF IsHandshake
  <2>. QED
    BY <1>4, <1>1, <2>1, <2>2 DEF SendToSelf
<1>5. CASE PostReceive(t)
  BY <1>5, <1>1 DEF PostReceive, IsData
<1>6. CASE SendHandshake(t)
  <2>1. PICK p \in Tasks : p = Swapids(t, rstep[t]) /\ e = Handshake(t, p)
    BY <1>6, <1>1 DEF SendHandshake
  <2>2. fc.max_pend_req # 0
    BY <1>6 DEF SendHandshake, CleanInv, Clean, InOneGo
  <2>3. rstep[t] \in 0 .. Steps(t) - 1
    BY <1>c, <1>e, <1>6, <2>2 DEF SendHandshake, StepByStep, Counters
  <2>4. fc.hs /\ Sends(p, t)
    BY <1>c, <1>6, <2>1, <2>2, <2>3 DEF SendHandshake, StepByStep, StepDone
  <2>. QED
    BY <1>d, <2>1, <2>2, <2>3, <2>4 DEF IsHandshake
<1>7. CASE SendData(t)
  BY <1>7, <1>1 DEF SendData, IsData
<1>8. CASE Drain(t)
  <2>1. PICK p \in Tasks : /\ rstep[t] < Steps(t) /\ p = Swapids(t, rstep[t])
                           /\ fc.hs /\ Sends(t, p) /\ e = Handshake(p, t)
    BY <1>8, <1>1 DEF Drain
  <2>2. fc.max_pend_req # 0
    BY <1>8 DEF Drain, CleanInv, Clean, InOneGo
  <2>3. p # t
    BY <1>d, <1>e, <2>1
  <2>. QED
    BY <2>1, <2>2, <2>3 DEF IsHandshake
<1>. QED
  BY <1>1, <1>2, <1>3, <1>4, <1>5, <1>6, <1>7, <1>8 DEF Step

\* What other tasks send and post takes nothing from a task.
LEMMA CleanKept ==
  ASSUME UNCHANGED <<traffic, fc>>, sent \subseteq sent', posted \subseteq posted',
         NEW t \in Tasks, Clean(t),
         pc'[t] = pc[t], istep'[t] = istep[t], rstep'[t] = rstep[t], rcvids'[t] = rcvids[t]
  PROVE  Clean(t)'
<1>1. /\ Steps(t)' = Steps(t) /\ MaxReq(t)' = MaxReq(t) /\ \A i : Swapids(t, i)' = Swapids(t, i)
  BY ScheduleFixed
<1>2. \A p, q : (Sends(p, q))' = Sends(p, q)
  BY DEF Sends
<1>3. \A e : Matched(e) => Matched(e)'
  BY DEF Matched
<1>4. CASE fc.max_pend_req = 0
  BY <1>2, <1>3, <1>4 DEF Clean, InOneGo
<1>5. CASE fc.max_pend_req # 0
  <2>1. StepByStep(t)
    BY <1>5 DEF Clean
  <2>2. Upto(t)' = Upto(t) /\ Counters(t)'
    BY <1>1, <2>1 DEF StepByStep, Upto, Counters
  <2>3. \A p : /\ SentTo(t, p) => SentTo(t, p)'
               /\ Announced(t, p) => Announced(t, p)'
    BY <1>2, <1>3 DEF SentTo, Announced, HandshakeArrived
  <2>4. \A i : Expected(t, i) => Expected(t, i)'
    BY <1>1, <1>2, <1>3 DEF Expected
  <2>5. ASSUME NEW i \in 0 .. Steps(t) - 1 PROVE StepDone(t, i)'
    <3>1. StepDone(t, i)
      BY <2>1 DEF StepByStep
    <3>. QED
      BY <1>1, <1>2, <2>2, <2>3, <2>4, <3>1 DEF StepDone
  <2>. QED
    BY <1>1, <1>2, <1>3, <1>5, <2>1, <2>2, <2>5 DEF Clean, StepByStep
<1>. QED
  BY <1>4, <1>5

LEMMA CleanNext == TypeOK /\ WindowInv /\ CleanInv /\ [Next]_vars => CleanInv'
<1>. SUFFICES ASSUME TypeOK, WindowInv, CleanInv, [Next]_vars, NEW t \in Tasks
              PROVE  Clean(t)'
  BY LegitimateNext DEF CleanInv
<1>a. UNCHANGED <<traffic, fc>>
  BY DEF Next, Step, Done, vars, Alltoallw, AlltoallwReturn, SendToSelf, PostReceive,
         SendHandshake, SendData, Drain, WaitAll
<1>b. /\ Steps(t)' = Steps(t) /\ MaxReq(t)' = MaxReq(t) /\ MaxReqH(t)' = MaxReqH(t)
      /\ \A i : Swapids(t, i)' = Swapids(t, i)
      /\ \A p, q : Sends(p, q)' = Sends(p, q)
  BY <1>a, ScheduleFixed DEF Sends
<1>c. sent \subseteq sent' /\ posted \subseteq posted' /\ \A e : Matched(e) => Matched(e)'
  BY DEF Next, Step, Done, vars, Alltoallw, AlltoallwReturn, SendToSelf, PostReceive,
         SendHandshake, SendData, Drain, WaitAll, Matched
<1>d. /\ Steps(t) \in Nat /\ MaxReq(t) \in Nat /\ MaxReqH(t) \in Nat
      /\ MaxReqH(t) <= MaxReq(t) /\ MaxReq(t) <= Steps(t)
      /\ MaxReqH(t) < Steps(t) \/ MaxReq(t) = Steps(t)
      /\ istep[t] \in Nat /\ rstep[t] \in Nat /\ rcvids[t] \subseteq Nat
      /\ Steps(t) > 0 => MaxReq(t) > 0
  BY MaxReqType, MaxReqSteps, StepsType DEF TypeOK
<1>e. Clean(t) /\ Window(t)
  BY DEF CleanInv, WindowInv
<1>f. \A i \in 0 .. Steps(t) - 1 : Swapids(t, i) \in Tasks \ {t}
  BY PartnersOfTask
<1>1. CASE UNCHANGED vars \/ \E u \in Tasks : Step(u) /\ u # t
  <2>1. /\ pc'[t] = pc[t] /\ istep'[t] = istep[t]
        /\ rstep'[t] = rstep[t] /\ rcvids'[t] = rcvids[t]
    BY <1>1 DEF TypeOK, Step, vars, Goto, Alltoallw, AlltoallwReturn, SendToSelf, PostReceive,
           NextReceive, SendHandshake, SendData, Drain, WaitAll
  <2>. QED
    BY <1>a, <1>c, <1>e, <2>1, CleanKept
\* The exchange in one go.
<1>2. CASE fc.max_pend_req = 0 /\ Step(t)
  <2>1. InOneGo(t)
    BY <1>2, <1>e DEF Clean
  <2>2. CASE Alltoallw(t)
    BY <1>a, <1>b, <1>2, <2>1, <2>2 DEF Alltoallw, Clean, InOneGo, Goto, TypeOK
  <2>3. CASE AlltoallwReturn(t)
    BY <1>a, <1>b, <1>c, <1>2, <2>1, <2>3 DEF AlltoallwReturn, Clean, InOneGo, Goto, TypeOK
  <2>. QED
    BY <1>2, <2>1, <2>2, <2>3 DEF Step, InOneGo, SendToSelf, PostReceive, SendHandshake,
       SendData, Drain, WaitAll
\* Step by step.
<1>3. ASSUME fc.max_pend_req # 0, Step(t) PROVE StepByStep(t)'
  <2>1. StepByStep(t) /\ pc[t] # "alltoallw"
    BY <1>3, <1>e DEF Clean, StepByStep
  <2>2. \A p : /\ SentTo(t, p) => SentTo(t, p)'
               /\ Announced(t, p) => Announced(t, p)'
    BY <1>a, <1>b, <1>c DEF SentTo, Announced, HandshakeArrived
  <2>3. \A i : rcvids[t] \subseteq rcvids'[t] /\ Expected(t, i) => Expected(t, i)'
    BY <1>b, <1>c DEF Expected
  <2>4. SUFFICES /\ pc'[t] # "alltoallw"
                 /\ Sends(t, t) => Matched(Data(t, t))'
                 /\ \A i \in 0 .. Steps(t) - 1 : StepDone(t, i)'
                 /\ Counters(t)'
                 /\ pc'[t] = "returned" => rcvids'[t] = {}
    BY <1>b DEF StepByStep
  <2>5. pc[t] # "start" => (Sends(t, t) => Matched(Data(t, t))')
    BY <1>c, <2>1 DEF StepByStep
  <2>6. \A i \in 0 .. Steps(t) - 1 : StepDone(t, i)
    BY <2>1 DEF StepByStep
  <2>7. Counters(t)
    BY <2>1 DEF StepByStep
  <2>8. CASE SendToSelf(t)
    <3>1. /\ istep'[t] = 0 /\ rstep'[t] = 0 /\ rcvids'[t] = {}
          /\ pc'[t] = IF Steps(t) = 0 THEN "waitall" ELSE "post"
      BY <2>8, <1>e DEF SendToSelf, Window, Goto, TypeOK
    <3>2. Upto(t)' = 0
      BY <1>b, <1>d, <3>1 DEF Upto
    <3>3. \A i \in 0 .. Steps(t) - 1 : StepDone(t, i)'
      BY <3>1, <3>2 DEF StepDone
    <3>4. Counters(t)'
      BY <1>b, <1>d, <3>1 DEF Counters
    <3>5. Sends(t, t) => Matched(Data(t, t))'
      BY <2>8 DEF SendToSelf, Matched
    <3>. QED
      BY <3>1, <3>3, <3>4, <3>5
  \* On to the next receive or the next step.
  <2>9. ASSUME pc[t] \in {"post", "handshake"}, NextReceive(t)
        PROVE  /\ pc'[t] \in {"post", "send", "waitall"} /\ rstep'[t] = rstep[t] + 1
               /\ Upto(t)' = Upto(t) /\ Counters(t)'
    <3>1. rstep'[t] = rstep[t] + 1
      BY <2>9 DEF NextReceive, TypeOK
    <3>2. CASE rstep[t] < MaxReq(t)
      <4>1. /\ istep'[t] = istep[t] /\ istep[t] = 0
            /\ pc'[t] = IF rstep[t] + 1 < MaxReq(t) THEN "post" ELSE "send"
        BY <1>d, <1>e, <2>9, <3>2 DEF NextReceive, Goto, TypeOK, Window, Filling, Refilling, Low
      <4>. QED
        BY <1>b, <1>d, <2>7, <2>9, <3>1, <3>2, <4>1 DEF Upto, Counters
    <3>3. CASE ~(rstep[t] < MaxReq(t))
      <4>1. /\ istep'[t] = istep[t] + 1
            /\ pc'[t] = IF istep[t] + 1 < Steps(t) THEN "send" ELSE "waitall"
        BY <2>9, <3>3 DEF NextReceive, Goto, TypeOK
      <4>2. Upto(t) = istep[t] + 1 /\ Upto(t)' = istep[t] + 1
        BY <1>b, <1>d, <2>9, <3>3, <4>1 DEF Upto
      <4>3. MaxReqH(t) <= istep[t] /\ rstep[t] = MaxReq(t) + (istep[t] - MaxReqH(t))
        BY <1>d, <1>e, <2>9, <3>3 DEF Window, Filling, Refilling, Low
      <4>4. istep[t] + 1 >= Steps(t) => rstep[t] + 1 >= Steps(t)
        BY <1>d, <4>3
      <4>5. Counters(t)'
        BY <1>b, <1>d, <3>1, <4>1, <4>4 DEF Counters
      <4>. QED
        BY <3>1, <4>1, <4>2, <4>5
    <3>. QED
      BY <3>2, <3>3
  <2>10. CASE PostReceive(t)
    <3>1. pc[t] = "post" /\ rstep[t] \in 0 .. Steps(t) - 1
      BY <1>d, <2>7, <2>10 DEF PostReceive, Counters
    <3>p. PICK r \in 0 .. Steps(t) - 1 : r = rstep[t]
      BY <3>1
    <3>q. PICK p \in Tasks : p = Swapids(t, r)
      BY <1>f
    <3>2. rcvids[t] \subseteq rcvids'[t] /\ Expected(t, r)'
      BY <1>b, <2>10, <3>p DEF PostReceive, TypeOK, Expected
    <3>3. \A i : Expected(t, i) => Expected(t, i)'
      BY <2>3, <3>2
    <3>4. CASE fc.hs /\ Sends(p, t)
      <4>1. pc'[t] = "handshake" /\ istep'[t] = istep[t] /\ rstep'[t] = rstep[t]
        BY <2>10, <3>p, <3>q, <3>4 DEF PostReceive, Goto, TypeOK
      <4>2. Upto(t)' = Upto(t) /\ Counters(t)'
        BY <1>b, <2>7, <3>1, <4>1 DEF Upto, Counters
      <4>3. \A i \in 0 .. Steps(t) - 1 : StepDone(t, i)'
        BY <1>a, <1>b, <2>2, <2>6, <3>p, <3>q, <3>2, <3>3, <3>4, <4>1, <4>2 DEF StepDone
      <4>. QED
        BY <2>5, <3>1, <4>1, <4>2, <4>3
    <3>5. CASE ~(fc.hs /\ Sends(p, t))
      <4>1. NextReceive(t)
        BY <2>10, <3>p, <3>q, <3>5 DEF PostReceive
      <4>2. Announced(t, p)'
        BY <1>a, <1>b, <3>5 DEF Announced
      <4>3. ASSUME NEW i \in 0 .. Steps(t) - 1 PROVE StepDone(t, i)'
        <5>1. StepDone(t, i) /\ (i < rstep'[t] => i < rstep[t] \/ i = r)
          BY <1>d, <2>6, <2>9, <3>1, <3>p, <4>1
        <5>. QED
          BY <1>b, <2>2, <2>9, <3>q, <3>1, <3>2, <3>3, <4>1, <4>2, <5>1 DEF StepDone
      <4>. QED
        BY <2>5, <2>9, <3>1, <4>1, <4>3
    <3>. QED
      BY <3>4, <3>5
  <2>11. CASE SendHandshake(t)
    <3>1. /\ pc[t] = "handshake" /\ rstep[t] \in 0 .. Steps(t) - 1
          /\ NextReceive(t) /\ rcvids'[t] = rcvids[t]
      BY <1>d, <2>7, <2>11 DEF SendHandshake, Counters
    <3>p. PICK r \in 0 .. Steps(t) - 1 : r = rstep[t]
      BY <3>1
    <3>q. PICK p \in Tasks : p = Swapids(t, r)
      BY <1>f
    <3>2. Expected(t, r)
      BY <2>6, <3>1, <3>p DEF StepDone
    <3>3. Announced(t, p)'
      BY <1>b, <2>11, <3>p, <3>q DEF SendHandshake, Announced
    <3>4. ASSUME NEW i \in 0 .. Steps(t) - 1 PROVE StepDone(t, i)'
      <4>1. StepDone(t, i) /\ (i < rstep'[t] => i < rstep[t] \/ i = r)
        BY <1>d, <2>6, <2>9, <3>1, <3>p
      <4>. QED
        BY <1>b, <2>2, <2>3, <2>9, <3>1, <3>q, <3>2, <3>3, <4>1 DEF StepDone
    <3>. QED
      BY <2>5, <2>9, <3>1, <3>4
  <2>12. CASE SendData(t)
    <3>1. /\ pc[t] = "send" /\ istep[t] \in 0 .. Steps(t) - 1
          /\ rstep'[t] = rstep[t] /\ rcvids'[t] = rcvids[t]
          /\ IF istep[t] > MaxReqH(t) - 1 THEN pc'[t] = "drain" /\ istep'[t] = istep[t]
             ELSE /\ pc'[t] = IF istep[t] + 1 < Steps(t) THEN "send" ELSE "waitall"
                  /\ istep'[t] = istep[t] + 1
      BY <1>d, <2>7, <2>12 DEF SendData, Counters, Goto, TypeOK
    <3>p. PICK r \in 0 .. Steps(t) - 1 : r = istep[t]
      BY <3>1
    <3>q. PICK p \in Tasks : p = Swapids(t, r)
      BY <1>f
    <3>2. Upto(t) = istep[t] /\ Upto(t)' = istep[t] + 1
      BY <1>b, <3>1 DEF Upto
    <3>3. SentTo(t, p)'
      BY <1>a, <1>b, <1>c, <2>12, <3>p, <3>q DEF SendData, SentTo, HandshakeArrived
    <3>4. Counters(t)'
      <4>1. rstep[t] = MaxReq(t) + Low(t) \/ Steps(t) <= rstep[t]
        BY <1>e, <3>1 DEF Window
      <4>2. istep[t] < MaxReqH(t) /\ istep[t] + 1 >= Steps(t) => Steps(t) <= rstep[t]
        BY <1>d, <3>1, <4>1 DEF Low
      <4>. QED
        BY <1>b, <1>d, <3>1, <4>2 DEF Counters
    <3>5. ASSUME NEW i \in 0 .. Steps(t) - 1 PROVE StepDone(t, i)'
      <4>1. StepDone(t, i) /\ (i < Upto(t)' => i < Upto(t) \/ i = r)
        BY <1>d, <2>6, <3>2, <3>p
      <4>. QED
        BY <1>b, <2>2, <2>3, <3>1, <3>q, <3>3, <4>1 DEF StepDone
    <3>. QED
      BY <2>5, <3>1, <3>4, <3>5
  <2>13. CASE Drain(t)
    <3>1. /\ pc[t] = "drain" /\ istep[t] \in 0 .. Steps(t) - 1
          /\ rstep'[t] = rstep[t] /\ rcvids'[t] = rcvids[t] \ Due(t)
          /\ IF rstep[t] < Steps(t) THEN pc'[t] = "post" /\ istep'[t] = istep[t]
             ELSE /\ pc'[t] = IF istep[t] + 1 < Steps(t) THEN "send" ELSE "waitall"
                  /\ istep'[t] = istep[t] + 1
      BY <1>d, <2>7, <2>13 DEF Drain, Counters, Goto, TypeOK
    <3>2. rstep[t] < Steps(t) => MaxReq(t) <= rstep[t]
      BY <1>d, <1>e, <3>1 DEF Window, Low
    <3>3. Upto(t) = istep[t] + 1 /\ Upto(t)' = istep[t] + 1
      BY <1>b, <3>1, <3>2 DEF Upto
    <3>4. Counters(t)'
      BY <1>b, <1>d, <3>1 DEF Counters
    <3>5. \A i \in Due(t) : Matched(Data(Swapids(t, i), t))
      BY <2>13 DEF Drain, Completed
    <3>6. \A i : Expected(t, i) => Expected(t, i)'
      BY <1>b, <1>c, <3>1, <3>5 DEF Expected
    <3>7. \A i \in 0 .. Steps(t) - 1 : StepDone(t, i)'
      BY <1>b, <2>2, <2>6, <3>1, <3>3, <3>6 DEF StepDone
    <3>. QED
      BY <2>5, <3>1, <3>4, <3>7
  <2>14. CASE WaitAll(t)
    <3>1. /\ pc[t] = "waitall" /\ pc'[t] = "returned" /\ rcvids'[t] = {}
          /\ rstep'[t] = rstep[t] /\ istep'[t] = istep[t]
      BY <2>14 DEF WaitAll, Goto, TypeOK
    <3>2. Upto(t)' = Upto(t) /\ Counters(t)'
      BY <1>b, <2>7, <3>1 DEF Upto, Counters
    <3>3. \A i \in rcvids[t] : Matched(Data(Swapids(t, i), t))
      BY <2>14 DEF WaitAll, Completed
    <3>4. \A i : Expected(t, i) => Expected(t, i)'
      BY <1>b, <1>c, <3>1, <3>3 DEF Expected
    <3>5. \A i \in 0 .. Steps(t) - 1 : StepDone(t, i)'
      BY <1>b, <2>2, <2>6, <3>1, <3>2, <3>4 DEF StepDone
    <3>. QED
      BY <2>5, <3>1, <3>2, <3>5
  <2>. QED
    BY <1>3, <2>1, <2>8, <2>10, <2>11, <2>12, <2>13, <2>14 DEF Step, Alltoallw, AlltoallwReturn
<1>. QED
  BY <1>1, <1>2, <1>3, <1>a DEF Next, Done, Clean

LEMMA CleanHolds == Spec => []CleanInv
<1>1. Init => CleanInv
  <2>. SUFFICES ASSUME Init, NEW t \in Tasks PROVE Legitimate /\ Clean(t)
    BY SwapmAssumption DEF CleanInv, Tasks
  <2>1. Legitimate
    BY DEF Init, Legitimate
  <2>2. pc[t] = "start" /\ istep[t] = 0 /\ rstep[t] = 0 /\ rcvids[t] = {}
    BY DEF Init
  <2>3. Upto(t) = 0
    BY <2>2 DEF Upto
  <2>4. \A i \in 0 .. Steps(t) - 1 : StepDone(t, i)
    BY <2>2, <2>3 DEF StepDone
  <2>. QED
    BY <2>1, <2>2, <2>4 DEF Clean, InOneGo, StepByStep, Counters
<1>2. TypeOK /\ WindowInv /\ CleanInv /\ [Next]_vars => CleanInv'
  BY CleanNext
<1>. QED
  BY <1>1, <1>2, TypeCorrect, WindowHolds, PTL DEF Spec

\* Everything a returned task was to receive has arrived, and everything it
\* was to send or to announce is sent.
LEMMA ReturnedDone ==
  ASSUME TypeOK, CleanInv, NEW t \in Tasks, pc[t] = "returned", NEW u \in Tasks
  PROVE  /\ Sends(u, t) => Matched(Data(u, t))
         /\ Sends(t, u) => Data(t, u) \in sent
         /\ fc.max_pend_req # 0 /\ u # t => SentTo(t, u) /\ Announced(t, u)
<1>1. Clean(t)
  BY DEF CleanInv
<1>2. CASE fc.max_pend_req = 0
  BY <1>1, <1>2 DEF Clean, InOneGo
<1>3. CASE fc.max_pend_req # 0
  <2>1. StepByStep(t)
    BY <1>1, <1>3 DEF Clean
  <2>2. CASE u = t
    BY <2>1, <2>2 DEF StepByStep, Matched
  <2>3. CASE u # t /\ (Sends(t, u) \/ Sends(u, t))
    <3>1. PICK i \in 0 .. Steps(t) - 1 : Swapids(t, i) = u
      BY <2>3, PartnersOfTask
    <3>2. Upto(t) = istep[t] /\ Counters(t) /\ rcvids[t] = {}
      BY <2>1 DEF StepByStep, Upto
    <3>3. i < Upto(t) /\ i < rstep[t]
      BY <3>2, StepsType DEF Counters, TypeOK
    <3>4. SentTo(t, u) /\ Expected(t, i) /\ Announced(t, u)
      BY <2>1, <3>1, <3>3 DEF StepByStep, StepDone
    <3>. QED
      BY <1>3, <3>1, <3>2, <3>4 DEF SentTo, Expected
  <2>4. CASE u # t /\ ~Sends(t, u) /\ ~Sends(u, t)
    BY <2>4 DEF SentTo, Announced
  <2>. QED
    BY <2>2, <2>3, <2>4
<1>. QED
  BY <1>2, <1>3

\* A task that has returned leaves no message behind that a later call, which
\* uses the same tags, could take for its own.
THEOREM LeavesNothing == Spec => []CleanExit
<1>1. TypeOK /\ CleanInv => CleanExit
  <2>. SUFFICES ASSUME TypeOK, CleanInv, NEW t \in Tasks, pc[t] = "returned"
                PROVE  /\ \A s \in Tasks : Sends(s, t) => Matched(Data(s, t))
                       /\ \A e \in sent \cup posted : e.dst = t => Matched(e)
                       /\ \A e \in posted : e.src = t => e \in sent
    BY DEF CleanExit
  <2>1. \A s \in Tasks : Sends(s, t) => Matched(Data(s, t))
    BY ReturnedDone
  <2>2. ASSUME NEW e \in sent \cup posted
        PROVE  (e.dst = t => Matched(e)) /\ (e.src = t => e \in sent)
    <3>1. CASE IsData(e)
      <4>1. PICK s, d \in Tasks : Sends(s, d) /\ e = Data(s, d)
        BY <3>1 DEF IsData
      <4>2. e.src = s /\ e.dst = d
        BY <4>1 DEF Data
      <4>. QED
        BY <4>1, <4>2, ReturnedDone
    <3>2. CASE IsHandshake(e)
      <4>1. PICK s, d \in Tasks : s # d /\ Sends(s, d) /\ e = Handshake(d, s)
        BY <3>2 DEF IsHandshake
      <4>2. e.src = d /\ e.dst = s /\ fc.hs /\ fc.max_pend_req # 0
        BY <3>2, <4>1 DEF Handshake, IsHandshake
      <4>3. \A u \in Tasks : u # t => SentTo(t, u) /\ Announced(t, u)
        BY <4>2, ReturnedDone
      <4>. QED
        BY <4>1, <4>2, <4>3 DEF SentTo, HandshakeArrived, Announced
    <3>. QED
      BY <3>1, <3>2 DEF CleanInv, Legitimate
  <2>. QED
    BY <2>1, <2>2
<1>. QED
  BY <1>1, CleanHolds, TypeCorrect, PTL

-----------------------------------------------------------------------------

\* In particular everything a returned task was to receive has arrived.
BlocksThere == \A t, s \in Tasks : pc[t] = "returned" /\ Sends(s, t) => Matched(Data(s, t))

LEMMA CleanMatched == TypeOK /\ CleanInv => BlocksThere
BY ReturnedDone DEF BlocksThere

\* Whatever the flow control, pio_swapm takes only steps MPI_Alltoallw would:
\* blocks arrive and stay, and a task returns once all of its own are there.
\* (That they all arrive and all tasks return is the fairness part of
\* ExchangeSpec.)
THEOREM ImplementsAlltoallw == Spec => Exchange!Init /\ [][Exchange!Next]_Exchange!vars
<1>1. Init => Exchange!Init
  BY SwapmAssumption DEF Init, Exchange!Init, Received, Matched, Returned
<1>2. TypeOK /\ CleanInv /\ BlocksThere' /\ [Next]_vars => [Exchange!Next]_Exchange!vars
  <2>. SUFFICES ASSUME TypeOK, CleanInv, BlocksThere', [Next]_vars
                PROVE  [Exchange!Next]_Exchange!vars
    OBVIOUS
  <2>1. /\ UNCHANGED <<traffic, fc>> /\ sent \subseteq sent' /\ posted \subseteq posted'
    BY DEF Next, Step, Done, vars, Alltoallw, AlltoallwReturn, SendToSelf, PostReceive,
           SendHandshake, SendData, Drain, WaitAll
  <2>2. Received \subseteq Received' /\ Received' \subseteq traffic
    BY <2>1 DEF Received, Matched
  <2>3. CASE \E t \in Tasks : AlltoallwReturn(t) \/ WaitAll(t)
    <3>1. PICK t \in Tasks : AlltoallwReturn(t) \/ WaitAll(t)
      BY <2>3
    <3>2. /\ pc[t] # "returned" /\ pc' = [pc EXCEPT ![t] = "returned"]
          /\ UNCHANGED <<sent, posted>>
      BY <3>1 DEF AlltoallwReturn, WaitAll, Goto
    <3>3. Returned' = Returned \cup {t} /\ t \notin Returned
      BY <3>2 DEF Returned, TypeOK
    <3>4. Received' = Received
      BY <2>1, <3>2 DEF Received, Matched
    <3>5. ASSUME NEW b \in traffic, b[2] = t PROVE b \in Received
      <4>1. b[1] \in Tasks /\ b[2] \in Tasks /\ b = <<b[1], b[2]>>
        BY DEF TypeOK
      <4>2. pc'[t] = "returned"
        BY <3>2 DEF TypeOK
      <4>. QED
        BY <2>1, <3>2, <3>5, <4>1, <4>2 DEF BlocksThere, Sends, Received, Matched
    <3>6. Exchange!Return(t)
      BY <2>1, <3>3, <3>4, <3>5 DEF Exchange!Return
    <3>. QED
      BY <3>6 DEF Exchange!Next
  <2>4. CASE ~(\E t \in Tasks : AlltoallwReturn(t) \/ WaitAll(t))
    <3>1. Returned' = Returned
      <4>. SUFFICES ASSUME NEW t \in Tasks
                    PROVE  pc'[t] = "returned" <=> pc[t] = "returned"
        BY DEF Returned
      <4>. QED
        BY <2>4 DEF Next, Step, Done, vars, TypeOK, Goto, Alltoallw, SendToSelf,
           PostReceive, NextReceive, SendHandshake, SendData, Drain
    <3>2. Exchange!Deliver
      BY <2>1, <2>2, <3>1 DEF Exchange!Deliver
    <3>. QED
      BY <3>2 DEF Exchange!Next
  <2>. QED
    BY <2>3, <2>4
<1>. QED
  BY <1>1, <1>2, TypeCorrect, CleanHolds, CleanMatched, PTL DEF Spec

=============================================================================
