------------------------------ MODULE Recursion ------------------------------
(***************************************************************************)
(* Induction and recursion, stated for sets and functions rather than for  *)
(* operators.  The recursive functions of this project (ceil2, pair, sums, *)
(* greatest common divisors) call themselves once, on an argument of lower *)
(* rank; such an equation has a solution, and what the solution computes   *)
(* is shown by induction on the rank.                                      *)
(***************************************************************************)
EXTENDS Naturals, FiniteSets, FiniteSetTheorems, TLAPS

(* Induction over the naturals: a counterexample n would make the part of  *)
(* S up to n, a finite set, as large as itself without its member 0.       *)
LEMMA NatSetInduction ==
    ASSUME NEW S, 0 \in S, \A n \in Nat : n \in S => n + 1 \in S
    PROVE  Nat \subseteq S
  <1> SUFFICES ASSUME NEW n \in Nat, n \notin S PROVE FALSE
    OBVIOUS
  <1> DEFINE T == S \cap (0 .. n)
             f == [x \in T |-> x + 1]
  <1>1. IsFiniteSet(0 .. n)
    BY FS_Interval
  <1>2. IsFiniteSet(T) /\ 0 \in T
    BY <1>1, FS_Subset
  <1>3. f \in [T -> T \ {0}]
    OBVIOUS
  <1>4. \A x, y \in T : x # y => f[x] # f[y]
    OBVIOUS
  <1> HIDE DEF T, f
  <1>5. IsFiniteSet(T \ {0}) /\ Cardinality(T \ {0}) = Cardinality(T) - 1
    BY <1>2, FS_RemoveElement
  <1>6. Cardinality(T) \in Nat
    BY <1>2, FS_CardinalityType
  <1> QED BY <1>2, <1>3, <1>4, <1>5, <1>6, FS_PigeonHole

(* A recursion on A: it ends at the members of stop, and goes from any     *)
(* other member on to its predecessor, which has a lower rank.             *)
Ranked(A, rank, stop, pred) ==
    /\ rank \in [A -> Nat]
    /\ pred \in [A -> A]
    /\ \A x \in A : x \notin stop => rank[pred[x]] < rank[x]

Inherited(S, A, stop, pred) == \A x \in A : x \in stop \/ pred[x] \in S => x \in S

(* Induction on a rank: S is all of A if it has every member of A where    *)
(* the recursion ends, and every member whose predecessor it has.          *)
LEMMA RankInduction ==
    \A A, rank, stop, pred, S :
        Ranked(A, rank, stop, pred) /\ Inherited(S, A, stop, pred) => A \subseteq S
  <1> SUFFICES ASSUME NEW A, NEW rank, NEW stop, NEW pred, NEW S,
                      Ranked(A, rank, stop, pred), Inherited(S, A, stop, pred)
               PROVE  A \subseteq S
    OBVIOUS
  <1> USE DEF Ranked, Inherited
  <1> DEFINE T == {n \in Nat : \A x \in A : rank[x] < n => x \in S}
  <1>1. 0 \in T
    OBVIOUS
  <1>2. ASSUME NEW n \in Nat, n \in T PROVE n + 1 \in T
    <2> SUFFICES ASSUME NEW x \in A, rank[x] < n + 1 PROVE x \in S
      OBVIOUS
    <2>1. x \in stop \/ rank[pred[x]] < n
      OBVIOUS
    <2> QED BY <1>2, <2>1
  <1>3. Nat \subseteq T
    <2> HIDE DEF T
    <2> QED BY <1>1, <1>2, NatSetInduction
  <1> QED
    <2> SUFFICES ASSUME NEW x \in A PROVE x \in S
      OBVIOUS
    <2>1. rank[x] + 1 \in T
      BY <1>3
    <2> QED BY <2>1

(* The functions on parts of A that satisfy the equation as far as they    *)
(* are defined.                                                            *)
Solves(g, stop, base, pred, step) ==
    \A x \in DOMAIN g :
        /\ x \notin stop => pred[x] \in DOMAIN g
        /\ g[x] = IF x \in stop THEN base[x] ELSE step[x][g[pred[x]]]
PartialSolutions(A, V, stop, base, pred, step) ==
    {g \in UNION {[D -> V] : D \in SUBSET A} : Solves(g, stop, base, pred, step)}

Solution(f, A, stop, base, pred, step) ==
    f = [x \in A |-> IF x \in stop THEN base[x] ELSE step[x][f[pred[x]]]]

(* The recursive equation has a solution. *)
THEOREM LinearRecursion ==
    \A A, V, rank, stop, pred, base, step :
        Ranked(A, rank, stop, pred) /\ base \in [A -> V] /\ step \in [A -> [V -> V]]
        => \E f \in [A -> V] : Solution(f, A, stop, base, pred, step)
  <1> SUFFICES ASSUME NEW A, NEW V, NEW rank, NEW stop, NEW pred, NEW base \in [A -> V],
                      NEW step \in [A -> [V -> V]], Ranked(A, rank, stop, pred)
               PROVE  \E f \in [A -> V] : Solution(f, A, stop, base, pred, step)
    OBVIOUS
  <1> DEFINE P == PartialSolutions(A, V, stop, base, pred, step)
             Has == {x \in A : \E g \in P : x \in DOMAIN g}
             Same == {x \in A : \A g, h \in P : x \in DOMAIN g /\ x \in DOMAIN h => g[x] = h[x]}
  <1> USE DEF Ranked
  <1>1. ASSUME NEW g, g \in P
        PROVE  /\ DOMAIN g \subseteq A
               /\ \A x \in DOMAIN g :
                     /\ g[x] \in V
                     /\ x \notin stop => pred[x] \in DOMAIN g
                     /\ g[x] = IF x \in stop THEN base[x] ELSE step[x][g[pred[x]]]
    BY <1>1 DEF PartialSolutions, Solves
  <1>2. ASSUME NEW x \in A, x \in stop PROVE x \in Has
    <2> DEFINE g == [y \in {x} |-> base[x]]
    <2>1. g \in [{x} -> V] /\ {x} \in SUBSET A
      OBVIOUS
    <2>2. Solves(g, stop, base, pred, step)
      BY <1>2 DEF Solves
    <2>3. g \in P
      BY <2>1, <2>2 DEF PartialSolutions
    <2> QED BY <2>3
  <1>3. ASSUME NEW x \in A, x \notin stop, pred[x] \in Has PROVE x \in Has
    <2>1. PICK g \in P : pred[x] \in DOMAIN g
      BY <1>3
    <2>2. CASE x \in DOMAIN g
      BY <2>2
    <2>3. CASE x \notin DOMAIN g
      <3> DEFINE D == DOMAIN g \cup {x}
                 h == [y \in D |-> IF y = x THEN step[x][g[pred[x]]] ELSE g[y]]
      <3>1. D \in SUBSET A
        BY <1>1
      <3>2. step[x][g[pred[x]]] \in V
        BY <1>1, <2>1
      <3>3. h \in [D -> V]
        BY <1>1, <3>2
      <3>4. Solves(h, stop, base, pred, step)
        <4> SUFFICES ASSUME NEW y \in D
                     PROVE  /\ y \notin stop => pred[y] \in D
                            /\ h[y] = IF y \in stop THEN base[y] ELSE step[y][h[pred[y]]]
          BY DEF Solves
        <4>1. CASE y = x
          BY <4>1, <1>3, <2>1, <2>3
        <4>2. CASE y # x
          BY <4>2, <1>1, <2>3
        <4> QED BY <4>1, <4>2
      <3>5. h \in P
        BY <3>1, <3>3, <3>4, Zenon DEF PartialSolutions
      <3> QED BY <3>5
    <2> QED BY <2>2, <2>3
  <1>4. A \subseteq Has
    <2> HIDE DEF Has, Same, P, Ranked
    <2>1. Inherited(Has, A, stop, pred)
      BY <1>2, <1>3 DEF Inherited
    <2> QED BY <2>1, RankInduction, Zenon
  <1>5. A \subseteq Same
    <2>1. ASSUME NEW x \in A, x \in stop \/ pred[x] \in Same PROVE x \in Same
      <3> SUFFICES ASSUME NEW g \in P, NEW h \in P, x \in DOMAIN g, x \in DOMAIN h PROVE g[x] = h[x]
        OBVIOUS
      <3>1. x \notin stop => g[pred[x]] = h[pred[x]]
        BY <1>1, <2>1
      <3> QED BY <1>1, <3>1
    <2>2. Inherited(Same, A, stop, pred)
      BY <2>1 DEF Inherited
    <2> HIDE DEF Has, Same, P, Ranked
    <2> QED BY <2>2, RankInduction, Zenon
  <1> DEFINE of(x) == CHOOSE g \in P : x \in DOMAIN g
             f == [x \in A |-> of(x)[x]]
  <1>6. ASSUME NEW x \in A PROVE of(x) \in P /\ x \in DOMAIN of(x)
    BY <1>4
  <1> HIDE DEF of, P
  <1>7. f \in [A -> V]
    BY <1>1, <1>6
  <1>8. ASSUME NEW x \in A PROVE f[x] = IF x \in stop THEN base[x] ELSE step[x][f[pred[x]]]
    <2>1. CASE x \in stop
      BY <1>1, <1>6, <2>1
    <2>2. CASE x \notin stop
      <3>1. of(x)[x] = step[x][of(x)[pred[x]]] /\ pred[x] \in DOMAIN of(x)
        BY <1>1, <1>6, <2>2
      <3>2. of(x)[pred[x]] = of(pred[x])[pred[x]]
        BY <1>5, <1>6, <3>1
      <3> QED BY <2>2, <3>1, <3>2
    <2> QED BY <2>1, <2>2
  <1>9. f = [x \in A |-> IF x \in stop THEN base[x] ELSE step[x][f[pred[x]]]]
    <2> HIDE DEF f
    <2> QED BY <1>7, <1>8
  <1> QED BY <1>7, <1>9 DEF Solution
=============================================================================
