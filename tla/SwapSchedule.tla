----------------------------- MODULE SwapSchedule -----------------------------
(***************************************************************************)
(* The order in which a task of pio_swapm meets the others (ceil2() and    *)
(* pair() of pio_spmd.c).  Time is cut into ceil2(n)-1 rounds; in round k  *)
(* the tasks whose ranks differ by the exclusive or with k+1 are a pair.   *)
(***************************************************************************)
EXTENDS Integers

\* Exclusive or of two naturals, bit by bit: C's ^ on non-negative ints.
Xor[a \in Nat] ==
  [b \in Nat |->
     IF a = 0 THEN b
     ELSE IF b = 0 THEN a
     ELSE 2 * Xor[a \div 2][b \div 2] + ((a + b) % 2)]

\* Fault: the largest power of two that is not greater.
Floor2(i) ==
  LET doubled[p \in Nat \ {0}] == IF 2 * p <= i THEN doubled[2 * p] ELSE p
  IN  doubled[1]

\* ceil2(i) doubles p, starting at 1, while p < i.
Ceil2(i) ==
  LET doubled[p \in Nat \ {0}] == IF p < i THEN doubled[2 * p] ELSE p
  IN  doubled[1]

\* Fault: the rounds counted from 0 in the exclusive or.
PairFromZero(np, p, k) ==
  LET q == Xor[p][k]
  IN  IF q > np - 1 THEN -1 ELSE q

\* pair(np, p, k): the partner of task k in round p, -1 when it has none.
Pair(np, p, k) ==
  LET q == Xor[p + 1][k]
  IN  IF q > np - 1 THEN -1 ELSE q

=============================================================================
