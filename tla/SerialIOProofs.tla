---------------------------- MODULE SerialIOProofs ----------------------------
(***************************************************************************)
(* What holds of the serial write and read for every number of I/O tasks,  *)
(* regions, variables and operations, though the tasks may be in different *)
(* operations and task 0 serves all of them with one buffer.               *)
(***************************************************************************)
EXTENDS SerialIO, Recursion, SequenceTheorems

-----------------------------------------------------------------------------
(* The inductive invariant *)

(* What task 0 and another task exchange, one after the other: a place is  *)
(* an operation and a step of it.                                          *)
Ends(n) == IF Ops[n] = "write" THEN 6 ELSE 5
IsPlace(p) == p[1] \in 1 .. Len(Ops) /\ p[2] \in 1 .. Ends(p[1])

StepAt(p)  == OtherSteps(Ops[p[1]])[p[2]]
After(r, p) == IF LastStep(r, StepAt(p)) THEN <<p[1] + 1, 1>> ELSE <<p[1], p[2] + 1>>

(* What the operations before n have left in an element of the file, and   *)
(* the data of a task in the buffer of a write.                            *)
Left(n, v, j) == IF LastWrite(n) = 0 THEN None ELSE Val(LastWrite(n), v, j)
InBuffer(n, r, x) == Val(n, 1 + (x \div llen(r)), Base(r) + (x % llen(r)))

Content(r, p) ==
    CASE StepAt(p) = "handshake"  -> 0
      [] StepAt(p) = "llen"       -> llen(r)
      [] StepAt(p) = "maxregions" -> maxregions
      [] StepAt(p) = "start"      -> Starts(r)
      [] StepAt(p) = "count"      -> Counts(r)
      [] StepAt(p) = "data"       ->
            IF Ops[p[1]] = "write" THEN [x \in 0 .. nvars * llen(r) - 1 |-> InBuffer(p[1], r, x)]
            ELSE [x \in 0 .. llen(r) - 1 |-> Left(p[1], 1, Base(r) + x)]
Envelope(r, p) == [tag |-> Tag(Ops[p[1]], StepAt(p)), val |-> Content(r, p)]
GoesDown(p) == Down(Ops[p[1]], StepAt(p))

(* The messages of a queue are those of the places from one to another.    *)
Trail(r, queue, down, from, to, at) ==
    /\ at[1] = from /\ at[Len(queue) + 1] = to
    /\ \A i \in 1 .. Len(queue) :
          /\ IsPlace(at[i]) /\ (GoesDown(at[i]) <=> down)
          /\ queue[i] = Envelope(r, at[i]) /\ at[i + 1] = After(r, at[i])
Leads(r, queue, down, from, to) == \E at : Trail(r, queue, down, from, to, at)

(* Either the other task is ahead of task 0, or task 0 of the other.       *)
Linked(r, up, dn, p0, pr) ==
    \/ dn = <<>> /\ Leads(r, up, FALSE, p0, pr)
    \/ up = <<>> /\ Leads(r, dn, TRUE, pr, p0)

(* The next place of task 0 for another task, and of that task.            *)
At0(r) ==
    IF rtask < r THEN <<op[0], 1>>
    ELSE IF rtask = r /\ step[0] <= Ends(op[0]) THEN <<op[0], step[0]>>
    ELSE <<op[0] + 1, 1>>
AtR(r) == IF op[r] <= Len(Ops) /\ step[r] > Ends(op[r]) THEN <<op[r] + 1, 1>> ELSE <<op[r], step[r]>>

Link == \A r \in Others : Linked(r, sent[<<r, "up">>], sent[<<r, "down">>], At0(r), AtR(r))

Shape ==
    /\ regions \in [Io -> Sizes]
    /\ op \in [Io -> 1 .. Len(Ops) + 1] /\ step \in [Io -> 1 .. 7]
    /\ \A r \in Others : /\ op[r] > Len(Ops) => step[r] = 1
                         /\ step[r] <= 6
    /\ DOMAIN sent = Others \X {"up", "down"}
    /\ \E M : \A c \in DOMAIN sent : sent[c] \in Seq(M)
    /\ DOMAIN iobuf = Io
    /\ DOMAIN file = Vars \X (0 .. Base(num_iotasks) - 1)

(* Where task 0 is, and what it has received from the task it serves.      *)
Doing(o) == op[0] <= Len(Ops) /\ Op(0) = o
Before(n, k, s) == \E i \in 1 .. Ends(n) : i < k /\ StepAt(<<n, i>>) = s
Past(s)  == Before(op[0], step[0], s)

Turn ==
    /\ op[0] > Len(Ops) => rtask = 0
    /\ Doing("write") => rtask \in 0 .. num_iotasks
    /\ Doing("read") => rtask \in 1 .. num_iotasks + 1
    /\ rtask \notin Others => step[0] = 1
    /\ op[0] <= Len(Ops) => step[0] <= Ends(op[0]) + 1

Received ==
    op[0] <= Len(Ops) /\ rtask \in Others =>
        /\ Past("llen") => rlen = llen(rtask)
        /\ Past("llen") /\ llen(rtask) = 0 => step[0] = Ends(op[0]) + 1
        /\ Doing("read") /\ step[0] = 6 => llen(rtask) = 0
        /\ llen(rtask) > 0 =>
              /\ Past("maxregions") => rregions = maxregions
              /\ Past("start") => rstart = Starts(rtask)
              /\ Past("count") => rcount = Counts(rtask)
              /\ Doing("write") /\ Past("data") =>
                    \A x \in 0 .. nvars * llen(rtask) - 1 : iobuf[0][x] = InBuffer(op[0], rtask, x)

(* The buffer of task 0, and that of another task. *)
Buffer0 ==
    /\ op[0] <= Len(Ops) => DOMAIN iobuf[0] = 0 .. Room(op[0], 0) - 1
    /\ Doing("write") /\ rtask = 0 => iobuf[0] = Buffer(op[0], 0)
    /\ Doing("read") /\ rtask > num_iotasks =>
          \A j \in 0 .. llen(0) - 1 : iobuf[0][j] = Left(op[0], 1, Base(0) + j)
BufferR(r) ==
    op[r] <= Len(Ops) =>
        /\ Op(r) = "write" => iobuf[r] = Buffer(op[r], r)
        /\ Op(r) = "read" /\ step[r] = 6 =>
              iobuf[r] = [x \in 0 .. llen(r) - 1 |-> Left(op[r], 1, Base(r) + x)]
Buffers == Buffer0 /\ \A r \in Others : BufferR(r)

(* The file: the write under way has reached the tasks before rtask.       *)
InFile ==
    \A v \in Vars, q \in Io : \A j \in 0 .. llen(q) - 1 :
        file[<<v, Base(q) + j>>] =
            IF Doing("write") /\ q < rtask THEN Val(op[0], v, Base(q) + j) ELSE Left(op[0], v, Base(q) + j)

Inv == Shape /\ Turn /\ Received /\ Buffers /\ InFile /\ Link

-----------------------------------------------------------------------------
(* Sums *)

\* The partial sums of a sequence of numbers are a function with which each
\* of its prefixes ends, and a place below the sum is in one of the parts.
PartialSums(s, f) ==
    /\ f \in [0 .. Len(s) -> Nat] /\ f[0] = 0
    /\ \A i \in 1 .. Len(s) : f[i] = f[i - 1] + s[i]

LEMMA SomeSums == ASSUME NEW s \in Seq(Nat) PROVE \E f : PartialSums(s, f)
<1>. DEFINE A == 0 .. Len(s)
            rank == [i \in A |-> i]
            stop == {0}
            pred == [i \in A |-> IF i = 0 THEN 0 ELSE i - 1]
            base == [i \in A |-> 0]
            step0 == [i \in A |-> [v \in Nat |-> IF i = 0 THEN 0 ELSE v + s[i]]]
<1>1. Ranked(A, rank, stop, pred)
  BY DEF Ranked
<1>2. base \in [A -> Nat] /\ step0 \in [A -> [Nat -> Nat]]
  OBVIOUS
<1>3. PICK f \in [A -> Nat] : Solution(f, A, stop, base, pred, step0)
  <2>. HIDE DEF A, rank, stop, pred, base, step0
  <2>. QED
    BY <1>1, <1>2, LinearRecursion, Zenon
<1>4. \A i \in A : f[i] = IF i \in stop THEN base[i] ELSE step0[i][f[pred[i]]]
  BY <1>3, Zenon DEF Solution
<1>5. f[0] = 0
  BY <1>4
<1>6. ASSUME NEW i \in 1 .. Len(s) PROVE f[i] = f[i - 1] + s[i]
  <2>1. i \in A /\ i - 1 \in A /\ i # 0
    OBVIOUS
  <2>2. f[i] = step0[i][f[pred[i]]] /\ pred[i] = i - 1
    BY <1>4, <2>1
  <2>3. f[i - 1] \in Nat
    BY <1>3, <2>1
  <2>. QED
    BY <2>1, <2>2, <2>3
<1>. QED
  BY <1>3, <1>5, <1>6 DEF PartialSums

LEMMA SumIs == ASSUME NEW s \in Seq(Nat), NEW f, PartialSums(s, f) PROVE Sum(s) = f[Len(s)]
<1>. DEFINE Eq(g) == [i \in 0 .. Len(s) |-> IF i = 0 THEN 0 ELSE g[i - 1] + s[i]]
            g == CHOOSE g : g = Eq(g)
<1>1. f = Eq(f)
  BY DEF PartialSums
<1>2. g = Eq(g)
  BY <1>1, Zenon
<1>3. Sum(s) = g[Len(s)]
  BY Zenon DEF Sum
<1>. HIDE DEF g
<1>. DEFINE S == {i \in Nat : i <= Len(s) => g[i] = f[i]}
<1>4. 0 \in S
  BY <1>2 DEF PartialSums
<1>5. ASSUME NEW i \in Nat, i \in S PROVE i + 1 \in S
  <2>. SUFFICES ASSUME i + 1 <= Len(s) PROVE g[i + 1] = f[i + 1]
    OBVIOUS
  <2>1. g[i + 1] = g[i] + s[i + 1]
    BY <1>2
  <2>2. g[i] = f[i]
    BY <1>5
  <2>. QED
    BY <2>1, <2>2 DEF PartialSums
<1>6. Nat \subseteq S
  <2>. HIDE DEF S
  <2>. QED
    BY <1>4, <1>5, NatSetInduction
<1>. QED
  BY <1>3, <1>6

LEMMA PrefixIs ==
  ASSUME NEW s \in Seq(Nat), NEW f, PartialSums(s, f), NEW n \in 0 .. Len(s)
  PROVE  Sum(SubSeq(s, 1, n)) = f[n]
<1>. DEFINE t == SubSeq(s, 1, n)
            h == [i \in 0 .. n |-> f[i]]
<1>1. t \in Seq(Nat) /\ Len(t) = n /\ \A i \in 1 .. n : t[i] = s[i]
  OBVIOUS
<1>. HIDE DEF t
<1>2. PartialSums(t, h)
  <2>1. /\ f \in [0 .. Len(s) -> Nat] /\ f[0] = 0
        /\ \A i \in 1 .. Len(s) : f[i] = f[i - 1] + s[i]
    BY DEF PartialSums
  <2>2. h \in [0 .. n -> Nat] /\ h[0] = 0
    BY <2>1, SMTT(30)
  <2>3. ASSUME NEW i \in 1 .. n PROVE h[i] = h[i - 1] + t[i]
    <3>1. i \in 1 .. Len(s) /\ i - 1 \in 0 .. n /\ i \in 0 .. n
      OBVIOUS
    <3>2. h[i] = f[i] /\ h[i - 1] = f[i - 1] /\ t[i] = s[i]
      BY <1>1, <3>1
    <3>. QED
      BY <2>1, <3>1, <3>2
  <2>. QED
    BY <1>1, <2>2, <2>3 DEF PartialSums
<1>3. Sum(t) = h[n]
  BY <1>1, <1>2, SumIs
<1>. QED
  BY <1>3 DEF t

\* The sum of a sequence, prefix by prefix.
LEMMA SumOfPrefixes ==
  ASSUME NEW s \in Seq(Nat)
  PROVE  /\ Sum(s) \in Nat /\ Sum(SubSeq(s, 1, 0)) = 0 /\ Sum(SubSeq(s, 1, Len(s))) = Sum(s)
         /\ \A n \in 0 .. Len(s) : Sum(SubSeq(s, 1, n)) \in Nat
         /\ \A n \in 1 .. Len(s) : Sum(SubSeq(s, 1, n)) = Sum(SubSeq(s, 1, n - 1)) + s[n]
<1>1. PICK f : PartialSums(s, f)
  BY SomeSums
<1>2. \A n \in 0 .. Len(s) : Sum(SubSeq(s, 1, n)) = f[n]
  BY <1>1, PrefixIs
<1>3. Sum(s) = f[Len(s)]
  BY <1>1, SumIs
<1>4. f \in [0 .. Len(s) -> Nat] /\ f[0] = 0 /\ \A i \in 1 .. Len(s) : f[i] = f[i - 1] + s[i]
  BY <1>1 DEF PartialSums
<1>5. Sum(SubSeq(s, 1, 0)) = 0 /\ Sum(SubSeq(s, 1, Len(s))) = f[Len(s)]
  BY <1>2, <1>4
<1>6. \A n \in 1 .. Len(s) : Sum(SubSeq(s, 1, n)) = Sum(SubSeq(s, 1, n - 1)) + s[n]
  <2>. TAKE n \in 1 .. Len(s)
  <2>1. n \in 0 .. Len(s) /\ n - 1 \in 0 .. Len(s)
    OBVIOUS
  <2>. QED
    BY <1>2, <1>4, <2>1
<1>7. \A n \in 0 .. Len(s) : Sum(SubSeq(s, 1, n)) \in Nat
  BY <1>2, <1>4
<1>8. Sum(s) \in Nat /\ Sum(SubSeq(s, 1, Len(s))) = Sum(s)
  BY <1>3, <1>4, <1>5
<1>. QED
  BY <1>5, <1>6, <1>7, <1>8

\* Later prefixes have larger sums.
LEMMA SumsGrow ==
  ASSUME NEW s \in Seq(Nat), NEW m \in 0 .. Len(s), NEW n \in m .. Len(s)
  PROVE  Sum(SubSeq(s, 1, m)) <= Sum(SubSeq(s, 1, n))
<1>. DEFINE P(i) == Sum(SubSeq(s, 1, i))
            S == {i \in Nat : m + i <= Len(s) => P(m) <= P(m + i)}
<1>1. \A i \in 0 .. Len(s) : P(i) \in Nat
  BY SumOfPrefixes
<1>2. \A i \in 1 .. Len(s) : P(i) = P(i - 1) + s[i]
  BY SumOfPrefixes
<1>. HIDE DEF P
<1>3. 0 \in S
  BY <1>1
<1>4. ASSUME NEW i \in Nat, i \in S PROVE i + 1 \in S
  <2>. SUFFICES ASSUME m + (i + 1) <= Len(s) PROVE P(m) <= P(m + (i + 1))
    OBVIOUS
  <2>1. m + (i + 1) \in 1 .. Len(s) /\ m + (i + 1) - 1 = m + i /\ s[m + (i + 1)] \in Nat
    OBVIOUS
  <2>2. P(m + (i + 1)) = P(m + i) + s[m + (i + 1)]
    BY <1>2, <2>1
  <2>3. P(m) <= P(m + i) /\ P(m) \in Nat /\ P(m + i) \in Nat
    BY <1>1, <1>4
  <2>. QED
    BY <2>1, <2>2, <2>3
<1>5. n - m \in S
  <2>. HIDE DEF S
  <2>1. Nat \subseteq S
    BY <1>3, <1>4, NatSetInduction
  <2>. QED
    BY <2>1
<1>. QED
  BY <1>5 DEF P

\* Every number below the sum lies in the part of one member.
LEMMA PartOfSum ==
  ASSUME NEW s \in Seq(Nat), NEW j \in 0 .. Sum(s) - 1
  PROVE  \E n \in 1 .. Len(s), x \in Nat : x < s[n] /\ j = Sum(SubSeq(s, 1, n - 1)) + x
<1>. DEFINE P(i) == Sum(SubSeq(s, 1, i))
            S == {i \in Nat : i <= Len(s) /\ j < P(i) =>
                    \E n \in 1 .. Len(s), x \in Nat : x < s[n] /\ j = P(n - 1) + x}
<1>1. \A i \in 0 .. Len(s) : P(i) \in Nat
  BY SumOfPrefixes
<1>2. \A i \in 1 .. Len(s) : P(i) = P(i - 1) + s[i]
  BY SumOfPrefixes
<1>3. P(0) = 0 /\ P(Len(s)) = Sum(s) /\ Sum(s) \in Nat
  BY SumOfPrefixes
<1>. HIDE DEF P
<1>4. 0 \in S
  BY <1>3
<1>5. ASSUME NEW i \in Nat, i \in S PROVE i + 1 \in S
  <2>. SUFFICES ASSUME i + 1 <= Len(s), j < P(i + 1), ~(j < P(i))
                PROVE  \E n \in 1 .. Len(s), x \in Nat : x < s[n] /\ j = P(n - 1) + x
    BY <1>5
  <2>1. P(i + 1) = P(i) + s[i + 1] /\ P(i) \in Nat /\ s[i + 1] \in Nat
    BY <1>1, <1>2
  <2>2. j - P(i) \in Nat /\ j - P(i) < s[i + 1] /\ j = P((i + 1) - 1) + (j - P(i))
    BY <2>1
  <2>. QED
    BY <2>2
<1>6. Len(s) \in S
  <2>. HIDE DEF S
  <2>. QED
    BY <1>4, <1>5, NatSetInduction, SMTT(30)
<1>. QED
  BY <1>3, <1>6 DEF P

-----------------------------------------------------------------------------
(* Greatest numbers *)

LEMMA GreatestIs ==
  ASSUME NEW S, S \subseteq Nat, S # {}, NEW b \in Nat, \A x \in S : x <= b
  PROVE  Greatest(S) \in S /\ \A y \in S : y <= Greatest(S)
<1>1. \E x \in S : \A y \in S : y <= x
  <2>. SUFFICES ASSUME \A x \in S : \E y \in S : x < y PROVE FALSE
    OBVIOUS
  <2>. DEFINE U == {n \in Nat : \E x \in S : n <= x}
  <2>1. 0 \in U
    <3>1. PICK x : x \in S
      OBVIOUS
    <3>. QED
      BY <3>1
  <2>2. ASSUME NEW n \in Nat, n \in U PROVE n + 1 \in U
    <3>1. PICK x \in S : n <= x
      BY <2>2
    <3>2. PICK y \in S : x < y
      OBVIOUS
    <3>. QED
      BY <3>1, <3>2
  <2>3. b + 1 \in U
    <3>. HIDE DEF U
    <3>. QED
      BY <2>1, <2>2, NatSetInduction
  <2>. QED
    BY <2>3
<1>. QED
  BY <1>1, Zenon DEF Greatest

\* What the tasks have is bounded, since there are finitely many of them.
LEMMA SomeBound ==
  ASSUME NEW g, \A r \in Io : g[r] \in Nat
  PROVE  \E b \in Nat : \A r \in Io : g[r] <= b
<1>. DEFINE S == {i \in Nat : \E b \in Nat : \A r \in Io : r < i => g[r] <= b}
<1>1. 0 \in S
  BY DEF Io
<1>2. ASSUME NEW i \in Nat, i \in S PROVE i + 1 \in S
  <2>1. PICK b \in Nat : \A r \in Io : r < i => g[r] <= b
    BY <1>2
  <2>2. CASE i \in Io
    <3>1. g[i] \in Nat /\ b + g[i] \in Nat
      BY <2>2
    <3>2. \A r \in Io : r < i + 1 => g[r] <= b + g[i]
      BY <2>1, <3>1 DEF Io
    <3>. QED
      BY <3>1, <3>2
  <2>3. CASE i \notin Io
    BY <2>1, <2>3 DEF Io
  <2>. QED
    BY <2>2, <2>3
<1>3. num_iotasks \in S
  <2>. HIDE DEF S
  <2>. QED
    BY <1>1, <1>2, NatSetInduction, SerialAssumption
<1>. QED
  BY <1>3 DEF Io

-----------------------------------------------------------------------------
(* Where the arrays of the tasks lie *)

Regioned == regions \in [Io -> Sizes]

LEMMA RegionTypes ==
  ASSUME Regioned, NEW r \in Io
  PROVE  /\ regions[r] \in Seq(Nat \ {0}) /\ regions[r] \in Seq(Nat)
         /\ Len(regions[r]) \in Nat /\ llen(r) \in Nat
<1>1. regions[r] \in Seq(Nat \ {0})
  BY SerialAssumption DEF Regioned
<1>2. regions[r] \in Seq(Nat)
  BY <1>1
<1>. QED
  BY <1>1, <1>2, SumOfPrefixes DEF llen

Lengths == [q \in 1 .. num_iotasks |-> llen(q - 1)]

LEMMA BaseIsPrefix ==
  ASSUME Regioned
  PROVE  /\ Lengths \in Seq(Nat) /\ Len(Lengths) = num_iotasks
         /\ \A r \in 0 .. num_iotasks : Base(r) = Sum(SubSeq(Lengths, 1, r))
<1>1. num_iotasks \in Nat
  BY SerialAssumption
<1>2. \A q \in 1 .. num_iotasks : llen(q - 1) \in Nat
  <2>. SUFFICES ASSUME NEW q \in 1 .. num_iotasks PROVE llen(q - 1) \in Nat
    OBVIOUS
  <2>1. q - 1 \in Io
    BY <1>1 DEF Io
  <2>. QED
    BY <2>1, RegionTypes
<1>3. Lengths \in Seq(Nat) /\ Len(Lengths) = num_iotasks
  BY <1>1, <1>2 DEF Lengths
<1>4. ASSUME NEW r \in 0 .. num_iotasks PROVE Base(r) = Sum(SubSeq(Lengths, 1, r))
  <2>1. SubSeq(Lengths, 1, r) = [q \in 1 .. r |-> llen(q - 1)]
    <3>. DEFINE t == [q \in 1 .. r |-> llen(q - 1)]
    <3>1. t \in Seq(Nat) /\ Len(t) = r
      BY <1>1, <1>2
    <3>2. \A q \in 1 .. r : t[q] = Lengths[q]
      BY <1>1 DEF Lengths
    <3>. HIDE DEF t
    <3>3. SubSeq(Lengths, 1, r) = t
      BY <1>1, <1>3, <3>1, <3>2
    <3>. QED
      BY <3>3 DEF t
  <2>. QED
    BY <2>1 DEF Base
<1>. QED
  BY <1>3, <1>4

\* The arrays lie one after the other.
LEMMA Bases ==
  ASSUME Regioned
  PROVE  /\ \A r \in 0 .. num_iotasks : Base(r) \in Nat
         /\ Base(0) = 0
         /\ \A r \in Io : Base(r + 1) = Base(r) + llen(r)
         /\ \A q, r \in Io : q < r => Base(q) + llen(q) <= Base(r)
         /\ \A q \in Io : Base(q) + llen(q) <= Base(num_iotasks)
<1>1. num_iotasks \in Nat \ {0}
  BY SerialAssumption
<1>2. /\ Lengths \in Seq(Nat) /\ Len(Lengths) = num_iotasks
      /\ \A r \in 0 .. num_iotasks : Base(r) = Sum(SubSeq(Lengths, 1, r))
  BY BaseIsPrefix
<1>3. \A r \in 0 .. num_iotasks : Base(r) \in Nat
  BY <1>2, SumOfPrefixes
<1>4. Base(0) = 0
  BY <1>1, <1>2, SumOfPrefixes
<1>5. ASSUME NEW r \in Io PROVE Base(r + 1) = Base(r) + llen(r)
  <2>1. r + 1 \in 1 .. num_iotasks /\ r \in 0 .. num_iotasks /\ (r + 1) - 1 = r
    BY <1>1 DEF Io
  <2>2. Sum(SubSeq(Lengths, 1, r + 1)) = Sum(SubSeq(Lengths, 1, (r + 1) - 1)) + Lengths[r + 1]
    BY <1>2, <2>1, SumOfPrefixes
  <2>3. Lengths[r + 1] = llen(r)
    BY <2>1 DEF Lengths
  <2>4. r + 1 \in 0 .. num_iotasks
    BY <2>1
  <2>. QED
    BY <1>2, <2>1, <2>2, <2>3, <2>4
<1>6. ASSUME NEW q \in Io, NEW r \in 0 .. num_iotasks, q < r PROVE Base(q) + llen(q) <= Base(r)
  <2>1. q + 1 \in 0 .. num_iotasks /\ r \in q + 1 .. num_iotasks
    BY <1>1, <1>6 DEF Io
  <2>2. Base(q + 1) <= Base(r)
    BY <1>2, <2>1, SumsGrow
  <2>. QED
    BY <1>5, <2>2
<1>7. \A r \in Io : r \in 0 .. num_iotasks /\ r < num_iotasks
  BY <1>1 DEF Io
<1>. QED
  BY <1>1, <1>3, <1>4, <1>5, <1>6, <1>7

\* Every element of a variable belongs to one of the tasks.
LEMMA SomeTask ==
  ASSUME Regioned, NEW e \in 0 .. Base(num_iotasks) - 1
  PROVE  \E q \in Io : \E j \in 0 .. llen(q) - 1 : e = Base(q) + j
<1>1. num_iotasks \in Nat \ {0}
  BY SerialAssumption
<1>2. /\ Lengths \in Seq(Nat) /\ Len(Lengths) = num_iotasks
      /\ \A r \in 0 .. num_iotasks : Base(r) = Sum(SubSeq(Lengths, 1, r))
  BY BaseIsPrefix
<1>3. Base(num_iotasks) = Sum(Lengths)
  BY <1>1, <1>2, SumOfPrefixes
<1>4. PICK n \in 1 .. Len(Lengths), x \in Nat :
         x < Lengths[n] /\ e = Sum(SubSeq(Lengths, 1, n - 1)) + x
  BY <1>2, <1>3, PartOfSum
<1>5. n - 1 \in Io /\ n - 1 \in 0 .. num_iotasks /\ Lengths[n] = llen(n - 1)
  BY <1>1, <1>2 DEF Io, Lengths
<1>6. x \in 0 .. llen(n - 1) - 1
  BY <1>4, <1>5, RegionTypes
<1>. QED
  BY <1>2, <1>4, <1>5, <1>6

\* No task has more regions than maxregions, or a longer array than
\* maxiobuflen.
LEMMA Maxima ==
  ASSUME Regioned
  PROVE  /\ maxregions \in Nat \ {0} /\ \A r \in Io : Len(regions[r]) <= maxregions
         /\ maxiobuflen \in Nat /\ \A r \in Io : llen(r) <= maxiobuflen
<1>1. 0 \in Io
  BY SerialAssumption DEF Io
<1>2. \A r \in Io : Len(regions[r]) \in Nat /\ llen(r) \in Nat
  BY RegionTypes
<1>3. maxregions \in Nat \ {0} /\ \A r \in Io : Len(regions[r]) <= maxregions
  <2>. DEFINE g == [r \in Io |-> Len(regions[r])]
              S == {1} \cup {Len(regions[r]) : r \in Io}
  <2>1. PICK b \in Nat : \A r \in Io : g[r] <= b
    <3>. \A r \in Io : g[r] \in Nat
      BY <1>2
    <3>. HIDE DEF g
    <3>. QED
      BY SomeBound
  <2>2. S \subseteq Nat /\ S # {} /\ b + 1 \in Nat /\ \A x \in S : x <= b + 1
    BY <1>2, <2>1
  <2>3. maxregions = Greatest(S)
    BY DEF maxregions
  <2>4. \A r \in Io : Len(regions[r]) \in S
    OBVIOUS
  <2>5. 1 \in S
    OBVIOUS
  <2>. HIDE DEF S
  <2>6. Greatest(S) \in S /\ \A y \in S : y <= Greatest(S)
    BY <2>2, GreatestIs
  <2>7. Greatest(S) \in Nat /\ 1 <= Greatest(S)
    BY <2>2, <2>5, <2>6
  <2>8. \A r \in Io : Len(regions[r]) <= Greatest(S)
    BY <2>4, <2>6
  <2>. QED
    BY <2>3, <2>7, <2>8
<1>4. maxiobuflen \in Nat /\ \A r \in Io : llen(r) <= maxiobuflen
  <2>. DEFINE g == [r \in Io |-> llen(r)]
              S == {llen(r) : r \in Io}
  <2>1. PICK b \in Nat : \A r \in Io : g[r] <= b
    <3>. \A r \in Io : g[r] \in Nat
      BY <1>2
    <3>. HIDE DEF g
    <3>. QED
      BY SomeBound
  <2>2. S \subseteq Nat /\ S # {} /\ \A x \in S : x <= b
    BY <1>1, <1>2, <2>1
  <2>3. maxiobuflen = Greatest(S)
    BY DEF maxiobuflen
  <2>4. \A r \in Io : llen(r) \in S
    OBVIOUS
  <2>. HIDE DEF S
  <2>5. Greatest(S) \in S /\ \A y \in S : y <= Greatest(S)
    BY <2>2, GreatestIs
  <2>. QED
    BY <2>2, <2>3, <2>4, <2>5
<1>. QED
  BY <1>3, <1>4

-----------------------------------------------------------------------------
(* The writes, and what the tasks' regions alone determine *)

LEMMA Programs ==
  /\ Len(Ops) \in Nat \ {0} /\ \A n \in 1 .. Len(Ops) : Ops[n] \in {"write", "read"}
  /\ \A n \in 1 .. Len(Ops) : Ops[n] = "write" \/ (Ops[n] = "read" /\ Ops[n] # "write")
BY SerialAssumption

LEMMA LastWrites ==
  /\ LastWrite(1) = 0
  /\ \A n \in 1 .. Len(Ops) : LastWrite(n + 1) = IF Ops[n] = "write" THEN n ELSE LastWrite(n)
<1>. DEFINE W(n) == {0} \cup {m \in 1 .. n - 1 : Ops[m] = "write"}
<1>1. \A n \in 1 .. Len(Ops) + 1 :
         LastWrite(n) = Greatest(W(n)) /\ LastWrite(n) \in W(n) /\ \A m \in W(n) : m <= LastWrite(n)
  <2>. TAKE n \in 1 .. Len(Ops) + 1
  <2>1. LastWrite(n) = Greatest(W(n))
    BY DEF LastWrite
  <2>2. W(n) \subseteq Nat /\ W(n) # {} /\ n \in Nat /\ \A m \in W(n) : m <= n
    BY Programs
  <2>. HIDE DEF W
  <2>. QED
    BY <2>1, <2>2, GreatestIs
<1>2. LastWrite(1) = 0
  <2>1. 1 \in 1 .. Len(Ops) + 1 /\ W(1) = {0}
    BY Programs
  <2>. HIDE DEF W
  <2>. QED
    BY <1>1, <2>1
<1>3. ASSUME NEW n \in 1 .. Len(Ops)
      PROVE  LastWrite(n + 1) = IF Ops[n] = "write" THEN n ELSE LastWrite(n)
  <2>1. n \in 1 .. Len(Ops) + 1 /\ n + 1 \in 1 .. Len(Ops) + 1
    BY Programs
  <2>2. CASE Ops[n] = "write"
    <3>1. n \in W(n + 1) /\ \A m \in W(n + 1) : m <= n /\ m \in Nat
      BY <2>2
    <3>. HIDE DEF W
    <3>2. LastWrite(n + 1) \in W(n + 1) /\ n <= LastWrite(n + 1)
      BY <1>1, <2>1, <3>1
    <3>3. LastWrite(n + 1) <= n /\ LastWrite(n + 1) \in Nat
      BY <3>1, <3>2
    <3>. QED
      BY <2>2, <3>2, <3>3
  <2>3. CASE Ops[n] # "write"
    <3>1. W(n + 1) = W(n)
      BY <2>3
    <3>. HIDE DEF W
    <3>. QED
      BY <1>1, <2>1, <2>3, <3>1
  <2>. QED
    BY <2>2, <2>3
<1>. QED
  BY <1>2, <1>3

LEMMA Fixed ==
  ASSUME UNCHANGED regions
  PROVE  /\ \A r : llen(r)' = llen(r) /\ Base(r)' = Base(r) /\ Starts(r)' = Starts(r) /\ Counts(r)' = Counts(r)
         /\ maxregions' = maxregions /\ maxiobuflen' = maxiobuflen
<1>1. \A r : llen(r)' = llen(r)
  BY DEF llen
<1>2. \A r : Base(r)' = Base(r)
  BY <1>1 DEF Base
<1>3. maxregions' = maxregions
  BY DEF maxregions
<1>4. maxiobuflen' = maxiobuflen
  BY <1>1 DEF maxiobuflen
<1>5. \A r : Starts(r)' = Starts(r)
  BY <1>2, <1>3 DEF Starts
<1>6. \A r : Counts(r)' = Counts(r)
  BY <1>3 DEF Counts
<1>. QED
  BY <1>1, <1>2, <1>3, <1>4, <1>5, <1>6

LEMMA FixedBuffers ==
  ASSUME UNCHANGED regions
  PROVE  /\ \A n, r : Room(n, r)' = Room(n, r)
         /\ \A n, r, x : InBuffer(n, r, x)' = InBuffer(n, r, x)
         /\ \A n, r : Buffer(n, r)' = Buffer(n, r)
<1>1. /\ (\A r : llen(r)' = llen(r)) /\ \A r : Base(r)' = Base(r) /\ maxiobuflen' = maxiobuflen
  BY Fixed
<1>2. \A n, r : Room(n, r)' = Room(n, r)
  BY <1>1 DEF Room
<1>3. \A n, r, x : InBuffer(n, r, x)' = InBuffer(n, r, x)
  BY <1>1 DEF InBuffer
<1>4. \A n, r : Buffer(n, r)' = Buffer(n, r)
  BY <1>1, <1>2 DEF Buffer
<1>. QED
  BY <1>2, <1>3, <1>4

LEMMA FixedLinks ==
  ASSUME UNCHANGED regions
  PROVE  \A r, up, dn, p0, pr : Linked(r, up, dn, p0, pr)' <=> Linked(r, up, dn, p0, pr)
<1>1. /\ (\A r : llen(r)' = llen(r)) /\ \A r : Base(r)' = Base(r) /\ maxregions' = maxregions
      /\ (\A r : Starts(r)' = Starts(r)) /\ \A r : Counts(r)' = Counts(r)
  BY Fixed
<1>2. \A n, r, x : InBuffer(n, r, x)' = InBuffer(n, r, x)
  BY FixedBuffers
<1>3. \A r, p : Content(r, p)' = Content(r, p)
  BY <1>1, <1>2 DEF Content
<1>4. \A r, p : Envelope(r, p)' = Envelope(r, p)
  BY <1>3 DEF Envelope
<1>5. \A r, p : After(r, p)' = After(r, p)
  BY <1>1 DEF After, LastStep
<1>6. \A r, q, d, f, t, a : Trail(r, q, d, f, t, a)' <=> Trail(r, q, d, f, t, a)
  BY <1>4, <1>5 DEF Trail
<1>7. \A r, q, d, f, t : Leads(r, q, d, f, t)' <=> Leads(r, q, d, f, t)
  BY <1>6 DEF Leads
<1>. QED
  BY <1>7, ZenonT(40) DEF Linked

-----------------------------------------------------------------------------
(* The queues between task 0 and another task *)

LEMMA LeadsNowhere == \A r, d, f, t : Leads(r, <<>>, d, f, t) <=> f = t
<1>. SUFFICES ASSUME NEW r, NEW d, NEW f, NEW t PROVE Leads(r, <<>>, d, f, t) <=> f = t
  OBVIOUS
<1>1. Leads(r, <<>>, d, f, t) => f = t
  BY DEF Leads, Trail
<1>2. ASSUME f = t PROVE Leads(r, <<>>, d, f, t)
  <2>. DEFINE at == [i \in {1} |-> f]
  <2>1. Trail(r, <<>>, d, f, t, at)
    BY <1>2 DEF Trail
  <2>. QED
    BY <2>1 DEF Leads
<1>. QED
  BY <1>1, <1>2

LEMMA LeadsOn ==
  ASSUME NEW M, NEW q \in Seq(M), NEW r, NEW d, NEW f, NEW t, NEW m,
         Leads(r, q, d, f, t), IsPlace(t), GoesDown(t) <=> d, m = Envelope(r, t)
  PROVE  Leads(r, Append(q, m), d, f, After(r, t))
<1>1. PICK at : Trail(r, q, d, f, t, at)
  BY DEF Leads
<1>. DEFINE n == Len(q)
            to == After(r, t)
            at2 == [i \in 1 .. n + 2 |-> IF i = n + 2 THEN to ELSE at[i]]
            q2 == Append(q, m)
<1>2. n \in Nat /\ Len(q2) = n + 1 /\ q2[n + 1] = m /\ \A i \in 1 .. n : q2[i] = q[i]
  OBVIOUS
<1>3. /\ at[1] = f /\ at[n + 1] = t
      /\ \A i \in 1 .. n : /\ IsPlace(at[i]) /\ (GoesDown(at[i]) <=> d)
                           /\ q[i] = Envelope(r, at[i]) /\ at[i + 1] = After(r, at[i])
  BY <1>1 DEF Trail
<1>. HIDE DEF q2
<1>4. /\ at2[1] = f /\ at2[n + 1] = t /\ at2[n + 2] = to
      /\ \A i \in 1 .. n : at2[i] = at[i] /\ at2[i + 1] = at[i + 1]
  BY <1>2, <1>3
<1>. HIDE DEF at2, n, to
<1>5. ASSUME NEW i \in 1 .. n + 1
      PROVE  /\ IsPlace(at2[i]) /\ (GoesDown(at2[i]) <=> d)
             /\ q2[i] = Envelope(r, at2[i]) /\ at2[i + 1] = After(r, at2[i])
  <2>1. CASE i = n + 1
    <3>1. at2[i] = t /\ q2[i] = m /\ at2[i + 1] = to
      BY <1>2, <1>4, <2>1
    <3>. QED
      BY <3>1, Zenon DEF to
  <2>2. CASE i # n + 1
    <3>1. i \in 1 .. n
      BY <1>2, <2>2
    <3>. QED
      BY <1>2, <1>3, <1>4, <3>1
  <2>. QED
    BY <2>1, <2>2
<1>6. Len(q2) + 1 = n + 2
  BY <1>2
<1>7. Trail(r, q2, d, f, to, at2)
  BY <1>2, <1>4, <1>5, <1>6 DEF Trail
<1>. QED
  BY <1>7, Zenon DEF Leads, q2, to

LEMMA LeadsFrom ==
  ASSUME NEW M, NEW q \in Seq(M), NEW r, NEW d, NEW f, NEW t, Leads(r, q, d, f, t), q # <<>>
  PROVE  /\ IsPlace(f) /\ (GoesDown(f) <=> d) /\ q[1] = Envelope(r, f)
         /\ Leads(r, Tail(q), d, After(r, f), t)
<1>1. PICK at : Trail(r, q, d, f, t, at)
  BY DEF Leads
<1>. DEFINE n == Len(q) - 1
            at2 == [i \in 1 .. n + 1 |-> at[i + 1]]
            q2 == Tail(q)
<1>2. n \in Nat /\ Len(q) = n + 1 /\ Len(q2) = n /\ \A i \in 1 .. n : q2[i] = q[i + 1]
  OBVIOUS
<1>3. /\ at[1] = f /\ at[n + 2] = t
      /\ \A i \in 1 .. n + 1 : /\ IsPlace(at[i]) /\ (GoesDown(at[i]) <=> d)
                               /\ q[i] = Envelope(r, at[i]) /\ at[i + 1] = After(r, at[i])
  <2>1. (n + 1) + 1 = n + 2
    BY <1>2
  <2>. HIDE DEF n
  <2>. QED
    BY <1>1, <1>2, <2>1 DEF Trail
<1>. HIDE DEF q2
<1>4. 1 \in 1 .. n + 1
  BY <1>2
<1>5. \A i \in 1 .. n + 1 : at2[i] = at[i + 1]
  OBVIOUS
<1>6. at2[1] = at[2] /\ at2[n + 1] = at[n + 2]
  BY <1>2
<1>. HIDE DEF at2, n
<1>7. /\ IsPlace(f) /\ (GoesDown(f) <=> d) /\ q[1] = Envelope(r, f) /\ at2[1] = After(r, f)
  <2>1. at[1 + 1] = at[2]
    OBVIOUS
  <2>. QED
    BY <1>3, <1>4, <1>6, <2>1
<1>8. ASSUME NEW i \in 1 .. n
      PROVE  /\ IsPlace(at2[i]) /\ (GoesDown(at2[i]) <=> d)
             /\ q2[i] = Envelope(r, at2[i]) /\ at2[i + 1] = After(r, at2[i])
  <2>1. i \in 1 .. n + 1 /\ i + 1 \in 1 .. n + 1
    BY <1>2
  <2>. QED
    BY <1>2, <1>3, <1>5, <2>1
<1>9. Trail(r, q2, d, After(r, f), t, at2)
  BY <1>2, <1>3, <1>6, <1>7, <1>8 DEF Trail
<1>. QED
  BY <1>7, <1>9, Zenon DEF Leads, q2

LEMMA SendUp ==
  ASSUME NEW M, NEW up \in Seq(M), NEW dn \in Seq(M), NEW r, NEW p0, NEW pr,
         Linked(r, up, dn, p0, pr), IsPlace(pr), ~GoesDown(pr)
  PROVE  Linked(r, Append(up, Envelope(r, pr)), dn, p0, After(r, pr))
<1>1. CASE dn = <<>> /\ Leads(r, up, FALSE, p0, pr)
  BY <1>1, LeadsOn DEF Linked
<1>2. CASE up = <<>> /\ Leads(r, dn, TRUE, pr, p0)
  <2>1. dn = <<>>
    BY <1>2, LeadsFrom
  <2>2. Leads(r, up, FALSE, p0, pr)
    BY <1>2, <2>1, LeadsNowhere, Zenon
  <2>. QED
    BY <2>1, <2>2, LeadsOn DEF Linked
<1>. QED
  BY <1>1, <1>2 DEF Linked

LEMMA SendDown ==
  ASSUME NEW M, NEW up \in Seq(M), NEW dn \in Seq(M), NEW r, NEW p0, NEW pr,
         Linked(r, up, dn, p0, pr), IsPlace(p0), GoesDown(p0)
  PROVE  Linked(r, up, Append(dn, Envelope(r, p0)), After(r, p0), pr)
<1>1. CASE up = <<>> /\ Leads(r, dn, TRUE, pr, p0)
  BY <1>1, LeadsOn DEF Linked
<1>2. CASE dn = <<>> /\ Leads(r, up, FALSE, p0, pr)
  <2>1. up = <<>>
    BY <1>2, LeadsFrom
  <2>2. Leads(r, dn, TRUE, pr, p0)
    BY <1>2, <2>1, LeadsNowhere, Zenon
  <2>. QED
    BY <2>1, <2>2, LeadsOn DEF Linked
<1>. QED
  BY <1>1, <1>2 DEF Linked

LEMMA TakeUp ==
  ASSUME NEW M, NEW up \in Seq(M), NEW dn \in Seq(M), NEW r, NEW p0, NEW pr,
         Linked(r, up, dn, p0, pr), up # <<>>
  PROVE  /\ IsPlace(p0) /\ ~GoesDown(p0) /\ up[1] = Envelope(r, p0)
         /\ Linked(r, Tail(up), dn, After(r, p0), pr)
<1>1. dn = <<>> /\ Leads(r, up, FALSE, p0, pr)
  BY DEF Linked
<1>2. /\ IsPlace(p0) /\ (GoesDown(p0) <=> FALSE) /\ up[1] = Envelope(r, p0)
      /\ Leads(r, Tail(up), FALSE, After(r, p0), pr)
  BY <1>1, LeadsFrom
<1>. QED
  BY <1>1, <1>2, Zenon DEF Linked

LEMMA TakeDown ==
  ASSUME NEW M, NEW up \in Seq(M), NEW dn \in Seq(M), NEW r, NEW p0, NEW pr,
         Linked(r, up, dn, p0, pr), dn # <<>>
  PROVE  /\ IsPlace(pr) /\ GoesDown(pr) /\ dn[1] = Envelope(r, pr)
         /\ Linked(r, up, Tail(dn), p0, After(r, pr))
<1>1. up = <<>> /\ Leads(r, dn, TRUE, pr, p0)
  BY DEF Linked
<1>2. /\ IsPlace(pr) /\ (GoesDown(pr) <=> TRUE) /\ dn[1] = Envelope(r, pr)
      /\ Leads(r, Tail(dn), TRUE, After(r, pr), p0)
  BY <1>1, LeadsFrom
<1>. QED
  BY <1>1, <1>2, Zenon DEF Linked

\* The steps of the operations.
LEMMA Steps ==
  ASSUME NEW n \in 1 .. Len(Ops), NEW k \in 1 .. Ends(n)
  PROVE  /\ IsPlace(<<n, k>>) /\ k \in 1 .. 6 /\ Ends(n) \in {5, 6}
         /\ Len(OtherSteps(Ops[n])) = Ends(n) /\ Len(ServeSteps(Ops[n])) = Ends(n)
         /\ OtherSteps(Ops[n])[k] = StepAt(<<n, k>>) /\ ServeSteps(Ops[n])[k] = StepAt(<<n, k>>)
         /\ Ops[n] = "write" =>
               /\ Ends(n) = 6
               /\ StepAt(<<n, k>>) = <<"handshake", "llen", "maxregions", "start", "count", "data">>[k]
               /\ GoesDown(<<n, k>>) <=> k = 1
         /\ Ops[n] = "read" =>
               /\ Ends(n) = 5
               /\ StepAt(<<n, k>>) = <<"llen", "maxregions", "count", "start", "data">>[k]
               /\ GoesDown(<<n, k>>) <=> k = 5
<1>1. Ops[n] = "write" \/ (Ops[n] = "read" /\ Ops[n] # "write")
  BY Programs
<1>2. CASE Ops[n] = "write"
  <2>1. k \in 1 .. 6 /\ Ends(n) = 6
    BY <1>2 DEF Ends
  <2>2. k = 1 \/ k = 2 \/ k = 3 \/ k = 4 \/ k = 5 \/ k = 6
    BY <2>1
  <2>. QED
    BY <1>2, <2>1, <2>2 DEF IsPlace, Ends, OtherSteps, ServeSteps, StepAt, GoesDown, Down
<1>3. CASE Ops[n] = "read" /\ Ops[n] # "write"
  <2>1. k \in 1 .. 5 /\ Ends(n) = 5
    BY <1>3 DEF Ends
  <2>2. k = 1 \/ k = 2 \/ k = 3 \/ k = 4 \/ k = 5
    BY <2>1
  <2>. QED
    BY <1>3, <2>1, <2>2 DEF IsPlace, Ends, OtherSteps, ServeSteps, StepAt, GoesDown, Down
<1>. QED
  BY <1>1, <1>2, <1>3

LEMMA Afters ==
  ASSUME NEW n \in 1 .. Len(Ops), NEW k \in 1 .. Ends(n), NEW r
  PROVE  /\ After(r, <<n, k>>) = IF LastStep(r, StepAt(<<n, k>>)) THEN <<n + 1, 1>> ELSE <<n, k + 1>>
         /\ k = Ends(n) => After(r, <<n, k>>) = <<n + 1, 1>>
         /\ ~LastStep(r, StepAt(<<n, k>>)) => k < Ends(n) /\ k + 1 \in 1 .. Ends(n)
         /\ k \in Nat /\ (Ends(n) = 5 \/ Ends(n) = 6)
<1>1. After(r, <<n, k>>) = IF LastStep(r, StepAt(<<n, k>>)) THEN <<n + 1, 1>> ELSE <<n, k + 1>>
  BY DEF After
<1>2. k = Ends(n) => StepAt(<<n, k>>) = "data"
  BY Steps, Programs
<1>3. k = Ends(n) => LastStep(r, StepAt(<<n, k>>))
  BY <1>2 DEF LastStep
<1>4. k \in Nat /\ (Ends(n) = 5 \/ Ends(n) = 6) /\ k <= Ends(n)
  BY DEF Ends
<1>. QED
  BY <1>1, <1>3, <1>4

\* The message that a task looks for is the first of the queue.
LEMMA TakesHead ==
  ASSUME NEW M, NEW c \in DOMAIN sent, sent[c] \in Seq(M), sent[c] # <<>>,
         NEW o, NEW s, sent[c][1].tag = Tag(o, s)
  PROVE  /\ First(c, o, s) = 1 /\ Arrived(c, o, s) # {}
         /\ Take(c, 1) <=> sent' = [sent EXCEPT ![c] = Tail(@)]
<1>1. 1 \in Arrived(c, o, s) /\ \A m \in Arrived(c, o, s) : m \in Nat /\ 1 <= m
  BY DEF Arrived
<1>2. First(c, o, s) = 1
  BY <1>1 DEF First
<1>3. SubSeq(sent[c], 1, 1 - 1) \o SubSeq(sent[c], 1 + 1, Len(sent[c])) = Tail(sent[c])
  <2>. DEFINE q == sent[c]
              e == SubSeq(q, 1, 1 - 1)
              t == SubSeq(q, 1 + 1, Len(q))
  <2>1. e = <<>> /\ t = Tail(q) /\ Tail(q) \in Seq(M)
    OBVIOUS
  <2>. HIDE DEF e, t
  <2>2. e \o t = t
    BY <2>1
  <2>. QED
    BY <2>1, <2>2 DEF e, t
<1>. QED
  BY <1>1, <1>2, <1>3, Zenon DEF Take

-----------------------------------------------------------------------------
(* What a step leaves as it is *)

\* The other tasks' steps.
LEMMA Keeps0 ==
  ASSUME Inv, UNCHANGED <<regions, rtask, rlen, rregions, rstart, rcount, file>>,
         op'[0] = op[0], step'[0] = step[0], iobuf'[0] = iobuf[0]
  PROVE  Turn' /\ Received' /\ Buffer0' /\ InFile' /\ \A q : At0(q)' = At0(q)
<1>1. Turn /\ Received /\ Buffer0 /\ InFile
  BY DEF Inv, Buffers
<1>2. /\ (\A r : llen(r)' = llen(r)) /\ \A r : Base(r)' = Base(r) /\ maxregions' = maxregions
      /\ (\A r : Starts(r)' = Starts(r)) /\ \A r : Counts(r)' = Counts(r)
  BY Fixed
<1>3. /\ (\A n, r : Room(n, r)' = Room(n, r)) /\ \A n, r : Buffer(n, r)' = Buffer(n, r)
      /\ \A n, r, x : InBuffer(n, r, x)' = InBuffer(n, r, x)
  BY FixedBuffers
<1>4. Op(0)' = Op(0) /\ (\A o : Doing(o)' <=> Doing(o))
  BY DEF Op, Doing
<1>5. \A s : Past(s)' <=> Past(s)
  BY DEF Past
<1>6. Turn'
  BY <1>1, <1>4 DEF Turn
<1>7. Received'
  BY <1>1, <1>2, <1>3, <1>4, <1>5 DEF Received
<1>8. Buffer0'
  BY <1>1, <1>2, <1>3, <1>4 DEF Buffer0
<1>9. InFile'
  BY <1>1, <1>2, <1>4 DEF InFile
<1>10. \A q : At0(q)' = At0(q)
  BY DEF At0
<1>. QED
  BY <1>6, <1>7, <1>8, <1>9, <1>10

\* What another task does not do.
LEMMA KeepsR ==
  ASSUME UNCHANGED regions, NEW r, op'[r] = op[r], step'[r] = step[r], iobuf'[r] = iobuf[r]
  PROVE  (BufferR(r)' <=> BufferR(r)) /\ AtR(r)' = AtR(r)
<1>1. \A q : llen(q)' = llen(q) /\ Base(q)' = Base(q)
  BY Fixed
<1>2. \A n, q : Buffer(n, q)' = Buffer(n, q)
  BY FixedBuffers
<1>3. Op(r)' = Op(r)
  BY DEF Op
<1>4. BufferR(r)' <=> BufferR(r)
  BY <1>1, <1>2, <1>3 DEF BufferR
<1>. QED
  BY <1>4 DEF AtR

-----------------------------------------------------------------------------
(* The steps of the other tasks *)

QueuesOf(f) == DOMAIN f = Others \X {"up", "down"} /\ \E M : \A c \in DOMAIN f : f[c] \in Seq(M)

LEMMA Posted ==
  ASSUME NEW f, QueuesOf(f), NEW c \in DOMAIN f, NEW m, NEW g, g = [f EXCEPT ![c] = Append(@, m)]
  PROVE  QueuesOf(g) /\ g[c] = Append(f[c], m) /\ \A d \in DOMAIN f : d # c => g[d] = f[d]
<1>1. PICK M : \A d \in DOMAIN f : f[d] \in Seq(M)
  BY DEF QueuesOf
<1>2. DOMAIN g = DOMAIN f /\ g[c] = Append(f[c], m) /\ \A d \in DOMAIN f : d # c => g[d] = f[d]
  OBVIOUS
<1>3. \A q \in Seq(M) : q \in Seq(M \cup {m}) /\ Append(q, m) \in Seq(M \cup {m})
  <2>. TAKE q \in Seq(M)
  <2>1. q \in Seq(M \cup {m})
    OBVIOUS
  <2>. QED
    BY <2>1
<1>4. \A d \in DOMAIN g : g[d] \in Seq(M \cup {m})
  BY <1>1, <1>2, <1>3
<1>5. QueuesOf(g)
  BY <1>2, <1>4, Zenon DEF QueuesOf
<1>. QED
  BY <1>2, <1>5

LEMMA Taken ==
  ASSUME NEW f, QueuesOf(f), NEW c \in DOMAIN f, f[c] # <<>>, NEW g, g = [f EXCEPT ![c] = Tail(@)]
  PROVE  QueuesOf(g) /\ g[c] = Tail(f[c]) /\ \A d \in DOMAIN f : d # c => g[d] = f[d]
<1>1. PICK M : \A d \in DOMAIN f : f[d] \in Seq(M)
  BY DEF QueuesOf
<1>2. DOMAIN g = DOMAIN f /\ g[c] = Tail(f[c]) /\ \A d \in DOMAIN f : d # c => g[d] = f[d]
  OBVIOUS
<1>3. Tail(f[c]) \in Seq(M)
  <2>1. f[c] \in Seq(M)
    BY <1>1
  <2>. QED
    BY <2>1
<1>4. \A d \in DOMAIN g : g[d] \in Seq(M)
  BY <1>1, <1>2, <1>3
<1>5. QueuesOf(g)
  BY <1>2, <1>4, Zenon DEF QueuesOf
<1>. QED
  BY <1>2, <1>5

LEMMA Links ==
  ASSUME UNCHANGED regions,
         \A q \in Others : Linked(q, sent'[<<q, "up">>], sent'[<<q, "down">>], At0(q)', AtR(q)')
  PROVE  Link'
<1>1. \A r, up, dn, p0, pr : Linked(r, up, dn, p0, pr)' <=> Linked(r, up, dn, p0, pr)
  BY FixedLinks
<1>2. ASSUME NEW q \in Others
      PROVE  Linked(q, sent[<<q, "up">>], sent[<<q, "down">>], At0(q), AtR(q))'
  <2>1. Linked(q, sent'[<<q, "up">>], sent'[<<q, "down">>], At0(q)', AtR(q)')
    OBVIOUS
  <2>. QED
    BY <1>1, <2>1
<1>. QED
  BY <1>2, Zenon DEF Link

\* Where another task is that still has a step to do.
LEMMA OtherPlace ==
  ASSUME Inv, NEW r \in Others, Running(r), step[r] <= Len(OtherSteps(Op(r)))
  PROVE  /\ r \in Io /\ r # 0 /\ op[r] \in 1 .. Len(Ops) /\ Op(r) = Ops[op[r]]
         /\ step[r] \in 1 .. Ends(op[r]) /\ AtR(r) = <<op[r], step[r]>>
         /\ <<r, "up">> \in DOMAIN sent /\ <<r, "down">> \in DOMAIN sent /\ QueuesOf(sent)
<1>1. Shape
  BY DEF Inv
<1>2. r \in Io /\ r # 0 /\ op[r] \in 1 .. Len(Ops) + 1 /\ step[r] \in 1 .. 7
  BY <1>1 DEF Shape, Others
<1>3. op[r] \in 1 .. Len(Ops) /\ Op(r) = Ops[op[r]]
  BY <1>2, Programs DEF Running, Op
<1>4. Len(OtherSteps(Ops[op[r]])) = Ends(op[r])
  BY <1>3, Programs DEF OtherSteps, Ends
<1>5. step[r] \in 1 .. Ends(op[r])
  BY <1>2, <1>3, <1>4 DEF Ends
<1>6. AtR(r) = <<op[r], step[r]>>
  BY <1>3, <1>5 DEF AtR, Ends
<1>7. <<r, "up">> \in DOMAIN sent /\ <<r, "down">> \in DOMAIN sent /\ QueuesOf(sent)
  BY <1>1 DEF Shape, QueuesOf
<1>. QED
  BY <1>2, <1>3, <1>5, <1>6, <1>7

\* The parts of the invariant that concern task 0, or the tasks that do
\* nothing, hold after a step of task r.
LEMMA OtherFrame ==
  ASSUME Inv, NEW r \in Others,
         UNCHANGED <<regions, rtask, rlen, rregions, rstart, rcount, file>>,
         \A q \in Io : q # r => op'[q] = op[q] /\ step'[q] = step[q] /\ iobuf'[q] = iobuf[q],
         \A q \in Others : q # r => sent'[<<q, "up">>] = sent[<<q, "up">>] /\ sent'[<<q, "down">>] = sent[<<q, "down">>],
         Shape', BufferR(r)',
         Linked(r, sent'[<<r, "up">>], sent'[<<r, "down">>], At0(r), AtR(r)')
  PROVE  Inv'
<1>1. 0 \in Io /\ 0 # r
  BY SerialAssumption DEF Io, Others
<1>2. op'[0] = op[0] /\ step'[0] = step[0] /\ iobuf'[0] = iobuf[0]
  BY <1>1
<1>3. Turn' /\ Received' /\ Buffer0' /\ InFile' /\ \A q : At0(q)' = At0(q)
  BY <1>2, Keeps0
<1>4. \A q \in Others : q # r => (BufferR(q)' <=> BufferR(q)) /\ AtR(q)' = AtR(q)
  <2>. TAKE q \in Others
  <2>. HAVE q # r
  <2>1. op'[q] = op[q] /\ step'[q] = step[q] /\ iobuf'[q] = iobuf[q]
    BY DEF Others
  <2>. QED
    BY <2>1, KeepsR
<1>5. \A q \in Others : BufferR(q)'
  BY <1>4 DEF Inv, Buffers
<1>6. \A q \in Others : Linked(q, sent[<<q, "up">>], sent[<<q, "down">>], At0(q), AtR(q))
  BY Zenon DEF Inv, Link
<1>7. ASSUME NEW q \in Others PROVE Linked(q, sent'[<<q, "up">>], sent'[<<q, "down">>], At0(q)', AtR(q)')
  <2>1. CASE q = r
    BY <1>3, <2>1, Zenon
  <2>2. CASE q # r
    BY <1>3, <1>4, <1>6, <2>2, Zenon
  <2>. QED
    BY <2>1, <2>2
<1>8. Link'
  BY <1>7, Links, Zenon
<1>9. Buffers'
  BY <1>3, <1>5, Zenon DEF Buffers
<1>. QED
  BY <1>3, <1>8, <1>9, Zenon DEF Inv

\* The data of a task are in its buffer when a write begins, and task 0 has
\* room for those of any task.
LEMMA OwnData ==
  ASSUME Regioned, NEW r \in Io, NEW n \in 1 .. Len(Ops), Ops[n] = "write"
  PROVE  \A x \in 0 .. nvars * llen(r) - 1 :
            /\ x \in 0 .. Room(n, r) - 1 /\ x \in 0 .. Room(n, 0) - 1
            /\ Buffer(n, r)[x] = InBuffer(n, r, x)
<1>1. llen(r) \in Nat /\ maxiobuflen \in Nat /\ llen(r) <= maxiobuflen /\ nvars \in Nat
  BY RegionTypes, Maxima, SerialAssumption
<1>2. nvars * llen(r) <= nvars * maxiobuflen /\ nvars * llen(r) \in Nat /\ nvars * maxiobuflen \in Nat
  BY <1>1
<1>. SUFFICES ASSUME NEW x \in 0 .. nvars * llen(r) - 1
              PROVE  /\ x \in 0 .. Room(n, r) - 1 /\ x \in 0 .. Room(n, 0) - 1
                     /\ Buffer(n, r)[x] = InBuffer(n, r, x)
  OBVIOUS
<1>3. llen(r) > 0
  BY <1>1
<1>4. Room(n, 0) = nvars * maxiobuflen /\ Room(n, r) = nvars * maxiobuflen
  BY <1>3 DEF Room
<1>5. x \in 0 .. Room(n, r) - 1
  BY <1>2, <1>4
<1>6. n <= Len(Ops) /\ x < nvars * llen(r) /\ ~(n > Len(Ops))
  BY <1>2, Programs
<1>7. Buffer(n, r)[x] = InBuffer(n, r, x)
  BY <1>5, <1>6 DEF Buffer, InBuffer
<1>. QED
  BY <1>4, <1>5, <1>7

\* Shape after a step of task r.
LEMMA ShapeAfter ==
  ASSUME Shape, UNCHANGED <<regions, file>>, NEW r \in Io, QueuesOf(sent'),
         NEW n \in 1 .. Len(Ops) + 1, NEW k \in 1 .. 7, NEW b,
         op' = [op EXCEPT ![r] = n], step' = [step EXCEPT ![r] = k],
         iobuf' = [iobuf EXCEPT ![r] = b] \/ (iobuf' = iobuf /\ b = iobuf[r]),
         r # 0 => k <= 6 /\ (n > Len(Ops) => k = 1)
  PROVE  Shape'
<1>1. /\ regions \in [Io -> Sizes] /\ op \in [Io -> 1 .. Len(Ops) + 1] /\ step \in [Io -> 1 .. 7]
      /\ DOMAIN iobuf = Io /\ DOMAIN file = Vars \X (0 .. Base(num_iotasks) - 1)
      /\ \A q \in Others : q \in Io /\ q # 0 /\ (op[q] > Len(Ops) => step[q] = 1) /\ step[q] <= 6
  BY DEF Shape, Others
<1>2. op' \in [Io -> 1 .. Len(Ops) + 1] /\ step' \in [Io -> 1 .. 7] /\ DOMAIN iobuf' = Io
  BY <1>1
<1>3. op'[r] = n /\ step'[r] = k /\ \A q \in Io : q # r => op'[q] = op[q] /\ step'[q] = step[q]
  BY <1>1
<1>4. \A q \in Others : (op'[q] > Len(Ops) => step'[q] = 1) /\ step'[q] <= 6
  BY <1>1, <1>3
<1>5. Base(num_iotasks)' = Base(num_iotasks)
  BY Fixed
<1>6. DOMAIN sent' = Others \X {"up", "down"} /\ \E M : \A c \in DOMAIN sent' : sent'[c] \in Seq(M)
  BY DEF QueuesOf
<1>. QED
  BY <1>1, <1>2, <1>3, <1>4, <1>5, <1>6 DEF Shape

LEMMA MessageIs ==
  ASSUME Inv, NEW r \in Others, Running(r), step[r] <= Len(OtherSteps(Op(r))),
         ~GoesDown(<<op[r], step[r]>>)
  PROVE  Message(r, StepAt(<<op[r], step[r]>>)) = Content(r, <<op[r], step[r]>>)
<1>. DEFINE n == op[r]
            k == step[r]
            s == StepAt(<<n, k>>)
<1>1. /\ r \in Io /\ r # 0 /\ n \in 1 .. Len(Ops) /\ Op(r) = Ops[n]
      /\ k \in 1 .. Ends(n)
  BY OtherPlace
<1>2. Regioned /\ BufferR(r)
  BY DEF Inv, Shape, Regioned, Buffers
<1>. HIDE DEF n, k
<1>3. Ops[n] = "write" => s \in {"llen", "maxregions", "start", "count", "data"}
  BY <1>1, Steps DEF n, k
<1>4. Ops[n] = "read" => s \in {"llen", "maxregions", "start", "count"}
  BY <1>1, Steps DEF n, k
<1>5. CASE s = "data"
  <2>1. Ops[n] = "write"
    BY <1>1, <1>4, <1>5, Programs
  <2>2. iobuf[r] = Buffer(n, r)
    <3>1. n <= Len(Ops)
      BY <1>1, Programs
    <3>. QED
      BY <1>1, <1>2, <2>1, <3>1 DEF BufferR, n
  <2>3. \A x \in 0 .. nvars * llen(r) - 1 : iobuf[r][x] = InBuffer(n, r, x)
    BY <1>1, <1>2, <2>1, <2>2, OwnData
  <2>4. Message(r, "data") = [x \in 0 .. nvars * llen(r) - 1 |-> InBuffer(n, r, x)]
    BY <2>3 DEF Message
  <2>5. Content(r, <<n, k>>) = [x \in 0 .. nvars * llen(r) - 1 |-> InBuffer(n, r, x)]
    BY <1>5, <2>1 DEF Content
  <2>. QED
    BY <1>5, <2>4, <2>5 DEF n, k
<1>6. CASE s \in {"llen", "maxregions", "start", "count"}
  <2>. HIDE DEF s
  <2>1. s = "llen" \/ s = "maxregions" \/ s = "start" \/ s = "count"
    BY <1>6
  <2>2. Message(r, s) = Content(r, <<n, k>>)
    BY <2>1 DEF Message, Content, s
  <2>. QED
    BY <2>2 DEF n, k, s
<1>7. Ops[n] \in {"write", "read"}
  BY <1>1, Programs
<1>. QED
  BY <1>3, <1>4, <1>5, <1>6, <1>7

LEMMA Sends == ASSUME Inv, NEW r \in Others, OtherSends(r) PROVE Inv'
<1>0. PICK n, k : n = op[r] /\ k = step[r]
  OBVIOUS
<1>. DEFINE p == <<n, k>>
            s == StepAt(p)
            m == Envelope(r, p)
            c == <<r, "up">>
<1>1. Running(r) /\ step[r] <= Len(OtherSteps(Op(r)))
  BY DEF OtherSends
<1>2. /\ r \in Io /\ r # 0 /\ n \in 1 .. Len(Ops) /\ Op(r) = Ops[n]
      /\ k \in 1 .. Ends(n) /\ AtR(r) = p
      /\ c \in DOMAIN sent /\ <<r, "down">> \in DOMAIN sent /\ QueuesOf(sent)
  BY <1>0, <1>1, OtherPlace
<1>3. OtherSteps(Op(r))[step[r]] = s /\ IsPlace(p)
  BY <1>0, <1>2, Steps
<1>4. /\ ~GoesDown(p)
      /\ sent' = [sent EXCEPT ![c] = Append(@, [tag |-> Tag(Op(r), s), val |-> Message(r, s)])]
      /\ IF LastStep(r, s) THEN NextOp(r)
         ELSE step' = [step EXCEPT ![r] = @ + 1] /\ UNCHANGED <<op, iobuf>>
      /\ UNCHANGED <<regions, sync, rtask, rlen, rregions, rstart, rcount, file, err>>
  BY <1>0, <1>2, <1>3 DEF OtherSends, Post, GoesDown
<1>5. sent' = [sent EXCEPT ![c] = Append(@, m)]
  BY <1>0, <1>1, <1>2, <1>4, MessageIs DEF Envelope
<1>. HIDE DEF p, s, m, c
<1>6. /\ QueuesOf(sent') /\ sent'[c] = Append(sent[c], m)
      /\ \A d \in DOMAIN sent : d # c => sent'[d] = sent[d]
  BY <1>2, <1>5, Posted
<1>7. Linked(r, sent[c], sent[<<r, "down">>], At0(r), p)
  BY <1>2, Zenon DEF Inv, Link, c
<1>8. Linked(r, sent'[c], sent'[<<r, "down">>], At0(r), After(r, p))
  <2>1. PICK M : \A d \in DOMAIN sent : sent[d] \in Seq(M)
    BY <1>2 DEF QueuesOf
  <2>2. sent[c] \in Seq(M) /\ sent[<<r, "down">>] \in Seq(M)
    BY <1>2, <2>1
  <2>3. sent'[<<r, "down">>] = sent[<<r, "down">>]
    BY <1>2, <1>6 DEF c
  <2>. QED
    BY <1>3, <1>4, <1>6, <1>7, <2>2, <2>3, SendUp DEF m
<1>9. Shape
  BY DEF Inv
<1>10. \A q \in Others : q # r => sent'[<<q, "up">>] = sent[<<q, "up">>] /\ sent'[<<q, "down">>] = sent[<<q, "down">>]
  <2>. TAKE q \in Others
  <2>. HAVE q # r
  <2>1. <<q, "up">> \in DOMAIN sent /\ <<q, "down">> \in DOMAIN sent
    BY <1>2 DEF QueuesOf
  <2>2. <<q, "up">> # c /\ <<q, "down">> # c
    BY DEF c
  <2>. QED
    BY <1>6, <2>1, <2>2
<1>11. CASE LastStep(r, s)
  <2>1. /\ op' = [op EXCEPT ![r] = n + 1] /\ step' = [step EXCEPT ![r] = 1]
        /\ iobuf' = [iobuf EXCEPT ![r] = Buffer(n + 1, r)]
    BY <1>0, <1>4, <1>11 DEF NextOp
  <2>2. /\ op'[r] = n + 1 /\ step'[r] = 1 /\ iobuf'[r] = Buffer(n + 1, r)
        /\ \A q \in Io : q # r => op'[q] = op[q] /\ step'[q] = step[q] /\ iobuf'[q] = iobuf[q]
    BY <1>2, <1>9, <2>1 DEF Shape
  <2>3. AtR(r)' = After(r, p)
    <3>1. AtR(r)' = <<n + 1, 1>>
      BY <2>2 DEF AtR, Ends
    <3>2. After(r, p) = <<n + 1, 1>>
      BY <1>2, <1>11, Afters DEF p, s
    <3>. QED
      BY <3>1, <3>2
  <2>4. Shape'
    <3>1. n + 1 \in 1 .. Len(Ops) + 1 /\ 1 \in 1 .. 7 /\ 1 <= 6
      BY <1>2, Programs
    <3>. QED
      BY <1>2, <1>4, <1>6, <1>9, <2>1, <3>1, ShapeAfter
  <2>5. BufferR(r)'
    <3>1. Buffer(n + 1, r)' = Buffer(n + 1, r)
      BY <1>4, FixedBuffers
    <3>. QED
      BY <2>2, <3>1 DEF BufferR, Op
  <2>6. Linked(r, sent'[<<r, "up">>], sent'[<<r, "down">>], At0(r), AtR(r)')
    BY <1>8, <2>3, Zenon DEF c
  <2>. QED
    BY <1>4, <1>10, <2>2, <2>4, <2>5, <2>6, OtherFrame
<1>12. CASE ~LastStep(r, s)
  <2>1. step' = [step EXCEPT ![r] = k + 1] /\ op' = op /\ iobuf' = iobuf
    BY <1>0, <1>4, <1>12
  <2>2. /\ op'[r] = n /\ step'[r] = k + 1
        /\ \A q \in Io : q # r => op'[q] = op[q] /\ step'[q] = step[q] /\ iobuf'[q] = iobuf[q]
    BY <1>0, <1>2, <1>9, <2>1 DEF Shape
  <2>3. k + 1 \in 1 .. Ends(n) /\ After(r, p) = <<n, k + 1>> /\ k \in Nat /\ (Ends(n) = 5 \/ Ends(n) = 6)
    BY <1>2, <1>12, Afters DEF p, s
  <2>4. AtR(r)' = After(r, p)
    BY <2>2, <2>3 DEF AtR, Ends
  <2>5. Shape'
    <3>1. k + 1 \in 1 .. 7 /\ k + 1 <= 6 /\ n \in 1 .. Len(Ops) + 1 /\ ~(n > Len(Ops))
      BY <1>2, <2>3, Programs
    <3>2. op' = [op EXCEPT ![r] = n] /\ iobuf' = iobuf
      BY <1>0, <1>2, <1>9, <2>1 DEF Shape
    <3>. QED
      BY <1>2, <1>4, <1>6, <1>9, <2>1, <3>1, <3>2, ShapeAfter
  <2>6. BufferR(r)'
    <3>1. BufferR(r)
      BY DEF Inv, Buffers
    <3>2. \A i, q : Buffer(i, q)' = Buffer(i, q)
      BY <1>4, FixedBuffers
    <3>3. Op(r)' = Op(r)
      BY <2>1 DEF Op
    <3>4. Op(r) = "read" => step'[r] # 6
      BY <1>2, <2>2, <2>3 DEF Ends
    <3>. QED
      BY <1>0, <2>1, <3>1, <3>2, <3>3, <3>4 DEF BufferR
  <2>7. Linked(r, sent'[<<r, "up">>], sent'[<<r, "down">>], At0(r), AtR(r)')
    BY <1>8, <2>4, Zenon DEF c
  <2>. QED
    BY <1>4, <1>10, <2>2, <2>5, <2>6, <2>7, OtherFrame
<1>. QED
  BY <1>11, <1>12

LEMMA Receives == ASSUME Inv, NEW r \in Others, OtherReceives(r) PROVE Inv'
<1>0. PICK n, k : n = op[r] /\ k = step[r]
  OBVIOUS
<1>. DEFINE p == <<n, k>>
            s == StepAt(p)
            c == <<r, "down">>
            b == IF s = "data" THEN Content(r, p) ELSE iobuf[r]
<1>1. Running(r) /\ step[r] <= Len(OtherSteps(Op(r)))
  BY DEF OtherReceives
<1>2. /\ r \in Io /\ r # 0 /\ n \in 1 .. Len(Ops) /\ Op(r) = Ops[n]
      /\ k \in 1 .. Ends(n) /\ AtR(r) = p
      /\ <<r, "up">> \in DOMAIN sent /\ c \in DOMAIN sent /\ QueuesOf(sent)
  BY <1>0, <1>1, OtherPlace
<1>3. OtherSteps(Op(r))[step[r]] = s
  BY <1>0, <1>2, Steps
<1>4. /\ GoesDown(p) /\ Arrived(c, Op(r), s) # {}
      /\ Take(c, First(c, Op(r), s))
      /\ step' = [step EXCEPT ![r] = k + 1]
      /\ iobuf' = IF s = "data" THEN [iobuf EXCEPT ![r] = sent[c][First(c, Op(r), s)].val] ELSE iobuf
      /\ UNCHANGED <<regions, sync, op, rtask, rlen, rregions, rstart, rcount, file, err>>
  BY <1>0, <1>2, <1>3 DEF OtherReceives, GoesDown
<1>. HIDE DEF p, s, c, b
<1>5. PICK M : \A d \in DOMAIN sent : sent[d] \in Seq(M)
  BY <1>2 DEF QueuesOf
<1>6. sent[c] \in Seq(M) /\ sent[<<r, "up">>] \in Seq(M)
  BY <1>2, <1>5
<1>7. sent[c] # <<>>
  BY <1>4 DEF Arrived
<1>8. Linked(r, sent[<<r, "up">>], sent[c], At0(r), p)
  BY <1>2, Zenon DEF Inv, Link, c
<1>9. sent[c][1] = Envelope(r, p) /\ Linked(r, sent[<<r, "up">>], Tail(sent[c]), At0(r), After(r, p))
  BY <1>6, <1>7, <1>8, TakeDown
<1>10. sent[c][1].tag = Tag(Op(r), s) /\ sent[c][1].val = Content(r, p)
  BY <1>2, <1>9 DEF Envelope, p, s
<1>11. First(c, Op(r), s) = 1 /\ sent' = [sent EXCEPT ![c] = Tail(@)]
  <2>1. /\ First(c, Op(r), s) = 1
        /\ Take(c, 1) <=> sent' = [sent EXCEPT ![c] = Tail(@)]
    BY <1>2, <1>6, <1>7, <1>10, TakesHead
  <2>2. Take(c, 1)
    BY <1>4, <2>1, Zenon
  <2>. QED
    BY <2>1, <2>2, Zenon
<1>12. /\ QueuesOf(sent') /\ sent'[c] = Tail(sent[c])
       /\ \A d \in DOMAIN sent : d # c => sent'[d] = sent[d]
  BY <1>2, <1>7, <1>11, Taken
<1>13. Linked(r, sent'[<<r, "up">>], sent'[c], At0(r), After(r, p))
  <2>1. sent'[<<r, "up">>] = sent[<<r, "up">>]
    BY <1>2, <1>12 DEF c
  <2>. QED
    BY <1>9, <1>12, <2>1
<1>14. \A q \in Others : q # r => sent'[<<q, "up">>] = sent[<<q, "up">>] /\ sent'[<<q, "down">>] = sent[<<q, "down">>]
  <2>. TAKE q \in Others
  <2>. HAVE q # r
  <2>1. <<q, "up">> \in DOMAIN sent /\ <<q, "down">> \in DOMAIN sent
    BY <1>2 DEF QueuesOf
  <2>2. <<q, "up">> # c /\ <<q, "down">> # c
    BY DEF c
  <2>. QED
    BY <1>12, <2>1, <2>2
<1>15. Shape
  BY DEF Inv
<1>16. iobuf' = [iobuf EXCEPT ![r] = b] \/ (iobuf' = iobuf /\ b = iobuf[r])
  BY <1>4, <1>10, <1>11 DEF b
<1>18. \/ Ops[n] = "write" /\ k = 1 /\ s = "handshake"
       \/ Ops[n] = "read" /\ k = 5 /\ s = "data" /\ Ends(n) = 5
  <2>1. GoesDown(<<n, k>>)
    BY <1>4 DEF p
  <2>2. CASE Ops[n] = "write"
    <3>1. k = 1 /\ s = <<"handshake", "llen", "maxregions", "start", "count", "data">>[k]
      BY <1>2, <2>1, <2>2, Steps DEF p, s
    <3>. QED
      BY <2>2, <3>1
  <2>3. CASE Ops[n] = "read"
    <3>1. k = 5 /\ s = <<"llen", "maxregions", "count", "start", "data">>[k] /\ Ends(n) = 5
      BY <1>2, <2>1, <2>3, Steps DEF p, s
    <3>. QED
      BY <2>3, <3>1
  <2>. QED
    BY <1>2, <2>2, <2>3, Programs
<1>19. /\ Shape' /\ op'[r] = n /\ step'[r] = k + 1 /\ iobuf'[r] = b
       /\ \A q \in Io : q # r => op'[q] = op[q] /\ step'[q] = step[q] /\ iobuf'[q] = iobuf[q]
  <2>1. op' = [op EXCEPT ![r] = n]
    BY <1>0, <1>2, <1>4, <1>15 DEF Shape
  <2>2. k + 1 \in 1 .. 7 /\ k + 1 <= 6 /\ n \in 1 .. Len(Ops) + 1 /\ ~(n > Len(Ops))
    BY <1>2, <1>18, Programs
  <2>3. UNCHANGED <<regions, file>> /\ step' = [step EXCEPT ![r] = k + 1] /\ QueuesOf(sent') /\ r \in Io
    BY <1>2, <1>4, <1>12
  <2>4. k + 1 <= 6 /\ (n > Len(Ops) => k + 1 = 1)
    BY <2>2
  <2>5. Shape'
    BY <1>15, <1>16, <2>1, <2>2, <2>3, <2>4, ShapeAfter
  <2>6. /\ op'[r] = n /\ step'[r] = k + 1 /\ iobuf'[r] = b
        /\ \A q \in Io : q # r => op'[q] = op[q] /\ step'[q] = step[q] /\ iobuf'[q] = iobuf[q]
    BY <1>15, <1>16, <2>1, <2>3 DEF Shape
  <2>. QED
    BY <2>5, <2>6
<1>20. AtR(r)' = After(r, p)
  <2>1. n <= Len(Ops)
    BY <1>2, Programs
  <2>2. CASE Ops[n] = "write" /\ k = 1 /\ s = "handshake"
    <3>1. ~LastStep(r, StepAt(p))
      BY <2>2 DEF s, LastStep
    <3>2. After(r, p) = <<n, k + 1>>
      BY <1>2, <3>1, Afters DEF p
    <3>3. AtR(r)' = <<n, 2>>
      BY <1>19, <2>1, <2>2 DEF AtR, Ends
    <3>. QED
      BY <2>2, <3>2, <3>3
  <2>3. CASE Ops[n] = "read" /\ k = 5 /\ s = "data" /\ Ends(n) = 5
    <3>1. After(r, p) = <<n + 1, 1>>
      BY <1>2, <2>3, Afters DEF p
    <3>2. AtR(r)' = <<n + 1, 1>>
      BY <1>19, <2>1, <2>3 DEF AtR
    <3>. QED
      BY <3>1, <3>2
  <2>. QED
    BY <1>18, <2>2, <2>3
<1>21. BufferR(r)'
  <2>1. Op(r)' = Ops[n]
    BY <1>0, <1>4 DEF Op
  <2>2. CASE Ops[n] = "write" /\ k = 1 /\ s = "handshake"
    <3>1. BufferR(r)
      BY DEF Inv, Buffers
    <3>2. iobuf[r] = Buffer(n, r)
      <4>1. op[r] <= Len(Ops)
        BY <1>0, <1>2, Programs
      <4>. QED
        BY <1>0, <1>2, <2>2, <3>1, <4>1 DEF BufferR
    <3>3. Buffer(n, r)' = Buffer(n, r)
      BY <1>4, FixedBuffers
    <3>4. iobuf'[r] = iobuf[r]
      BY <1>19, <2>2 DEF b
    <3>. QED
      BY <1>19, <2>1, <2>2, <3>2, <3>3, <3>4 DEF BufferR
  <2>3. CASE Ops[n] = "read" /\ k = 5 /\ s = "data" /\ Ends(n) = 5
    <3>1. iobuf'[r] = [x \in 0 .. llen(r) - 1 |-> Left(n, 1, Base(r) + x)]
      BY <1>19, <2>3 DEF b, Content, p, s
    <3>2. \A q : llen(q)' = llen(q) /\ Base(q)' = Base(q)
      BY <1>4, Fixed
    <3>3. (iobuf[r] = [x \in 0 .. llen(r) - 1 |-> Left(op[r], 1, Base(r) + x)])'
      BY <1>19, <3>1, <3>2
    <3>4. (Op(r) # "write")'
      BY <2>1, <2>3
    <3>. QED
      BY <3>3, <3>4 DEF BufferR
  <2>. QED
    BY <1>18, <2>2, <2>3
<1>22. Linked(r, sent'[<<r, "up">>], sent'[<<r, "down">>], At0(r), AtR(r)')
  BY <1>13, <1>20, Zenon DEF c
<1>. QED
  BY <1>4, <1>14, <1>19, <1>21, <1>22, OtherFrame

LEMMA Returns == ASSUME Inv, NEW r \in Others, OtherReturns(r) PROVE Inv'
<1>0. PICK n, k : n = op[r] /\ k = step[r]
  OBVIOUS
<1>1. /\ Running(r) /\ k > Len(OtherSteps(Op(r))) /\ NextOp(r)
      /\ UNCHANGED <<regions, sync, rtask, rlen, rregions, rstart, rcount, sent, file, err>>
  BY <1>0 DEF OtherReturns
<1>2. Shape
  BY DEF Inv
<1>3. r \in Io /\ r # 0 /\ n \in 1 .. Len(Ops) + 1
  BY <1>0, <1>2 DEF Shape, Others
<1>4. n \in 1 .. Len(Ops) /\ Op(r) = Ops[n]
  BY <1>0, <1>1, <1>3, Programs DEF Running, Op
<1>5. k > Ends(n)
  <2>1. Len(OtherSteps(Ops[n])) = Ends(n)
    BY <1>4, Programs DEF OtherSteps, Ends
  <2>. QED
    BY <1>1, <1>4, <2>1
<1>6. /\ op' = [op EXCEPT ![r] = n + 1] /\ step' = [step EXCEPT ![r] = 1]
      /\ iobuf' = [iobuf EXCEPT ![r] = Buffer(n + 1, r)]
  BY <1>0, <1>1 DEF NextOp
<1>7. /\ Shape' /\ op'[r] = n + 1 /\ step'[r] = 1 /\ iobuf'[r] = Buffer(n + 1, r)
      /\ \A q \in Io : q # r => op'[q] = op[q] /\ step'[q] = step[q] /\ iobuf'[q] = iobuf[q]
  <2>1. n + 1 \in 1 .. Len(Ops) + 1 /\ 1 \in 1 .. 7 /\ 1 <= 6
    BY <1>4, Programs
  <2>2. QueuesOf(sent')
    BY <1>1, <1>2 DEF Shape, QueuesOf
  <2>3. UNCHANGED <<regions, file>>
    BY <1>1
  <2>4. Shape'
    BY <1>2, <1>3, <1>6, <2>1, <2>2, <2>3, ShapeAfter
  <2>5. /\ op'[r] = n + 1 /\ step'[r] = 1 /\ iobuf'[r] = Buffer(n + 1, r)
        /\ \A q \in Io : q # r => op'[q] = op[q] /\ step'[q] = step[q] /\ iobuf'[q] = iobuf[q]
    BY <1>2, <1>3, <1>6 DEF Shape
  <2>. QED
    BY <2>4, <2>5
<1>8. AtR(r)' = AtR(r)
  <2>1. AtR(r) = <<n + 1, 1>>
    BY <1>0, <1>4, <1>5, Programs DEF AtR
  <2>2. AtR(r)' = <<n + 1, 1>>
    BY <1>7 DEF AtR, Ends
  <2>. QED
    BY <2>1, <2>2
<1>9. BufferR(r)'
  <2>1. Buffer(n + 1, r)' = Buffer(n + 1, r)
    BY <1>1, FixedBuffers
  <2>. QED
    BY <1>7, <2>1 DEF BufferR, Op
<1>10. Linked(r, sent'[<<r, "up">>], sent'[<<r, "down">>], At0(r), AtR(r)')
  <2>1. Linked(r, sent[<<r, "up">>], sent[<<r, "down">>], At0(r), AtR(r))
    BY Zenon DEF Inv, Link
  <2>2. sent' = sent
    BY <1>1
  <2>. QED
    BY <1>8, <2>1, <2>2, Zenon
<1>. QED
  BY <1>1, <1>7, <1>9, <1>10, OtherFrame

-----------------------------------------------------------------------------
(* The steps of task 0 for the task it serves *)

LEMMA Befores ==
  ASSUME NEW n, NEW s
  PROVE  /\ ~Before(n, 1, s)
         /\ \A k \in Nat : Before(n, k + 1, s) => Before(n, k, s) \/ s = StepAt(<<n, k>>)
<1>1. \A i \in 1 .. Ends(n) : i \in Nat /\ ~(i < 1)
  BY DEF Ends
<1>2. ~Before(n, 1, s)
  BY <1>1 DEF Before
<1>3. ASSUME NEW k \in Nat, Before(n, k + 1, s) PROVE Before(n, k, s) \/ s = StepAt(<<n, k>>)
  <2>1. PICK i \in 1 .. Ends(n) : i < k + 1 /\ StepAt(<<n, i>>) = s
    BY <1>3 DEF Before
  <2>2. i < k \/ i = k
    BY <1>1, <2>1
  <2>. QED
    BY <2>1, <2>2 DEF Before
<1>. QED
  BY <1>2, <1>3

\* A step of task 0 that changes neither its operation nor the task it
\* serves, and nothing in the file.
LEMMA ServeFrame ==
  ASSUME Inv, rtask \in Others, UNCHANGED <<regions, op, rtask, file>>,
         \A q \in Others : step'[q] = step[q] /\ iobuf'[q] = iobuf[q],
         DOMAIN iobuf'[0] = DOMAIN iobuf[0],
         step'[0] <= Ends(op[0]) + 1, Shape', Received',
         \A q \in Others : q # rtask => sent'[<<q, "up">>] = sent[<<q, "up">>] /\ sent'[<<q, "down">>] = sent[<<q, "down">>],
         Linked(rtask, sent'[<<rtask, "up">>], sent'[<<rtask, "down">>], At0(rtask)', AtR(rtask))
  PROVE  Inv'
<1>1. Turn /\ Buffer0 /\ InFile /\ rtask # 0 /\ rtask <= num_iotasks
  BY SerialAssumption DEF Inv, Buffers, Others, Io
<1>2. /\ (\A r : llen(r)' = llen(r)) /\ \A r : Base(r)' = Base(r)
      /\ (\A n, r : Room(n, r)' = Room(n, r)) /\ \A n, r : Buffer(n, r)' = Buffer(n, r)
  BY Fixed, FixedBuffers
<1>3. Op(0)' = Op(0) /\ (\A o : Doing(o)' <=> Doing(o))
  BY DEF Op, Doing
<1>4. Turn'
  BY <1>1, <1>3 DEF Turn
<1>5. InFile'
  BY <1>1, <1>2, <1>3 DEF InFile
<1>6. Buffer0'
  <2>1. ~(rtask' > num_iotasks) /\ rtask' # 0
    BY <1>1, SerialAssumption DEF Others, Io
  <2>. QED
    BY <1>1, <1>2, <2>1 DEF Buffer0
<1>7. \A q \in Others : (BufferR(q)' <=> BufferR(q)) /\ AtR(q)' = AtR(q)
  BY KeepsR
<1>8. Buffers'
  BY <1>6, <1>7 DEF Inv, Buffers
<1>9. \A q \in Others : q # rtask => At0(q)' = At0(q)
  BY DEF At0
<1>10. \A q \in Others : Linked(q, sent[<<q, "up">>], sent[<<q, "down">>], At0(q), AtR(q))
  BY Zenon DEF Inv, Link
<1>11. ASSUME NEW q \in Others PROVE Linked(q, sent'[<<q, "up">>], sent'[<<q, "down">>], At0(q)', AtR(q)')
  <2>1. CASE q = rtask
    <3>1. AtR(q)' = AtR(q)
      BY <1>7
    <3>2. At0(q)' = At0(rtask)'
      BY <2>1 DEF At0
    <3>. QED
      BY <2>1, <3>1, <3>2, Zenon
  <2>2. CASE q # rtask
    BY <1>7, <1>9, <1>10, <2>2, Zenon
  <2>. QED
    BY <2>1, <2>2
<1>12. Link'
  BY <1>11, Links, Zenon
<1>. QED
  BY <1>4, <1>5, <1>8, <1>12, Zenon DEF Inv

LEMMA ServePlace ==
  ASSUME Inv, NEW s, Serving(s)
  PROVE  /\ rtask \in Others /\ rtask \in Io /\ rtask # 0 /\ 0 \in Io /\ 0 \notin Others
         /\ op[0] \in 1 .. Len(Ops) /\ op[0] <= Len(Ops) /\ Op(0) = Ops[op[0]]
         /\ step[0] \in 1 .. Ends(op[0]) /\ At0(rtask) = <<op[0], step[0]>>
         /\ Len(ServeSteps(Op(0))) = Ends(op[0]) /\ s = StepAt(<<op[0], step[0]>>)
         /\ <<rtask, "up">> \in DOMAIN sent /\ <<rtask, "down">> \in DOMAIN sent /\ QueuesOf(sent)
<1>1. Shape
  BY DEF Inv
<1>2. /\ rtask \in Others /\ rtask \in Io /\ rtask # 0 /\ 0 \in Io /\ 0 \notin Others
      /\ Running(0) /\ step[0] <= Len(ServeSteps(Op(0))) /\ s = ServeSteps(Op(0))[step[0]]
  BY SerialAssumption DEF Serving, Others, Io
<1>3. op[0] \in 1 .. Len(Ops) + 1 /\ step[0] \in 1 .. 7
  BY <1>1, <1>2 DEF Shape
<1>4. op[0] \in 1 .. Len(Ops) /\ op[0] <= Len(Ops) /\ Op(0) = Ops[op[0]]
  BY <1>2, <1>3, Programs DEF Running, Op
<1>5. Len(ServeSteps(Op(0))) = Ends(op[0]) /\ (Ends(op[0]) = 5 \/ Ends(op[0]) = 6)
  BY <1>4, Programs DEF ServeSteps, Ends
<1>6. step[0] \in 1 .. Ends(op[0])
  BY <1>2, <1>3, <1>5
<1>7. At0(rtask) = <<op[0], step[0]>>
  <2>1. ~(rtask < rtask) /\ step[0] <= Ends(op[0])
    BY <1>2, <1>5, <1>6 DEF Io
  <2>. QED
    BY <2>1 DEF At0
<1>8. s = StepAt(<<op[0], step[0]>>)
  BY <1>2, <1>4, <1>6, Steps
<1>9. <<rtask, "up">> \in DOMAIN sent /\ <<rtask, "down">> \in DOMAIN sent /\ QueuesOf(sent)
  BY <1>1, <1>2 DEF Shape, QueuesOf
<1>. QED
  BY <1>2, <1>4, <1>5, <1>6, <1>7, <1>8, <1>9

LEMMA Handshakes == ASSUME Inv, ServeSends PROVE Inv'
<1>0. PICK n, k, r : n = op[0] /\ k = step[0] /\ r = rtask
  OBVIOUS
<1>. DEFINE p == <<n, k>>
            m == Envelope(r, p)
            c == <<r, "down">>
<1>1. /\ Serving("handshake")
      /\ sent' = [sent EXCEPT ![c] = Append(@, [tag |-> Tag(Op(0), "handshake"), val |-> 0])]
      /\ step' = [step EXCEPT ![0] = k + 1]
      /\ UNCHANGED <<regions, sync, op, rtask, rlen, rregions, rstart, rcount, iobuf, file, err>>
  BY <1>0 DEF ServeSends, Post
<1>2. /\ r \in Others /\ r \in Io /\ r # 0 /\ 0 \in Io /\ 0 \notin Others
      /\ n \in 1 .. Len(Ops) /\ n <= Len(Ops) /\ Op(0) = Ops[n]
      /\ k \in 1 .. Ends(n) /\ At0(r) = p /\ StepAt(p) = "handshake"
      /\ <<r, "up">> \in DOMAIN sent /\ c \in DOMAIN sent /\ QueuesOf(sent)
  BY <1>0, <1>1, ServePlace
<1>3. m = [tag |-> Tag(Op(0), "handshake"), val |-> 0] /\ IsPlace(p) /\ GoesDown(p)
  BY <1>2, Steps DEF Envelope, Content, GoesDown, Down
<1>4. sent' = [sent EXCEPT ![c] = Append(@, m)]
  BY <1>1, <1>3
<1>5. ~LastStep(r, StepAt(p))
  BY <1>2 DEF LastStep
<1>. HIDE DEF p, m, c
<1>6. /\ QueuesOf(sent') /\ sent'[c] = Append(sent[c], m)
      /\ \A d \in DOMAIN sent : d # c => sent'[d] = sent[d]
  BY <1>2, <1>4, Posted
<1>7. k + 1 \in 1 .. Ends(n) /\ After(r, p) = <<n, k + 1>> /\ k \in Nat /\ (Ends(n) = 5 \/ Ends(n) = 6)
  BY <1>2, <1>5, Afters DEF p
<1>8. Linked(r, sent[<<r, "up">>], sent[c], At0(r), AtR(r))
  BY <1>2, Zenon DEF Inv, Link, c
<1>9. Linked(r, sent'[<<r, "up">>], sent'[c], After(r, p), AtR(r))
  <2>1. PICK M : \A d \in DOMAIN sent : sent[d] \in Seq(M)
    BY <1>2 DEF QueuesOf
  <2>2. sent[c] \in Seq(M) /\ sent[<<r, "up">>] \in Seq(M)
    BY <1>2, <2>1
  <2>3. sent'[<<r, "up">>] = sent[<<r, "up">>]
    BY <1>2, <1>6 DEF c
  <2>4. Linked(r, sent[<<r, "up">>], sent[c], p, AtR(r))
    BY <1>2, <1>8
  <2>. QED
    BY <1>3, <1>6, <2>2, <2>3, <2>4, SendDown DEF m
<1>10. \A q \in Others : q # r => sent'[<<q, "up">>] = sent[<<q, "up">>] /\ sent'[<<q, "down">>] = sent[<<q, "down">>]
  <2>. TAKE q \in Others
  <2>. HAVE q # r
  <2>1. <<q, "up">> \in DOMAIN sent /\ <<q, "down">> \in DOMAIN sent
    BY <1>2 DEF QueuesOf
  <2>2. <<q, "up">> # c /\ <<q, "down">> # c
    BY DEF c
  <2>. QED
    BY <1>6, <2>1, <2>2
<1>11. Shape
  BY DEF Inv
<1>12. step'[0] = k + 1 /\ \A q \in Others : step'[q] = step[q] /\ iobuf'[q] = iobuf[q]
  BY <1>1, <1>2, <1>11 DEF Shape, Others
<1>13. Shape'
  <2>1. k + 1 \in 1 .. 7 /\ n \in 1 .. Len(Ops) + 1
    BY <1>2, <1>7, Programs
  <2>2. op' = [op EXCEPT ![0] = n] /\ UNCHANGED <<regions, file>>
    BY <1>0, <1>1, <1>2, <1>11 DEF Shape
  <2>. QED
    BY <1>1, <1>2, <1>6, <1>11, <2>1, <2>2, ShapeAfter
<1>14. Received'
  <2>1. ASSUME Ops[n] = "read" PROVE FALSE
    <3>1. k = 5 /\ StepAt(p) = <<"llen", "maxregions", "count", "start", "data">>[k]
      BY <1>2, <1>3, <2>1, Steps DEF p
    <3>. QED
      BY <1>2, <3>1
  <2>2. k = 1
    <3>1. Ops[n] = "write"
      BY <1>2, <2>1, Programs
    <3>. QED
      BY <1>2, <1>3, <3>1, Steps DEF p
  <2>3. ~Before(n, 1 + 1, "llen") /\ ~Before(n, 1 + 1, "maxregions") /\ ~Before(n, 1 + 1, "start")
        /\ ~Before(n, 1 + 1, "count") /\ ~Before(n, 1 + 1, "data")
    BY <1>2, <2>2, Befores DEF p
  <2>4. op'[0] = n /\ step'[0] = 1 + 1 /\ step'[0] # 6
    BY <1>0, <1>1, <1>12, <2>2
  <2>5. (~Past("llen") /\ ~Past("maxregions") /\ ~Past("start") /\ ~Past("count") /\ ~Past("data"))'
    BY <2>3, <2>4 DEF Past
  <2>. QED
    BY <2>4, <2>5 DEF Received
<1>15. At0(r)' = After(r, p)
  BY <1>0, <1>1, <1>2, <1>7, <1>12 DEF At0, Io
<1>16. At0(rtask)' = At0(r)'
  BY <1>0, <1>1 DEF At0
<1>17. Linked(rtask, sent'[<<rtask, "up">>], sent'[<<rtask, "down">>], At0(rtask)', AtR(rtask))
  BY <1>0, <1>9, <1>15, <1>16, Zenon DEF c
<1>18. step'[0] <= Ends(op[0]) + 1 /\ DOMAIN iobuf'[0] = DOMAIN iobuf[0]
  BY <1>0, <1>1, <1>7, <1>12
<1>19. \A q \in Others : q # rtask => sent'[<<q, "up">>] = sent[<<q, "up">>] /\ sent'[<<q, "down">>] = sent[<<q, "down">>]
  BY <1>0, <1>10
<1>20. rtask \in Others /\ UNCHANGED <<regions, op, rtask, file>>
  BY <1>0, <1>1, <1>2
<1>. QED
  BY <1>12, <1>13, <1>14, <1>17, <1>18, <1>19, <1>20, ServeFrame

LEMMA ServeTakes == ASSUME Inv, ServeReceives PROVE Inv'
<1>0. PICK n, k, r : n = op[0] /\ k = step[0] /\ r = rtask
  OBVIOUS
<1>. DEFINE p == <<n, k>>
            s == StepAt(p)
            c == <<r, "up">>
<1>a. PICK val : val = Content(r, p)
  OBVIOUS
<1>b. PICK next : next = IF s = "llen" /\ val = 0 THEN Ends(n) + 1 ELSE k + 1
  OBVIOUS
<1>c. PICK buf : buf = IF s = "data"
                       THEN [x \in DOMAIN iobuf[0] |-> IF x \in DOMAIN val THEN val[x] ELSE iobuf[0][x]]
                       ELSE iobuf[0]
  OBVIOUS
<1>1. PICK t \in {"llen", "maxregions", "start", "count", "data"} :
         LET v == sent[<<rtask, "up">>][First(<<rtask, "up">>, Op(0), t)].val
         IN  /\ Serving(t) /\ ~Down(Op(0), t)
             /\ Arrived(<<rtask, "up">>, Op(0), t) # {}
             /\ Take(<<rtask, "up">>, First(<<rtask, "up">>, Op(0), t))
             /\ rlen' = IF t = "llen" THEN v ELSE rlen
             /\ rregions' = IF t = "maxregions" THEN v ELSE rregions
             /\ rstart' = IF t = "start" THEN v ELSE rstart
             /\ rcount' = IF t = "count" THEN v ELSE rcount
             /\ iobuf' = IF t # "data" THEN iobuf
                         ELSE [iobuf EXCEPT ![0] = [x \in DOMAIN @ |-> IF x \in DOMAIN v THEN v[x] ELSE @[x]]]
             /\ step' = [step EXCEPT ![0] = IF t = "llen" /\ v = 0 THEN Len(ServeSteps(Op(0))) + 1 ELSE @ + 1]
             /\ UNCHANGED <<regions, sync, op, rtask, file, err>>
  BY Zenon DEF ServeReceives
<1>2. /\ r \in Others /\ r \in Io /\ r # 0 /\ 0 \in Io /\ 0 \notin Others
      /\ n \in 1 .. Len(Ops) /\ n <= Len(Ops) /\ Op(0) = Ops[n]
      /\ k \in 1 .. Ends(n) /\ At0(r) = p /\ t = s /\ Len(ServeSteps(Op(0))) = Ends(n)
      /\ c \in DOMAIN sent /\ <<r, "down">> \in DOMAIN sent /\ QueuesOf(sent)
  BY <1>0, <1>1, ServePlace
<1>3. IsPlace(p) /\ ~GoesDown(p) /\ s \in {"llen", "maxregions", "start", "count", "data"}
      /\ sent[c] # <<>>
  <2>1. ~Down(Op(0), s) /\ Arrived(c, Op(0), s) # {}
    BY <1>0, <1>1, <1>2, Zenon
  <2>2. sent[c] # <<>>
    BY <2>1 DEF Arrived
  <2>. QED
    BY <1>1, <1>2, <2>1, <2>2, Steps DEF GoesDown
<1>. HIDE DEF p, s, c
<1>4. PICK M : \A d \in DOMAIN sent : sent[d] \in Seq(M)
  BY <1>2 DEF QueuesOf
<1>5. sent[c] \in Seq(M) /\ sent[<<r, "down">>] \in Seq(M)
  BY <1>2, <1>4
<1>6. Linked(r, sent[c], sent[<<r, "down">>], p, AtR(r))
  <2>1. Linked(r, sent[c], sent[<<r, "down">>], At0(r), AtR(r))
    BY <1>2, Zenon DEF Inv, Link, c
  <2>. QED
    BY <1>2, <2>1
<1>7. sent[c][1] = Envelope(r, p) /\ Linked(r, Tail(sent[c]), sent[<<r, "down">>], After(r, p), AtR(r))
  BY <1>3, <1>5, <1>6, TakeUp
<1>8. sent[c][1].tag = Tag(Op(0), s) /\ sent[c][1].val = val
  BY <1>a, <1>2, <1>7 DEF Envelope, p, s
<1>9. /\ First(c, Op(0), s) = 1
      /\ Take(c, 1) <=> sent' = [sent EXCEPT ![c] = Tail(@)]
  BY <1>2, <1>3, <1>5, <1>8, TakesHead
<1>10. sent[<<rtask, "up">>][First(<<rtask, "up">>, Op(0), t)].val = val
  BY <1>0, <1>2, <1>8, <1>9 DEF c
<1>11. /\ Take(c, 1)
       /\ rlen' = IF s = "llen" THEN val ELSE rlen
       /\ rregions' = IF s = "maxregions" THEN val ELSE rregions
       /\ rstart' = IF s = "start" THEN val ELSE rstart
       /\ rcount' = IF s = "count" THEN val ELSE rcount
       /\ UNCHANGED <<regions, sync, op, rtask, file, err>>
  BY <1>0, <1>1, <1>2, <1>9, <1>10, Zenon DEF c
<1>12. iobuf' = IF s # "data" THEN iobuf
                ELSE [iobuf EXCEPT ![0] = [x \in DOMAIN @ |-> IF x \in DOMAIN val THEN val[x] ELSE @[x]]]
  BY <1>1, <1>2, <1>10, Zenon
<1>13. step' = [step EXCEPT ![0] = IF s = "llen" /\ val = 0 THEN Ends(n) + 1 ELSE @ + 1]
  BY <1>1, <1>2, <1>10, Zenon
<1>14. Shape
  BY  DEF Inv
<1>15. step' = [step EXCEPT ![0] = next]
  BY <1>b, <1>0, <1>13
<1>16. iobuf' = [iobuf EXCEPT ![0] = buf] \/ (iobuf' = iobuf /\ buf = iobuf[0])
  BY <1>c, <1>12
<1>17. step'[0] = next /\ \A q \in Others : step'[q] = step[q]
  BY <1>2, <1>14, <1>15 DEF Shape, Others
<1>18. iobuf'[0] = buf /\ \A q \in Others : iobuf'[q] = iobuf[q]
  BY <1>2, <1>14, <1>16 DEF Shape, Others
<1>19. DOMAIN buf = DOMAIN iobuf[0]
  BY <1>c
<1>20. /\ QueuesOf(sent') /\ sent'[c] = Tail(sent[c])
       /\ \A d \in DOMAIN sent : d # c => sent'[d] = sent[d]
  <2>1. sent' = [sent EXCEPT ![c] = Tail(@)]
    BY <1>9, <1>11, Zenon
  <2>. QED
    BY <1>2, <1>3, <2>1, Taken
<1>21. Linked(r, sent'[c], sent'[<<r, "down">>], After(r, p), AtR(r))
  <2>1. sent'[<<r, "down">>] = sent[<<r, "down">>]
    BY <1>2, <1>20 DEF c
  <2>. QED
    BY <1>7, <1>20, <2>1
<1>22. \A q \in Others : q # rtask => sent'[<<q, "up">>] = sent[<<q, "up">>] /\ sent'[<<q, "down">>] = sent[<<q, "down">>]
  <2>. TAKE q \in Others
  <2>. HAVE q # rtask
  <2>1. <<q, "up">> \in DOMAIN sent /\ <<q, "down">> \in DOMAIN sent
    BY <1>2 DEF QueuesOf
  <2>2. <<q, "up">> # c /\ <<q, "down">> # c
    BY <1>0 DEF c
  <2>. QED
    BY <1>20, <2>1, <2>2
<1>23. k \in Nat /\ (Ends(n) = 5 \/ Ends(n) = 6) /\ k <= Ends(n)
  BY <1>2 DEF Ends
<1>24. s = "llen" => val = llen(r)
  BY <1>a DEF Content, s
<1>25. /\ LastStep(r, s) => next = Ends(n) + 1
       /\ ~LastStep(r, s) => next = k + 1 /\ next <= Ends(n)
  <2>1. ASSUME s = "data" PROVE k = Ends(n)
    <3>1. CASE Ops[n] = "read"
      <4>1. s = <<"llen", "maxregions", "count", "start", "data">>[k] /\ Ends(n) = 5
        BY <1>2, <3>1, Steps DEF s, p
      <4>. QED
        BY <1>23, <1>2, <2>1, <4>1
    <3>2. CASE Ops[n] = "write"
      <4>1. s = <<"handshake", "llen", "maxregions", "start", "count", "data">>[k] /\ Ends(n) = 6
        BY <1>2, <3>2, Steps DEF s, p
      <4>. QED
        BY <1>23, <1>2, <2>1, <4>1
    <3>. QED
      BY <1>2, <3>1, <3>2, Programs
  <2>2. ~LastStep(r, s) => k + 1 <= Ends(n)
    <3>1. ~LastStep(r, StepAt(<<n, k>>)) => k < Ends(n)
      BY <1>2, Afters
    <3>. QED
      BY <1>23, <3>1 DEF s, p
  <2>. QED
    BY <1>b, <1>23, <1>24, <2>1, <2>2 DEF LastStep
<1>26. next \in 1 .. 7 /\ next <= Ends(n) + 1
  BY <1>23, <1>25
<1>27. After(r, p) = IF LastStep(r, s) THEN <<n + 1, 1>> ELSE <<n, k + 1>>
  BY <1>2, Afters DEF p, s
<1>28. At0(rtask)' = After(r, p)
  <2>1. rtask' = r /\ op'[0] = n /\ ~(r < r)
    BY <1>0, <1>2, <1>11 DEF Io
  <2>2. At0(rtask)' = IF next <= Ends(n) THEN <<n, next>> ELSE <<n + 1, 1>>
    BY <1>17, <2>1 DEF At0
  <2>. QED
    BY <1>23, <1>25, <1>27, <2>2
<1>29. Linked(rtask, sent'[<<rtask, "up">>], sent'[<<rtask, "down">>], At0(rtask)', AtR(rtask))
  BY <1>0, <1>21, <1>28, Zenon DEF c
<1>30. Shape'
  <2>1. op' = [op EXCEPT ![0] = n] /\ UNCHANGED <<regions, file>> /\ n \in 1 .. Len(Ops) + 1
    BY <1>0, <1>2, <1>11, <1>14, Programs DEF Shape
  <2>. QED
    BY <1>2, <1>14, <1>15, <1>16, <1>20, <1>26, <2>1, ShapeAfter
<1>31. Received'
  <2>1. /\ op'[0] = n /\ rtask' = r /\ step'[0] = next /\ iobuf'[0] = buf /\ (Op(0) = Ops[n])'
    BY <1>0, <1>11, <1>17, <1>18 DEF Op
  <2>2. /\ Before(n, k, "llen") => rlen = llen(r)
        /\ Before(n, k, "llen") => llen(r) # 0
        /\ llen(r) > 0 =>
              /\ Before(n, k, "maxregions") => rregions = maxregions
              /\ Before(n, k, "start") => rstart = Starts(r)
              /\ Before(n, k, "count") => rcount = Counts(r)
              /\ Doing("write") /\ Before(n, k, "data") =>
                    \A x \in 0 .. nvars * llen(r) - 1 : iobuf[0][x] = InBuffer(n, r, x)
    <3>1. op[0] <= Len(Ops) /\ rtask \in Others /\ ~(step[0] = Ends(op[0]) + 1)
      BY <1>0, <1>2, <1>23
    <3>2. Received
      BY  DEF Inv
    <3>. QED
      BY <1>0, <3>1, <3>2 DEF Received, Past
  <2>3. \A u : next = k + 1 /\ Before(n, next, u) => Before(n, k, u) \/ u = s
    BY <1>23, Befores DEF p, s
  <2>4. /\ (\A q : llen(q)' = llen(q)) /\ (\A q : Starts(q)' = Starts(q)) /\ \A q : Counts(q)' = Counts(q)
        /\ maxregions' = maxregions /\ \A i, q, x : InBuffer(i, q, x)' = InBuffer(i, q, x)
    BY <1>11, Fixed, FixedBuffers
  <2>5. Regioned /\ llen(r) \in Nat
    BY <1>2, <1>14, RegionTypes DEF Shape, Regioned
  <2>6. next = k + 1 \/ (s = "llen" /\ val = llen(r) /\ llen(r) = 0 /\ next = Ends(n) + 1)
    BY <1>b, <1>24
  <2>7. Before(n, next, "llen") => rlen' = llen(r)
    BY <1>11, <1>24, <2>2, <2>3, <2>6
  <2>8. Before(n, next, "llen") /\ llen(r) = 0 => next = Ends(n) + 1
    BY <1>b, <1>24, <2>2, <2>3, <2>6
  <2>9. Ops[n] = "read" /\ next = 6 => llen(r) = 0
    <3>. SUFFICES ASSUME Ops[n] = "read", next = 6, next = k + 1 PROVE FALSE
      BY <2>6
    <3>1. k = 5
      BY <1>23
    <3>2. GoesDown(<<n, k>>) <=> k = 5
      BY <1>2, Steps
    <3>. QED
      BY <1>3, <3>1, <3>2 DEF p
  <2>10. ASSUME llen(r) > 0
         PROVE  /\ Before(n, next, "maxregions") => rregions' = maxregions
                /\ Before(n, next, "start") => rstart' = Starts(r)
                /\ Before(n, next, "count") => rcount' = Counts(r)
    <3>1. \A u : Before(n, next, u) => Before(n, k, u) \/ u = s
      BY <2>3, <2>6, <2>10
    <3>2. /\ s = "maxregions" => val = maxregions
          /\ s = "start" => val = Starts(r)
          /\ s = "count" => val = Counts(r)
      BY <1>a DEF Content, s
    <3>3. Before(n, next, "maxregions") => rregions' = maxregions
      BY <1>11, <2>2, <2>10, <3>1, <3>2
    <3>4. Before(n, next, "start") => rstart' = Starts(r)
      BY <1>11, <2>2, <2>10, <3>1, <3>2
    <3>5. Before(n, next, "count") => rcount' = Counts(r)
      BY <1>11, <2>2, <2>10, <3>1, <3>2
    <3>. QED
      BY <3>3, <3>4, <3>5
  <2>11. ASSUME llen(r) > 0, Ops[n] = "write", Before(n, next, "data"), NEW x \in 0 .. nvars * llen(r) - 1
         PROVE  buf[x] = InBuffer(n, r, x)
    <3>1. CASE s = "data"
      <4>1. x \in 0 .. Room(n, 0) - 1
        BY <1>2, <2>5, <2>11, OwnData
      <4>2. DOMAIN iobuf[0] = 0 .. Room(n, 0) - 1
        BY <1>0, <1>2 DEF Inv, Buffers, Buffer0
      <4>3. val = [y \in 0 .. nvars * llen(r) - 1 |-> InBuffer(n, r, y)]
        BY <1>a, <2>11, <3>1 DEF Content, p, s
      <4>. QED
        BY <1>c, <3>1, <4>1, <4>2, <4>3
    <3>2. CASE s # "data"
      <4>1. Before(n, k, "data")
        BY <2>3, <2>6, <2>11, <3>2
      <4>2. Doing("write")
        BY <1>0, <1>2, <2>11 DEF Doing
      <4>3. iobuf[0][x] = InBuffer(n, r, x)
        BY <2>2, <2>11, <4>1, <4>2
      <4>. QED
        BY <1>c, <3>2, <4>3
    <3>. QED
      BY <3>1, <3>2
  <2>12. (\A u : Past(u) <=> Before(n, next, u))'
    BY <2>1 DEF Past
  <2>13. (Doing("write") => Ops[n] = "write")' /\ (Doing("read") => Ops[n] = "read")'
    BY <2>1 DEF Doing
  <2>14. /\ (Past("llen") => rlen = llen(rtask))'
         /\ (Past("llen") /\ llen(rtask) = 0 => step[0] = Ends(op[0]) + 1)'
         /\ (Doing("read") /\ step[0] = 6 => llen(rtask) = 0)'
    BY <2>1, <2>4, <2>7, <2>8, <2>9, <2>12, <2>13
  <2>15. (llen(rtask) > 0 =>
              /\ Past("maxregions") => rregions = maxregions
              /\ Past("start") => rstart = Starts(rtask)
              /\ Past("count") => rcount = Counts(rtask))'
    BY <2>1, <2>4, <2>10, <2>12
  <2>16. (llen(rtask) > 0 /\ Doing("write") /\ Past("data") =>
              \A x \in 0 .. nvars * llen(rtask) - 1 : iobuf[0][x] = InBuffer(op[0], rtask, x))'
    BY <2>1, <2>4, <2>11, <2>12, <2>13
  <2>. QED
    BY <2>14, <2>15, <2>16 DEF Received
<1>32. /\ rtask \in Others /\ UNCHANGED <<regions, op, rtask, file>>
       /\ DOMAIN iobuf'[0] = DOMAIN iobuf[0] /\ step'[0] <= Ends(op[0]) + 1
  BY <1>0, <1>2, <1>11, <1>17, <1>18, <1>19, <1>26
<1>33. \A q \in Others : step'[q] = step[q] /\ iobuf'[q] = iobuf[q]
  BY <1>17, <1>18
<1>. QED
  BY <1>22, <1>29, <1>30, <1>31, <1>32, <1>33, ServeFrame

-----------------------------------------------------------------------------
(* The regions of a task *)

LEMMA SamePrefix ==
  ASSUME NEW s \in Seq(Nat), NEW t \in Seq(Nat), NEW k \in 0 .. Len(s), k \in 0 .. Len(t),
         \A n \in 1 .. k : t[n] = s[n]
  PROVE  SubSeq(t, 1, k) = SubSeq(s, 1, k)
<1>. DEFINE u == SubSeq(t, 1, k)
            w == SubSeq(s, 1, k)
<1>1. u \in Seq(Nat) /\ Len(u) = k /\ \A n \in 1 .. k : u[n] = t[n]
  BY SMTT(30)
<1>2. w \in Seq(Nat) /\ Len(w) = k /\ \A n \in 1 .. k : w[n] = s[n]
  OBVIOUS
<1>. HIDE DEF u, w
<1>3. \A n \in 1 .. k : u[n] = w[n]
  BY <1>1, <1>2, Zenon
<1>4. u = w
  BY <1>1, <1>2, <1>3, SeqEqual
<1>. QED
  BY <1>4 DEF u, w

\* The regions of a task, one after the other, are the elements of its array,
\* and lie in the file where its array lies.
LEMMA Parts ==
  ASSUME Regioned, NEW r \in Io
  PROVE  /\ \A i \in 1 .. maxregions : \A x \in 0 .. Counts(r)[i] - 1 :
               LET l == Sum(SubSeq(Counts(r), 1, i - 1))
               IN  l \in Nat /\ l + x \in 0 .. llen(r) - 1 /\ Starts(r)[i] + x = Base(r) + (l + x)
         /\ \A j \in 0 .. llen(r) - 1 : \E i \in 1 .. maxregions : \E x \in 0 .. Counts(r)[i] - 1 :
               j = Sum(SubSeq(Counts(r), 1, i - 1)) + x
<1>. DEFINE s == regions[r]
            P(i) == Sum(SubSeq(s, 1, i))
<1>1. /\ s \in Seq(Nat) /\ Len(s) \in Nat /\ llen(r) \in Nat /\ llen(r) = Sum(s)
  BY RegionTypes DEF llen
<1>2. maxregions \in Nat /\ Len(s) <= maxregions
  BY Maxima
<1>3. Base(r) \in Nat
  <2>1. r \in 0 .. num_iotasks
    BY SerialAssumption DEF Io
  <2>. QED
    BY <2>1, Bases
<1>. HIDE DEF s
<1>4. /\ Counts(r) = [n \in 1 .. maxregions |-> IF n <= Len(s) THEN s[n] ELSE 0]
      /\ Starts(r) = [n \in 1 .. maxregions |-> IF n <= Len(s) THEN Base(r) + P(n - 1) ELSE 0]
  BY DEF Counts, Starts, s
<1>5. ASSUME NEW i \in 1 .. Len(s) PROVE SubSeq(Counts(r), 1, i - 1) = SubSeq(s, 1, i - 1)
  <2>. DEFINE t == Counts(r)
  <2>1. t \in Seq(Nat) /\ Len(t) = maxregions /\ \A n \in 1 .. Len(s) : t[n] = s[n]
    <3>1. \A n \in 1 .. maxregions : t[n] \in Nat
      BY <1>1, <1>2, <1>4
    <3>2. t \in [1 .. maxregions -> Nat]
      BY <1>4, <3>1
    <3>. QED
      BY <1>1, <1>2, <1>4, <3>2
  <2>. HIDE DEF t
  <2>2. PICK k : k = i - 1
    OBVIOUS
  <2>3. k \in 0 .. Len(s) /\ k \in 0 .. Len(t) /\ \A n \in 1 .. k : t[n] = s[n]
    <3>1. PICK m, l : m = Len(s) /\ l = Len(t)
      OBVIOUS
    <3>2. m \in Nat /\ l \in Nat /\ m <= l /\ i \in 1 .. m
      BY <1>1, <1>2, <2>1, <3>1
    <3>3. k \in 0 .. m /\ k \in 0 .. l /\ \A n \in 1 .. k : n \in 1 .. m
      BY <2>2, <3>2
    <3>. QED
      BY <2>1, <3>1, <3>3
  <2>4. SubSeq(t, 1, k) = SubSeq(s, 1, k)
    BY <1>1, <2>1, <2>3, SamePrefix
  <2>. QED
    BY <2>2, <2>4 DEF t
<1>6. /\ \A n \in 0 .. Len(s) : P(n) \in Nat
      /\ \A n \in 1 .. Len(s) : P(n) = P(n - 1) + s[n]
      /\ P(Len(s)) = Sum(s)
      /\ \A n \in 0 .. Len(s) : \A m \in n .. Len(s) : P(n) <= P(m)
  BY <1>1, SumOfPrefixes, SumsGrow
<1>7. \A j \in 0 .. Sum(s) - 1 : \E n \in 1 .. Len(s), x \in Nat : x < s[n] /\ j = P(n - 1) + x
  BY <1>1, PartOfSum
<1>. HIDE DEF P
<1>8. ASSUME NEW i \in 1 .. maxregions, NEW x \in 0 .. Counts(r)[i] - 1
      PROVE  LET l == Sum(SubSeq(Counts(r), 1, i - 1))
             IN  l \in Nat /\ l + x \in 0 .. llen(r) - 1 /\ Starts(r)[i] + x = Base(r) + (l + x)
  <2>1. i \in 1 .. Len(s) /\ x \in 0 .. s[i] - 1 /\ s[i] \in Nat
    BY <1>1, <1>2, <1>4
  <2>2. Sum(SubSeq(Counts(r), 1, i - 1)) = P(i - 1)
    BY <1>5, <2>1 DEF P
  <2>3. Starts(r)[i] = Base(r) + P(i - 1)
    BY <1>4, <2>1
  <2>4. i \in 0 .. Len(s) /\ i - 1 \in 0 .. Len(s) /\ Len(s) \in i .. Len(s)
    BY <1>1, <2>1
  <2>5. P(i - 1) \in Nat /\ P(i) = P(i - 1) + s[i] /\ P(i) <= llen(r)
    BY <1>1, <1>6, <2>1, <2>4
  <2>6. P(i - 1) + x \in 0 .. llen(r) - 1
    <3>1. x \in Nat /\ x < s[i]
      BY <2>1
    <3>2. \A a, b, e, l \in Nat : a + b <= l /\ e < b => a + e \in 0 .. l - 1
      OBVIOUS
    <3>. QED
      BY <1>1, <2>1, <2>5, <3>1, <3>2
  <2>7. Starts(r)[i] + x = Base(r) + (P(i - 1) + x)
    BY <1>3, <2>1, <2>3, <2>5
  <2>. QED
    BY <2>2, <2>5, <2>6, <2>7
<1>9. ASSUME NEW j \in 0 .. llen(r) - 1
      PROVE  \E i \in 1 .. maxregions : \E x \in 0 .. Counts(r)[i] - 1 :
                j = Sum(SubSeq(Counts(r), 1, i - 1)) + x
  <2>1. PICK n \in 1 .. Len(s), x \in Nat : x < s[n] /\ j = P(n - 1) + x
    BY <1>1, <1>7
  <2>2. n \in 1 .. maxregions /\ Counts(r)[n] = s[n] /\ s[n] \in Nat
    BY <1>1, <1>2, <1>4, <2>1, SMTT(30)
  <2>3. x \in 0 .. Counts(r)[n] - 1
    BY <2>1, <2>2
  <2>4. Sum(SubSeq(Counts(r), 1, n - 1)) = P(n - 1)
    BY <1>5 DEF P
  <2>. QED
    BY <2>1, <2>2, <2>3, <2>4
<1>. QED
  BY <1>8, <1>9

\* Element j of variable v in a buffer of arrays of one length.
LEMMA InArray ==
  ASSUME NEW v \in Nat \ {0}, NEW n \in Nat \ {0}, NEW j \in 0 .. n - 1
  PROVE  /\ 1 + (((v - 1) * n + j) \div n) = v /\ ((v - 1) * n + j) % n = j
         /\ \A m \in Nat : v <= m => (v - 1) * n + j \in 0 .. m * n - 1
<1>. DEFINE u == v - 1
            w == u * n
<1>1. u \in Nat /\ w \in Nat
  OBVIOUS
<1>2. (w + j) \div n = u /\ (w + j) % n = j
  OBVIOUS
<1>3. \A m \in Nat : v <= m => w + j \in 0 .. m * n - 1
  <2>. TAKE m \in Nat
  <2>. HAVE v <= m
  <2>1. (u + 1) * n = w + n
    OBVIOUS
  <2>2. u + 1 <= m
    OBVIOUS
  <2>3. (u + 1) * n <= m * n
    BY <2>2, <1>1
  <2>. QED
    BY <1>1, <2>1, <2>3
<1>. QED
  BY <1>2, <1>3

-----------------------------------------------------------------------------
(* The turns of the tasks *)

LEMMA TurnFrame ==
  ASSUME Inv, UNCHANGED regions,
         \A q \in Others : op'[q] = op[q] /\ step'[q] = step[q] /\ iobuf'[q] = iobuf[q],
         Shape', Turn', Received', Buffer0', InFile',
         \A q \in Others : Linked(q, sent'[<<q, "up">>], sent'[<<q, "down">>], At0(q)', AtR(q))
  PROVE  Inv'
<1>1. \A q \in Others : (BufferR(q)' <=> BufferR(q)) /\ AtR(q)' = AtR(q)
  BY KeepsR
<1>2. Buffers'
  BY <1>1 DEF Inv, Buffers
<1>3. ASSUME NEW q \in Others PROVE Linked(q, sent'[<<q, "up">>], sent'[<<q, "down">>], At0(q)', AtR(q)')
  BY <1>1, Zenon
<1>4. Link'
  BY <1>3, Links, Zenon
<1>. QED
  BY <1>2, <1>4, Zenon DEF Inv

\* What task 0 has for the regions that it writes or reads.
LEMMA RegionsOf ==
  ASSUME Inv, NEW o \in {"write", "read"}, AtRegions(o), NEW r, r = IF rtask = Own THEN 0 ELSE rtask
  PROVE  /\ op[0] \in 1 .. Len(Ops) /\ op[0] <= Len(Ops) /\ Ops[op[0]] = o /\ Op(0) = o /\ Doing(o)
         /\ r \in Io /\ 0 \in Io /\ 0 \notin Others /\ num_iotasks \in Nat \ {0}
         /\ rtask # Own => rtask \in Others /\ (o = "write" => step[0] = 7) /\ (o = "read" => step[0] \in {5, 6})
         /\ o = "write" => rtask \in 0 .. num_iotasks - 1 /\ r = rtask /\ Own = 0
         /\ o = "read" => rtask \in 1 .. num_iotasks /\ Own = num_iotasks
         /\ len = llen(r)
         /\ llen(r) > 0 =>
               /\ Regions.starts = Starts(r) /\ Regions.counts = Counts(r) /\ Regions.n = maxregions
               /\ o = "write" => \A x \in 0 .. nvars * llen(r) - 1 : iobuf[0][x] = InBuffer(op[0], r, x)
<1>1. Shape /\ Turn /\ Received /\ Buffer0 /\ Regioned
  BY DEF Inv, Buffers, Shape, Regioned
<1>2. num_iotasks \in Nat \ {0} /\ 0 \in Io /\ 0 \notin Others
  BY SerialAssumption DEF Io, Others
<1>3. Running(0) /\ Op(0) = o /\ rtask <= Last
  BY DEF AtRegions
<1>4. op[0] \in 1 .. Len(Ops) /\ op[0] <= Len(Ops) /\ Ops[op[0]] = o /\ Doing(o)
  <2>1. op[0] \in 1 .. Len(Ops) + 1 /\ op[0] <= Len(Ops)
    BY <1>1, <1>2, <1>3 DEF Shape, Running
  <2>. QED
    BY <1>3, <2>1, Programs DEF Op, Doing
<1>5. /\ o = "write" => rtask \in 0 .. num_iotasks - 1 /\ Own = 0 /\ r = rtask
      /\ o = "read" => rtask \in 1 .. num_iotasks /\ Own = num_iotasks
  BY <1>1, <1>2, <1>3, <1>4 DEF Turn, Own, Last
<1>6. r \in Io
  <2>1. o = "write" => r \in Io
    BY <1>5 DEF Io
  <2>2. CASE o = "read" /\ rtask = num_iotasks
    BY <1>2, <1>5, <2>2
  <2>3. CASE o = "read" /\ rtask # num_iotasks
    <3>1. r = rtask
      BY <1>5, <2>3
    <3>. QED
      BY <1>2, <1>5, <2>3, <3>1 DEF Io
  <2>. QED
    BY <2>1, <2>2, <2>3
<1>7. CASE rtask = Own
  <2>1. r = 0 /\ len = llen(0)
    BY <1>7 DEF len
  <2>2. Regions.starts = Starts(0) /\ Regions.counts = Counts(0) /\ Regions.n = maxregions
    BY <1>7 DEF Regions
  <2>3. ASSUME o = "write", NEW x \in 0 .. nvars * llen(0) - 1 PROVE iobuf[0][x] = InBuffer(op[0], 0, x)
    <3>1. iobuf[0] = Buffer(op[0], 0)
      BY <1>1, <1>4, <1>5, <1>7, <2>3 DEF Buffer0
    <3>. QED
      BY <1>1, <1>2, <1>4, <2>3, <3>1, OwnData
  <2>. QED
    BY <1>2, <1>3, <1>4, <1>5, <1>6, <1>7, <2>1, <2>2, <2>3
<1>8. CASE rtask # Own
  <2>1. rtask \in Others /\ r = rtask
    BY <1>2, <1>5, <1>8 DEF Others, Io
  <2>2. \A i \in DOMAIN ServeSteps(o) : i < step[0] \/ (o = "read" /\ ServeSteps(o)[i] = "data")
    BY <1>8 DEF AtRegions
  <2>3. step[0] <= Ends(op[0]) + 1 /\ step[0] \in 1 .. 7
    BY <1>1, <1>2, <1>4 DEF Turn, Shape
  <2>4. Before(op[0], step[0], "llen") /\ Before(op[0], step[0], "maxregions")
        /\ Before(op[0], step[0], "start") /\ Before(op[0], step[0], "count")
        /\ (o = "write" => step[0] = 7 /\ Before(op[0], step[0], "data"))
        /\ (o = "read" => step[0] \in {5, 6})
    <3>1. CASE o = "write"
      <4>1. /\ DOMAIN ServeSteps(o) = 1 .. 6 /\ Ends(op[0]) = 6
            /\ StepAt(<<op[0], 2>>) = "llen" /\ StepAt(<<op[0], 3>>) = "maxregions"
            /\ StepAt(<<op[0], 4>>) = "start" /\ StepAt(<<op[0], 5>>) = "count" /\ StepAt(<<op[0], 6>>) = "data"
        BY <1>4, <3>1 DEF ServeSteps, Ends, StepAt, OtherSteps
      <4>2. 6 < step[0]
        BY <2>2, <3>1, <4>1
      <4>3. step[0] = 7
        BY <2>3, <4>2
      <4>. QED
        BY <3>1, <4>1, <4>3 DEF Before
    <3>2. CASE o = "read"
      <4>1. /\ DOMAIN ServeSteps(o) = 1 .. 5 /\ Ends(op[0]) = 5 /\ ServeSteps(o)[4] = "start"
            /\ StepAt(<<op[0], 1>>) = "llen" /\ StepAt(<<op[0], 2>>) = "maxregions"
            /\ StepAt(<<op[0], 3>>) = "count" /\ StepAt(<<op[0], 4>>) = "start"
        BY <1>4, <3>2 DEF ServeSteps, Ends, StepAt, OtherSteps
      <4>2. 4 < step[0]
        BY <2>2, <3>2, <4>1
      <4>3. step[0] = 5 \/ step[0] = 6
        BY <2>3, <4>1, <4>2
      <4>. QED
        BY <3>2, <4>1, <4>3 DEF Before
    <3>. QED
      BY <3>1, <3>2
  <2>5. /\ rlen = llen(r)
        /\ llen(r) > 0 =>
              /\ rregions = maxregions /\ rstart = Starts(r) /\ rcount = Counts(r)
              /\ o = "write" => \A x \in 0 .. nvars * llen(r) - 1 : iobuf[0][x] = InBuffer(op[0], r, x)
    BY <1>1, <1>4, <2>1, <2>4 DEF Received, Past
  <2>6. len = llen(r) /\ Regions.starts = rstart /\ Regions.counts = rcount /\ Regions.n = rregions
    BY <1>8, <2>5 DEF len, Regions
  <2>. QED
    BY <1>2, <1>3, <1>4, <1>5, <1>6, <1>8, <2>1, <2>4, <2>5, <2>6
<1>. QED
  BY <1>7, <1>8

\* What task 0 writes for the task that it serves.
LEMMA WritesOf ==
  ASSUME Inv, WriteRegions
  PROVE  \A v \in Vars : \A e \in 0 .. Base(num_iotasks) - 1 :
            file'[<<v, e>>] = IF Base(rtask) <= e /\ e < Base(rtask) + llen(rtask)
                              THEN Val(op[0], v, e) ELSE file[<<v, e>>]
<1>0. PICK r, n, l : r = rtask /\ n = op[0] /\ l = llen(r)
  OBVIOUS
<1>1. AtRegions("write")
  BY DEF WriteRegions
<1>2. r = IF rtask = Own THEN 0 ELSE rtask
  BY <1>0, <1>1, RegionsOf
<1>3. /\ r \in Io /\ len = l
      /\ l > 0 => /\ Regions.starts = Starts(r) /\ Regions.counts = Counts(r) /\ Regions.n = maxregions
                  /\ \A x \in 0 .. nvars * l - 1 : iobuf[0][x] = InBuffer(n, r, x)
  <2>. PICK o \in {"write", "read"} : o = "write"
    OBVIOUS
  <2>1. AtRegions(o)
    BY <1>1
  <2>. QED
    BY <1>0, <1>2, <2>1, RegionsOf
<1>4. Regioned /\ DOMAIN file = Vars \X (0 .. Base(num_iotasks) - 1)
  BY DEF Inv, Shape, Regioned
<1>5. l \in Nat /\ Base(r) \in Nat /\ nvars \in Nat \ {0}
  <2>1. r \in 0 .. num_iotasks
    BY <1>3, SerialAssumption DEF Io
  <2>. QED
    BY <1>0, <1>3, <1>4, <2>1, RegionTypes, Bases, SerialAssumption
<1>. SUFFICES ASSUME NEW v \in Vars, NEW e \in 0 .. Base(num_iotasks) - 1
              PROVE  file'[<<v, e>>] = IF Base(r) <= e /\ e < Base(r) + l
                                       THEN Val(n, v, e) ELSE file[<<v, e>>]
  BY <1>0, Zenon
<1>6. CASE l = 0
  <2>1. file' = file
    BY <1>3, <1>6 DEF WriteRegions
  <2>2. ~(Base(r) <= e /\ e < Base(r) + l)
    BY <1>5, <1>6
  <2>. QED
    BY <2>1, <2>2
<1>7. CASE l > 0
  <2>. DEFINE L(i) == Sum(SubSeq(Counts(r), 1, i - 1))
              G(w, x) == {<<<<w, x[1] + i>>, iobuf[0][bufptr(w, x[3]) + i]>> : i \in 0 .. x[2] - 1}
              cells == UNION {G(w, x) : w \in Vars, x \in Served}
              c == <<v, e>>
              here == {x \in cells : x[1] = c}
  <2>1. /\ \A i \in 1 .. maxregions : \A x \in 0 .. Counts(r)[i] - 1 :
              L(i) \in Nat /\ L(i) + x \in 0 .. l - 1 /\ Starts(r)[i] + x = Base(r) + (L(i) + x)
        /\ \A j \in 0 .. l - 1 : \E i \in 1 .. maxregions : \E x \in 0 .. Counts(r)[i] - 1 : j = L(i) + x
    BY <1>0, <1>3, <1>4, Parts
  <2>2. Served = {<<Starts(r)[i], Counts(r)[i], L(i)>> : i \in 1 .. maxregions}
    BY <1>3, <1>7 DEF Served
  <2>3. \A w, o : bufptr(w, o) = (w - 1) * l + o
    BY <1>3 DEF bufptr
  <2>4. file'[c] = IF here = {} THEN file[c] ELSE (CHOOSE x \in here : TRUE)[2]
    <3>1. c \in DOMAIN file
      BY <1>4
    <3>2. file' = Written(cells)
      BY <1>3, <1>7 DEF WriteRegions
    <3>. HIDE DEF cells, c
    <3>. QED
      BY <3>1, <3>2 DEF Written
  <2>. HIDE DEF L
  <2>5. \A y \in cells : \E w \in Vars : \E i \in 1 .. maxregions : \E x \in 0 .. Counts(r)[i] - 1 :
           y = <<<<w, Starts(r)[i] + x>>, iobuf[0][((w - 1) * l + L(i)) + x]>>
    BY <2>2, <2>3
  <2>6. ASSUME NEW w \in Vars, NEW i \in 1 .. maxregions, NEW x \in 0 .. Counts(r)[i] - 1
        PROVE  <<<<w, Starts(r)[i] + x>>, iobuf[0][((w - 1) * l + L(i)) + x]>> \in cells
    <3>. DEFINE y == <<Starts(r)[i], Counts(r)[i], L(i)>>
    <3>1. y \in Served /\ y[1] = Starts(r)[i] /\ y[2] = Counts(r)[i] /\ y[3] = L(i)
      BY <2>2
    <3>. HIDE DEF y
    <3>2. <<<<w, y[1] + x>>, iobuf[0][bufptr(w, y[3]) + x]>> \in G(w, y)
      BY <3>1
    <3>3. \A z : z \in G(w, y) => z \in cells
      <4>. HIDE DEF G
      <4>. QED
        BY <3>1
    <3>4. <<<<w, y[1] + x>>, iobuf[0][bufptr(w, y[3]) + x]>> \in cells
      <4>. HIDE DEF G, cells
      <4>. QED
        BY <3>2, <3>3
    <3>5. <<<<w, Starts(r)[i] + x>>, iobuf[0][bufptr(w, L(i)) + x]>> \in cells
      <4>. HIDE DEF G, cells
      <4>. QED
        BY <3>1, <3>4
    <3>. HIDE DEF G, cells
    <3>. QED
      BY <2>3, <3>5
  <2>. HIDE DEF cells
  <2>7. ASSUME NEW w \in Vars, NEW i \in 1 .. maxregions, NEW x \in 0 .. Counts(r)[i] - 1
        PROVE  <<<<w, Starts(r)[i] + x>>, iobuf[0][((w - 1) * l + L(i)) + x]>>
                  = <<<<w, Base(r) + (L(i) + x)>>, Val(n, w, Base(r) + (L(i) + x))>>
    <3>1. PICK j : j = L(i) + x
      OBVIOUS
    <3>2. L(i) \in Nat /\ j \in 0 .. l - 1 /\ Starts(r)[i] + x = Base(r) + j /\ x \in Int
      BY <2>1, <3>1
    <3>3. w \in Nat \ {0} /\ l \in Nat \ {0} /\ w <= nvars
      BY <1>5, <1>7 DEF Vars
    <3>4. /\ 1 + (((w - 1) * l + j) \div l) = w /\ ((w - 1) * l + j) % l = j
          /\ (w - 1) * l + j \in 0 .. nvars * l - 1
      <4>1. /\ 1 + (((w - 1) * l + j) \div l) = w /\ ((w - 1) * l + j) % l = j
            /\ \A m \in Nat : w <= m => (w - 1) * l + j \in 0 .. m * l - 1
        BY <3>2, <3>3, InArray, Zenon
      <4>2. (w - 1) * l + j \in 0 .. nvars * l - 1
        BY <1>5, <3>3, <4>1, Zenon
      <4>. QED
        BY <4>1, <4>2, Zenon
    <3>5. iobuf[0][(w - 1) * l + j] = Val(n, w, Base(r) + j)
      <4>1. iobuf[0][(w - 1) * l + j] = InBuffer(n, r, (w - 1) * l + j)
        BY <1>3, <1>7, <3>4
      <4>. QED
        BY <1>0, <3>4, <4>1 DEF InBuffer
    <3>6. ((w - 1) * l + L(i)) + x = (w - 1) * l + j
      <4>1. (w - 1) * l \in Int
        BY <3>3
      <4>. QED
        BY <3>1, <3>2, <4>1
    <3>. QED
      BY <3>1, <3>2, <3>5, <3>6
  <2>8. ASSUME NEW y \in here PROVE y[2] = Val(n, v, e) /\ Base(r) <= e /\ e < Base(r) + l
    <3>1. y \in cells /\ y[1] = c
      OBVIOUS
    <3>2a. PICK w \in Vars, i \in 1 .. maxregions : \E x \in 0 .. Counts(r)[i] - 1 :
              y = <<<<w, Starts(r)[i] + x>>, iobuf[0][((w - 1) * l + L(i)) + x]>>
      BY <2>5, <3>1
    <3>2. PICK x \in 0 .. Counts(r)[i] - 1 :
             y = <<<<w, Starts(r)[i] + x>>, iobuf[0][((w - 1) * l + L(i)) + x]>>
      BY <3>2a
    <3>3. y = <<<<w, Base(r) + (L(i) + x)>>, Val(n, w, Base(r) + (L(i) + x))>>
      BY <2>7, <3>2
    <3>4. w = v /\ Base(r) + (L(i) + x) = e
      BY <3>1, <3>3
    <3>5. L(i) + x \in 0 .. l - 1
      BY <2>1
    <3>. QED
      BY <1>5, <3>3, <3>4, <3>5
  <2>9. CASE Base(r) <= e /\ e < Base(r) + l
    <3>1. e - Base(r) \in 0 .. l - 1
      BY <1>5, <2>9
    <3>2a. PICK i \in 1 .. maxregions : \E x \in 0 .. Counts(r)[i] - 1 : e - Base(r) = L(i) + x
      BY <2>1, <3>1
    <3>2. PICK x \in 0 .. Counts(r)[i] - 1 : e - Base(r) = L(i) + x
      BY <3>2a
    <3>3. <<<<v, Base(r) + (L(i) + x)>>, Val(n, v, Base(r) + (L(i) + x))>> \in cells
      BY <2>6, <2>7
    <3>4. Base(r) + (L(i) + x) = e
      <4>1. L(i) + x \in 0 .. l - 1
        BY <2>1
      <4>. QED
        BY <1>5, <3>2, <4>1
    <3>5. <<c, Val(n, v, e)>> \in here
      BY <3>3, <3>4
    <3>6. (CHOOSE y \in here : TRUE) \in here
      BY <3>5
    <3>7. file'[c] = Val(n, v, e)
      <4>. HIDE DEF here
      <4>. QED
        BY <2>4, <2>8, <3>5, <3>6
    <3>. QED
      BY <2>9, <3>7
  <2>10. CASE ~(Base(r) <= e /\ e < Base(r) + l)
    <3>1. here = {}
      <4>. HIDE DEF here
      <4>. QED
        BY <2>8, <2>10
    <3>. QED
      BY <2>4, <2>10, <3>1
  <2>. QED
    BY <2>9, <2>10
<1>. QED
  BY <1>5, <1>6, <1>7

\* The next task's turn begins where the other side expects it.
LEMMA NextTurn ==
  ASSUME Inv, NextTask, UNCHANGED op, rtask \in 0 .. num_iotasks, op[0] \in 1 .. Len(Ops)
  PROVE  /\ step'[0] = 1 /\ \A q \in Others : step'[q] = step[q]
         /\ \A q \in Others : /\ q # rtask => At0(q)' = At0(q)
                              /\ q = rtask => At0(q)' = <<op[0] + 1, 1>>
<1>1. /\ step' = [step EXCEPT ![0] = 1] /\ rtask' = rtask + 1
      /\ \A q \in Others : q \in Nat /\ q # 0 /\ q \in Io /\ 0 \in Io
  BY SerialAssumption DEF NextTask, Others, Io
<1>2. step \in [Io -> 1 .. 7] /\ rtask \in Nat
  BY DEF Inv, Shape
<1>3. step'[0] = 1 /\ \A q \in Others : step'[q] = step[q]
  <2>1. 0 \in Io
    BY SerialAssumption DEF Io
  <2>. QED
    BY <1>1, <1>2, <2>1
<1>4. 1 <= Ends(op[0])
  BY DEF Ends
<1>5. ASSUME NEW q \in Others, q # rtask PROVE At0(q)' = At0(q)
  <2>1. CASE rtask < q
    <3>1. At0(q) = <<op[0], 1>>
      BY <2>1 DEF At0
    <3>2. At0(q)' = <<op[0], 1>>
      BY <1>1, <1>2, <1>3, <1>4, <2>1 DEF At0
    <3>. QED
      BY <3>1, <3>2
  <2>2. CASE ~(rtask < q)
    <3>1. ~(rtask + 1 < q) /\ rtask + 1 # q
      BY <1>1, <1>2, <1>5, <2>2
    <3>2. At0(q) = <<op[0] + 1, 1>>
      BY <1>5, <2>2 DEF At0
    <3>3. At0(q)' = <<op[0] + 1, 1>>
      BY <1>1, <3>1 DEF At0
    <3>. QED
      BY <3>2, <3>3
  <2>. QED
    BY <2>1, <2>2
<1>6. ASSUME NEW q \in Others, q = rtask PROVE At0(q)' = <<op[0] + 1, 1>>
  <2>1. ~(rtask + 1 < q) /\ rtask + 1 # q
    BY <1>1, <1>2, <1>6
  <2>. QED
    BY <1>1, <2>1 DEF At0
<1>. QED
  BY <1>3, <1>5, <1>6

\* Nothing has been received yet at the beginning of a turn.
LEMMA NothingReceived == (step[0] = 1 => Received)'
<1>1. \A n, s : ~Before(n, 1, s)
  BY Befores
<1>2. (step[0] = 1 => ~Past("llen") /\ ~Past("maxregions") /\ ~Past("start") /\ ~Past("count") /\ ~Past("data"))'
  BY <1>1 DEF Past
<1>. QED
  BY <1>2 DEF Received

LEMMA Writes == ASSUME Inv, WriteRegions PROVE Inv'
<1>0. PICK r, n : r = rtask /\ n = op[0]
  OBVIOUS
<1>1. /\ AtRegions("write") /\ NextTask
      /\ UNCHANGED <<regions, sync, op, rlen, rregions, rstart, rcount, iobuf, sent, err>>
  BY DEF WriteRegions
<1>2. /\ n \in 1 .. Len(Ops) /\ n <= Len(Ops) /\ Ops[n] = "write" /\ Op(0) = "write" /\ Doing("write")
      /\ r \in 0 .. num_iotasks - 1 /\ 0 \in Io /\ 0 \notin Others /\ num_iotasks \in Nat \ {0}
      /\ r # 0 => r \in Others /\ step[0] = 7
  <2>. PICK o, q : o \in {"write", "read"} /\ o = "write" /\ q = IF rtask = Own THEN 0 ELSE rtask
    OBVIOUS
  <2>1. AtRegions(o)
    BY <1>1
  <2>2. /\ n \in 1 .. Len(Ops) /\ n <= Len(Ops) /\ Ops[n] = "write" /\ Op(0) = "write" /\ Doing("write")
        /\ 0 \in Io /\ 0 \notin Others /\ num_iotasks \in Nat \ {0}
    BY <1>0, <2>1, RegionsOf
  <2>3. r \in 0 .. num_iotasks - 1 /\ Own = 0 /\ (rtask # Own => rtask \in Others /\ step[0] = 7)
    BY <1>0, <2>1, RegionsOf
  <2>. QED
    BY <1>0, <2>2, <2>3
<1>3. /\ Shape /\ Turn /\ Buffer0 /\ InFile /\ Regioned
  BY DEF Inv, Buffers, Shape, Regioned
<1>4. rtask \in 0 .. num_iotasks /\ rtask' = r + 1
  BY <1>0, <1>1, <1>2 DEF NextTask
<1>5. /\ step'[0] = 1 /\ \A q \in Others : step'[q] = step[q]
      /\ \A q \in Others : /\ q # r => At0(q)' = At0(q)
                           /\ q = r => At0(q)' = <<n + 1, 1>>
  BY <1>0, <1>1, <1>2, <1>4, NextTurn
<1>6. /\ (\A q : llen(q)' = llen(q)) /\ \A q : Base(q)' = Base(q)
      /\ \A i, q : Room(i, q)' = Room(i, q)
  BY <1>1, Fixed, FixedBuffers
<1>7. Shape'
  <2>1. /\ op' = op /\ step' \in [Io -> 1 .. 7] /\ DOMAIN file' = DOMAIN file
    <3>1. step' = [step EXCEPT ![0] = 1]
      BY <1>1 DEF NextTask
    <3>2. DOMAIN file' = DOMAIN file
      <4>1. \A cells : DOMAIN Written(cells) = DOMAIN file
        BY DEF Written
      <4>2. file' = file \/ \E cells : file' = Written(cells)
        <5>. DEFINE cells == UNION {{<<<<v, x[1] + i>>, iobuf[0][bufptr(v, x[3]) + i]>> :
                                       i \in 0 .. x[2] - 1} : v \in Vars, x \in Served}
        <5>1. file' = IF len > 0 THEN Written(cells) ELSE file
          BY DEF WriteRegions
        <5>. HIDE DEF cells
        <5>. QED
          BY <5>1
      <4>. QED
        BY <4>1, <4>2
    <3>3. step \in [Io -> 1 .. 7]
      BY <1>3 DEF Shape
    <3>4. step' \in [Io -> 1 .. 7]
      BY <1>2, <3>1, <3>3
    <3>. QED
      BY <1>1, <3>2, <3>4
  <2>. QED
    BY <1>1, <1>3, <1>5, <1>6, <2>1 DEF Shape
<1>8. Op(0)' = "write" /\ (op[0] <= Len(Ops))'
  BY <1>0, <1>1, <1>2 DEF Op
<1>9. Turn'
  <2>1. r + 1 \in 0 .. num_iotasks /\ 1 <= Ends(n) + 1
    BY <1>2 DEF Ends
  <2>. QED
    BY <1>0, <1>1, <1>2, <1>4, <1>5, <1>8, <2>1 DEF Turn, Doing
<1>10. Received'
  BY <1>5, NothingReceived
<1>11. Buffer0'
  <2>1. rtask' # 0
    BY <1>2, <1>4
  <2>2. (DOMAIN iobuf[0] = 0 .. Room(op[0], 0) - 1)'
    BY <1>0, <1>1, <1>2, <1>3, <1>6 DEF Buffer0
  <2>. QED
    BY <1>8, <2>1, <2>2 DEF Buffer0, Doing
<1>12. InFile'
  <2>1. ASSUME NEW v \in Vars, NEW q \in Io, NEW j \in 0 .. llen(q) - 1
        PROVE  file'[<<v, Base(q) + j>>] =
                  IF q < r + 1 THEN Val(n, v, Base(q) + j) ELSE Left(n, v, Base(q) + j)
    <3>0. PICK e : e = Base(q) + j
      OBVIOUS
    <3>1. /\ llen(q) \in Nat /\ llen(r) \in Nat /\ Base(q) \in Nat /\ Base(r) \in Nat
          /\ q \in Nat /\ r \in Io /\ Base(num_iotasks) \in Nat
          /\ Base(q) + llen(q) <= Base(num_iotasks)
          /\ q < r => Base(q) + llen(q) <= Base(r)
          /\ r < q => Base(r) + llen(r) <= Base(q)
      <4>1. q \in Nat /\ r \in Io /\ q \in 0 .. num_iotasks /\ r \in 0 .. num_iotasks /\ num_iotasks \in 0 .. num_iotasks
        BY <1>2 DEF Io
      <4>. QED
        BY <1>3, <4>1, RegionTypes, Bases
    <3>2. e \in 0 .. Base(num_iotasks) - 1
      BY <3>0, <3>1
    <3>3. file'[<<v, e>>] = IF Base(r) <= e /\ e < Base(r) + llen(r) THEN Val(n, v, e) ELSE file[<<v, e>>]
      BY <1>0, <3>2, WritesOf
    <3>4. file[<<v, e>>] = IF q < r THEN Val(n, v, e) ELSE Left(n, v, e)
      BY <1>0, <1>2, <1>3, <3>0 DEF InFile
    <3>5. CASE q = r
      <4>1. Base(r) <= e /\ e < Base(r) + llen(r)
        BY <3>0, <3>1, <3>5
      <4>. QED
        BY <3>0, <3>1, <3>3, <3>5, <4>1
    <3>6. CASE q # r
      <4>1. ~(Base(r) <= e /\ e < Base(r) + llen(r)) /\ (q < r + 1 <=> q < r)
        <5>0. j \in 0 .. llen(q) - 1 /\ llen(q) \in Nat
          BY <3>1
        <5>0a. r \in Nat
          BY <1>2
        <5>0b. \A l \in Nat : \A k \in 0 .. l - 1 : k \in Nat /\ k < l
          OBVIOUS
        <5>1. r \in Nat /\ j \in Nat /\ j < llen(q)
          BY <5>0, <5>0a, <5>0b, Zenon
        <5>2. e \in Nat /\ Base(q) <= e /\ e < Base(q) + llen(q)
          BY <3>0, <3>1, <5>1
        <5>3. q < r \/ r < q
          BY <3>1, <3>6, <5>1
        <5>. QED
          BY <3>1, <5>1, <5>2, <5>3
      <4>. QED
        BY <3>0, <3>3, <3>4, <4>1
    <3>. QED
      BY <3>5, <3>6
  <2>2. op'[0] = n /\ rtask' = r + 1 /\ Doing("write")'
    BY <1>0, <1>1, <1>4, <1>8 DEF Doing
  <2>. QED
    BY <1>6, <2>1, <2>2 DEF InFile
<1>13. ASSUME NEW q \in Others PROVE Linked(q, sent'[<<q, "up">>], sent'[<<q, "down">>], At0(q)', AtR(q))
  <2>1. Linked(q, sent[<<q, "up">>], sent[<<q, "down">>], At0(q), AtR(q))
    BY Zenon DEF Inv, Link
  <2>2. At0(q)' = At0(q)
    <3>1. CASE q = r
      <4>1. ~(rtask < q) /\ step[0] = 7
        BY <1>0, <1>2, <3>1
      <4>2. At0(q) = <<n + 1, 1>>
        BY <1>0, <4>1 DEF At0, Ends
      <4>. QED
        BY <1>5, <3>1, <4>2
    <3>. QED
      BY <1>5, <3>1
  <2>. QED
    BY <1>1, <2>1, <2>2, Zenon
<1>14. \A q \in Others : op'[q] = op[q] /\ step'[q] = step[q] /\ iobuf'[q] = iobuf[q]
  BY <1>1, <1>5
<1>. QED
  BY <1>1, <1>7, <1>9, <1>10, <1>11, <1>12, <1>13, <1>14, TurnFrame

\* What task 0 reads for task r, and what it sends.
ReadFor(buf, r) ==
    /\ iobuf' = [iobuf EXCEPT ![0] = buf] /\ DOMAIN buf = DOMAIN iobuf[0]
    /\ \A j \in 0 .. llen(r) - 1 : buf[j] = Left(op[0], 1, Base(r) + j)
    /\ sent' = IF rtask # Own /\ llen(r) > 0
               THEN [sent EXCEPT ![<<rtask, "down">>] =
                       Append(@, [tag |-> Tag("read", "data"), val |-> [x \in 0 .. llen(r) - 1 |-> buf[x]]])]
               ELSE sent

LEMMA ReadsOf ==
  ASSUME Inv, ReadRegions, NEW r, r = IF rtask = Own THEN 0 ELSE rtask
  PROVE  \E buf : ReadFor(buf, r)
<1>0. PICK n, l : n = op[0] /\ l = llen(r)
  OBVIOUS
<1>1. AtRegions("read")
  BY DEF ReadRegions
<1>2. /\ r \in Io /\ 0 \in Io /\ len = l /\ n \in 1 .. Len(Ops) /\ Op(0) = "read" /\ ~Doing("write")
      /\ l > 0 => Regions.starts = Starts(r) /\ Regions.counts = Counts(r) /\ Regions.n = maxregions
  <2>. PICK o \in {"write", "read"} : o = "read"
    OBVIOUS
  <2>1. AtRegions(o)
    BY <1>1
  <2>2. /\ r \in Io /\ 0 \in Io /\ len = llen(r) /\ op[0] \in 1 .. Len(Ops) /\ Op(0) = o
        /\ llen(r) > 0 => Regions.starts = Starts(r) /\ Regions.counts = Counts(r) /\ Regions.n = maxregions
    BY <2>1, RegionsOf
  <2>. QED
    BY <1>0, <2>2 DEF Doing
<1>3. /\ Regioned /\ Buffer0 /\ InFile
      /\ l \in Nat /\ l <= maxiobuflen /\ maxiobuflen \in Nat /\ Base(r) \in Nat
  <2>1. Regioned /\ Buffer0 /\ InFile
    BY DEF Inv, Shape, Regioned, Buffers
  <2>2. r \in 0 .. num_iotasks
    <3>1. r \in Io
      BY <1>2
    <3>2. num_iotasks \in Nat
      BY SerialAssumption
    <3>3. \A x \in Io : x \in 0 .. num_iotasks
      BY <3>2 DEF Io
    <3>. QED
      BY <3>1, <3>3
  <2>. QED
    BY <1>0, <1>2, <2>1, <2>2, RegionTypes, Bases, Maxima
<1>. DEFINE read == [x \in DOMAIN iobuf[0] |->
                      IF \E c \in ToRead : c[1] = x THEN file[(CHOOSE c \in ToRead : c[1] = x)[2]] ELSE iobuf[0][x]]
<1>4. /\ iobuf' = [iobuf EXCEPT ![0] = read]
      /\ sent' = IF rtask # Own /\ l > 0
                 THEN [sent EXCEPT ![<<rtask, "down">>] =
                         Append(@, [tag |-> Tag("read", "data"), val |-> [x \in 0 .. l - 1 |-> read[x]]])]
                 ELSE sent
  <2>1. /\ iobuf' = [iobuf EXCEPT ![0] = read]
        /\ IF rtask # Own /\ len > 0
           THEN Post(<<rtask, "down">>, "read", "data", [x \in 0 .. len - 1 |-> read[x]])
           ELSE UNCHANGED sent
    BY Zenon DEF ReadRegions
  <2>. HIDE DEF read
  <2>. QED
    BY <1>2, <2>1 DEF Post
<1>5. DOMAIN iobuf[0] = 0 .. maxiobuflen - 1
  <2>1. Room(n, 0) = maxiobuflen
    BY <1>0, <1>2 DEF Room, Op
  <2>. QED
    BY <1>0, <1>2, <1>3, <2>1 DEF Buffer0
<1>6. ASSUME NEW j \in 0 .. l - 1 PROVE read[j] = Left(n, 1, Base(r) + j)
  <2>. DEFINE L(i) == Sum(SubSeq(Counts(r), 1, i - 1))
              G(x) == {<<x[3] + i, <<1, x[1] + i>>>> : i \in 0 .. x[2] - 1}
              e == <<j, <<1, Base(r) + j>>>>
  <2>1. /\ \A i \in 1 .. maxregions : \A x \in 0 .. Counts(r)[i] - 1 :
              L(i) \in Nat /\ L(i) + x \in 0 .. l - 1 /\ Starts(r)[i] + x = Base(r) + (L(i) + x)
        /\ \A y \in 0 .. l - 1 : \E i \in 1 .. maxregions : \E x \in 0 .. Counts(r)[i] - 1 : y = L(i) + x
    BY <1>0, <1>2, <1>3, Parts, ZenonT(40)
  <2>2. Served = {<<Starts(r)[i], Counts(r)[i], L(i)>> : i \in 1 .. maxregions}
    <3>1. l > 0
      BY <1>3
    <3>2. Regions.starts = Starts(r) /\ Regions.counts = Counts(r) /\ Regions.n = maxregions
      BY <1>2, <3>1
    <3>. QED
      BY <3>2 DEF Served
  <2>3. ToRead = UNION {G(x) : x \in Served}
    BY Zenon DEF ToRead
  <2>. HIDE DEF L
  <2>4. ASSUME NEW c \in ToRead, c[1] = j PROVE c = e
    <3>1. PICK x \in Served : c \in G(x)
      <4>. HIDE DEF G
      <4>. QED
        BY <2>3
    <3>2. PICK i \in 1 .. maxregions : x = <<Starts(r)[i], Counts(r)[i], L(i)>>
      BY <2>2
    <3>3. PICK y \in 0 .. Counts(r)[i] - 1 : c = <<L(i) + y, <<1, Starts(r)[i] + y>>>>
      BY <3>1, <3>2
    <3>4. Starts(r)[i] + y = Base(r) + (L(i) + y) /\ L(i) + y = j
      BY <2>1, <2>4, <3>3
    <3>. QED
      BY <3>3, <3>4
  <2>5. e \in ToRead
    <3>1. PICK i \in 1 .. maxregions : \E y \in 0 .. Counts(r)[i] - 1 : j = L(i) + y
      BY <2>1
    <3>2. PICK y \in 0 .. Counts(r)[i] - 1 : j = L(i) + y
      BY <3>1
    <3>3. PICK x \in Served : x = <<Starts(r)[i], Counts(r)[i], L(i)>>
      BY <2>2
    <3>4. e = <<x[3] + y, <<1, x[1] + y>>>>
      BY <2>1, <3>2, <3>3
    <3>5. e \in G(x)
      <4>1. y \in 0 .. x[2] - 1
        BY <3>3
      <4>. HIDE DEF e
      <4>. QED
        BY <3>4, <4>1
    <3>. HIDE DEF G, e
    <3>. QED
      BY <2>3, <3>5
  <2>6. (CHOOSE c \in ToRead : c[1] = j) = e
    <3>1. e[1] = j
      OBVIOUS
    <3>. HIDE DEF e
    <3>. QED
      BY <2>4, <2>5, <3>1
  <2>7. read[j] = file[e[2]]
    <3>1. j \in DOMAIN iobuf[0]
      BY <1>3, <1>5
    <3>2. \E c \in ToRead : c[1] = j
      BY <2>5
    <3>. HIDE DEF e
    <3>. QED
      BY <2>6, <3>1, <3>2
  <2>8. file[<<1, Base(r) + j>>] = Left(n, 1, Base(r) + j)
    <3>1. 1 \in Vars
      BY SerialAssumption DEF Vars
    <3>. QED
      BY <1>0, <1>2, <1>3, <3>1 DEF InFile
  <2>. QED
    BY <2>7, <2>8
<1>7. DOMAIN read = DOMAIN iobuf[0]
  OBVIOUS
<1>. HIDE DEF read
<1>8. ReadFor(read, r)
  BY <1>0, <1>4, <1>6, <1>7 DEF ReadFor
<1>. QED
  BY <1>8

LEMMA Reads == ASSUME Inv, ReadRegions PROVE Inv'
<1>0. PICK n, t, r : n = op[0] /\ t = rtask /\ r = IF rtask = Own THEN 0 ELSE rtask
  OBVIOUS
<1>1. /\ AtRegions("read") /\ NextTask
      /\ UNCHANGED <<regions, sync, op, rlen, rregions, rstart, rcount, file, err>>
  BY DEF ReadRegions
<1>2. /\ n \in 1 .. Len(Ops) /\ n <= Len(Ops) /\ Ops[n] = "read" /\ Op(0) = "read" /\ Doing("read") /\ ~Doing("write")
      /\ t \in 1 .. num_iotasks /\ r \in Io /\ 0 \in Io /\ 0 \notin Others /\ num_iotasks \in Nat \ {0}
      /\ r = (IF t = num_iotasks THEN 0 ELSE t) /\ (t = num_iotasks <=> rtask = Own)
      /\ t # num_iotasks => t \in Others /\ step[0] \in {5, 6}
  <2>. PICK o \in {"write", "read"} : o = "read"
    OBVIOUS
  <2>1. AtRegions(o)
    BY <1>1
  <2>2. /\ n \in 1 .. Len(Ops) /\ n <= Len(Ops) /\ Ops[n] = "read" /\ Op(0) = "read" /\ Doing("read")
        /\ r \in Io /\ 0 \in Io /\ 0 \notin Others /\ num_iotasks \in Nat \ {0}
    BY <1>0, <2>1, RegionsOf
  <2>3. t \in 1 .. num_iotasks /\ Own = num_iotasks /\ (rtask # Own => t \in Others /\ step[0] \in {5, 6})
    BY <1>0, <2>1, RegionsOf
  <2>4. ~Doing("write")
    BY <2>2 DEF Doing
  <2>. QED
    BY <1>0, <2>2, <2>3, <2>4
<1>3. /\ Shape /\ Turn /\ Received /\ Buffer0 /\ InFile /\ Regioned
  BY DEF Inv, Buffers, Shape, Regioned
<1>4. rtask \in 0 .. num_iotasks /\ rtask' = t + 1
  BY <1>0, <1>1, <1>2 DEF NextTask
<1>5. /\ step'[0] = 1 /\ \A q \in Others : step'[q] = step[q]
      /\ \A q \in Others : /\ q # t => At0(q)' = At0(q)
                           /\ q = t => At0(q)' = <<n + 1, 1>>
  BY <1>0, <1>1, <1>2, <1>4, NextTurn
<1>6. /\ (\A q : llen(q)' = llen(q)) /\ \A q : Base(q)' = Base(q)
      /\ \A i, q : Room(i, q)' = Room(i, q)
  BY <1>1, Fixed, FixedBuffers
<1>7a. PICK buf : ReadFor(buf, r)
  BY <1>0, ReadsOf, Zenon
<1>7. /\ iobuf' = [iobuf EXCEPT ![0] = buf] /\ DOMAIN buf = DOMAIN iobuf[0]
      /\ \A j \in 0 .. llen(r) - 1 : buf[j] = Left(op[0], 1, Base(r) + j)
      /\ sent' = IF rtask # Own /\ llen(r) > 0
                 THEN [sent EXCEPT ![<<rtask, "down">>] =
                         Append(@, [tag |-> Tag("read", "data"), val |-> [x \in 0 .. llen(r) - 1 |-> buf[x]]])]
                 ELSE sent
  BY <1>7a DEF ReadFor
<1>8. Op(0)' = "read" /\ (op[0] <= Len(Ops))' /\ ~Doing("write")'
  BY <1>0, <1>1, <1>2 DEF Op, Doing
<1>9. Turn'
  <2>1. t + 1 \in 1 .. num_iotasks + 1 /\ 1 <= Ends(n) + 1
    BY <1>2 DEF Ends
  <2>. QED
    BY <1>0, <1>1, <1>2, <1>4, <1>5, <1>8, <2>1 DEF Turn, Doing
<1>10. Received'
  BY <1>5, NothingReceived
<1>11. iobuf'[0] = buf /\ \A q \in Others : iobuf'[q] = iobuf[q]
  BY <1>2, <1>3, <1>7 DEF Shape, Others
<1>12. Buffer0'
  <2>1. (DOMAIN iobuf[0] = 0 .. Room(op[0], 0) - 1)'
    BY <1>0, <1>1, <1>2, <1>3, <1>6, <1>7, <1>11 DEF Buffer0
  <2>2. ASSUME (rtask > num_iotasks)'
        PROVE  (\A j \in 0 .. llen(0) - 1 : iobuf[0][j] = Left(op[0], 1, Base(0) + j))'
    <3>1. t = num_iotasks /\ r = 0
      BY <1>2, <1>4, <2>2
    <3>2. \A j \in 0 .. llen(0) - 1 : iobuf'[0][j] = Left(op'[0], 1, Base(0) + j)
      BY <1>1, <1>7, <1>11, <3>1
    <3>. QED
      BY <1>6, <3>2
  <2>. QED
    BY <1>8, <2>1, <2>2 DEF Buffer0
<1>13. InFile'
  BY <1>1, <1>2, <1>3, <1>6, <1>8 DEF InFile
<1>14. Shape'
  <2>1. QueuesOf(sent')
    <3>1. QueuesOf(sent)
      BY <1>3 DEF Shape, QueuesOf
    <3>2. CASE rtask # Own /\ llen(r) > 0
      <4>1. PICK c, m : c = <<rtask, "down">> /\
                m = [tag |-> Tag("read", "data"), val |-> [x \in 0 .. llen(r) - 1 |-> buf[x]]]
        OBVIOUS
      <4>2. c \in DOMAIN sent
        BY <1>0, <1>2, <1>3, <3>2, <4>1 DEF Shape
      <4>3. sent' = [sent EXCEPT ![c] = Append(@, m)]
        BY <1>7, <3>2, <4>1, Zenon
      <4>. QED
        BY <3>1, <4>2, <4>3, Posted
    <3>3. CASE ~(rtask # Own /\ llen(r) > 0)
      BY <1>7, <3>1, <3>3, Zenon
    <3>. QED
      BY <3>2, <3>3
  <2>2. step' = [step EXCEPT ![0] = 1] /\ 1 \in 1 .. 7 /\ n \in 1 .. Len(Ops) + 1
    BY <1>1, <1>2, Programs DEF NextTask
  <2>3. op' = [op EXCEPT ![0] = n] /\ UNCHANGED <<regions, file>>
    BY <1>0, <1>1, <1>2, <1>3 DEF Shape
  <2>4. iobuf' = [iobuf EXCEPT ![0] = buf]
    BY <1>7
  <2>. QED
    BY <1>2, <1>3, <2>1, <2>2, <2>3, <2>4, ShapeAfter

<1>15. ASSUME NEW q \in Others PROVE Linked(q, sent'[<<q, "up">>], sent'[<<q, "down">>], At0(q)', AtR(q))
  <2>1. Linked(q, sent[<<q, "up">>], sent[<<q, "down">>], At0(q), AtR(q))
    BY Zenon DEF Inv, Link
  <2>2. DOMAIN sent = Others \X {"up", "down"} /\ <<q, "up">> \in DOMAIN sent /\ <<q, "down">> \in DOMAIN sent
    BY <1>3 DEF Shape
  <2>3. CASE q = t /\ llen(r) > 0
    <3>0. t # num_iotasks /\ r = t /\ rtask # Own
      BY <1>2, <2>3 DEF Others, Io
    <3>. DEFINE p == <<n, 5>>
                c == <<t, "down">>
                val == [x \in 0 .. llen(r) - 1 |-> buf[x]]
    <3>1. step[0] = 5
      <4>1. step[0] # 6
        BY <1>0, <1>2, <1>3, <2>3, <3>0 DEF Received
      <4>. QED
        BY <1>2, <3>0, <4>1
    <3>2. 5 \in 1 .. Ends(n) /\ Ends(n) = 5
      BY <1>2 DEF Ends
    <3>3. At0(q) = p
      <4>1. ~(rtask < q) /\ rtask = q /\ step[0] <= Ends(op[0])
        BY <1>0, <1>2, <2>3, <3>1, <3>2
      <4>. QED
        BY <1>0, <3>1, <4>1 DEF At0
    <3>4. IsPlace(p) /\ GoesDown(p) /\ StepAt(p) = "data"
      BY <1>2, <3>2, Steps
    <3>5. Envelope(q, p) = [tag |-> Tag("read", "data"), val |-> val]
      <4>1. Content(q, p) = [x \in 0 .. llen(r) - 1 |-> Left(n, 1, Base(r) + x)]
        BY <1>2, <2>3, <3>0, <3>4 DEF Content
      <4>2. Content(q, p) = val
        BY <1>0, <1>7, <4>1
      <4>. QED
        BY <1>2, <3>4, <4>2 DEF Envelope
    <3>6. After(q, p) = <<n + 1, 1>>
      BY <1>2, <3>2, Afters
    <3>7. sent' = [sent EXCEPT ![c] = Append(@, Envelope(q, p))]
      <4>1. sent' = [sent EXCEPT ![<<rtask, "down">>] = Append(@, [tag |-> Tag("read", "data"), val |-> val])]
        BY <1>7, <2>3, <3>0, Zenon
      <4>. HIDE DEF p, val
      <4>. QED
        BY <1>0, <3>5, <4>1
    <3>. HIDE DEF p, val
    <3>8. sent'[<<q, "down">>] = Append(sent[<<q, "down">>], Envelope(q, p)) /\ sent'[<<q, "up">>] = sent[<<q, "up">>]
      BY <2>2, <2>3, <3>7
    <3>9. Linked(q, sent[<<q, "up">>], Append(sent[<<q, "down">>], Envelope(q, p)), After(q, p), AtR(q))
      <4>1. PICK M : \A d \in DOMAIN sent : sent[d] \in Seq(M)
        BY <1>3 DEF Shape
      <4>2. sent[<<q, "up">>] \in Seq(M) /\ sent[<<q, "down">>] \in Seq(M)
        BY <2>2, <4>1
      <4>3. Linked(q, sent[<<q, "up">>], sent[<<q, "down">>], p, AtR(q))
        BY <2>1, <3>3, Zenon
      <4>. QED
        BY <3>4, <4>2, <4>3, SendDown
    <3>10. At0(q)' = After(q, p)
      BY <1>5, <2>3, <3>6
    <3>. QED
      BY <3>8, <3>9, <3>10, Zenon
  <2>4. CASE ~(q = t /\ llen(r) > 0)
    <3>1. sent'[<<q, "up">>] = sent[<<q, "up">>] /\ sent'[<<q, "down">>] = sent[<<q, "down">>]
      <4>1. CASE rtask # Own /\ llen(r) > 0
        <5>1. q # t
          BY <2>4, <4>1
        <5>2. PICK c, m : c = <<t, "down">> /\
                  m = [tag |-> Tag("read", "data"), val |-> [x \in 0 .. llen(r) - 1 |-> buf[x]]]
          OBVIOUS
        <5>3. sent' = [sent EXCEPT ![c] = Append(@, m)]
          BY <1>0, <1>7, <4>1, <5>2, Zenon
        <5>4. <<q, "up">> # c /\ <<q, "down">> # c
          BY <5>1, <5>2
        <5>. QED
          BY <2>2, <5>3, <5>4
      <4>2. CASE ~(rtask # Own /\ llen(r) > 0)
        BY <1>7, <4>2, Zenon
      <4>. QED
        BY <4>1, <4>2
    <3>2. At0(q)' = At0(q)
      <4>1. CASE q = t
        <5>1. t # num_iotasks /\ r = t
          BY <1>2, <4>1 DEF Others, Io
        <5>2. llen(r) = 0
          <6>1. llen(r) \in Nat
            BY <1>2, <1>3, RegionTypes
          <6>. QED
            BY <2>4, <4>1, <6>1
        <5>3. step[0] = Ends(op[0]) + 1
          <6>1. StepAt(<<n, 1>>) = "llen" /\ 1 \in 1 .. Ends(n)
            BY <1>2 DEF StepAt, OtherSteps, Ends
          <6>2. 1 < step[0]
            BY <1>2, <5>1
          <6>3. Past("llen")
            BY <1>0, <6>1, <6>2 DEF Past, Before
          <6>. QED
            BY <1>0, <1>2, <1>3, <5>1, <5>2, <6>3 DEF Received
        <5>4. At0(q) = <<n + 1, 1>>
          <6>1. ~(rtask < q) /\ ~(step[0] <= Ends(op[0]))
            BY <1>0, <1>2, <4>1, <5>3 DEF Ends
          <6>. QED
            BY <1>0, <6>1 DEF At0
        <5>. QED
          BY <1>5, <4>1, <5>4
      <4>. QED
        BY <1>5, <4>1
    <3>. QED
      BY <2>1, <3>1, <3>2, Zenon
  <2>. QED
    BY <2>3, <2>4
<1>16. \A q \in Others : op'[q] = op[q] /\ step'[q] = step[q] /\ iobuf'[q] = iobuf[q]
  BY <1>1, <1>5, <1>11
<1>17. UNCHANGED regions
  BY <1>1
<1>. QED
  BY <1>9, <1>10, <1>12, <1>13, <1>14, <1>15, <1>16, <1>17, TurnFrame

-----------------------------------------------------------------------------
(* The other steps of task 0 *)

LEMMA Fails == ASSUME Inv, LibraryFails PROVE Inv'
<1>1. UNCHANGED <<regions, sync, op, step, rtask, rlen, rregions, rstart, rcount, iobuf, sent, file>>
  BY DEF LibraryFails
<1>2. Turn' /\ Received' /\ Buffer0' /\ InFile' /\ \A q : At0(q)' = At0(q)
  BY <1>1, Keeps0
<1>3. Shape'
  <2>1. Shape /\ Base(num_iotasks)' = Base(num_iotasks)
    BY <1>1, Fixed DEF Inv
  <2>. QED
    BY <1>1, <2>1 DEF Shape
<1>4. ASSUME NEW q \in Others PROVE Linked(q, sent'[<<q, "up">>], sent'[<<q, "down">>], At0(q)', AtR(q))
  <2>1. Linked(q, sent[<<q, "up">>], sent[<<q, "down">>], At0(q), AtR(q))
    BY Zenon DEF Inv, Link
  <2>. QED
    BY <1>1, <1>2, <2>1, Zenon
<1>5. UNCHANGED regions /\ \A q \in Others : op'[q] = op[q] /\ step'[q] = step[q] /\ iobuf'[q] = iobuf[q]
  BY <1>1
<1>. QED
  BY <1>2, <1>3, <1>4, <1>5, TurnFrame

LEMMA Finishes == ASSUME Inv, ServeReturns PROVE Inv'
<1>0. PICK n : n = op[0]
  OBVIOUS
<1>1. /\ Running(0) /\ rtask > Last
      /\ op' = [op EXCEPT ![0] = n + 1] /\ step' = [step EXCEPT ![0] = 1]
      /\ iobuf' = [iobuf EXCEPT ![0] = Buffer(n + 1, 0)]
      /\ rtask' = IF n < Len(Ops) /\ Ops[n + 1] = "read" THEN 1 ELSE 0
      /\ UNCHANGED <<regions, sync, rlen, rstart, rcount, sent, file, err>>
  BY <1>0, Zenon DEF ServeReturns, NextOp
<1>2. Shape /\ Turn /\ InFile /\ Regioned
  BY DEF Inv, Shape, Regioned
<1>3. 0 \in Io /\ 0 \notin Others /\ num_iotasks \in Nat \ {0} /\ \A q \in Others : q \in Io /\ q # 0
  BY SerialAssumption DEF Io, Others
<1>4. n \in 1 .. Len(Ops) /\ n <= Len(Ops) /\ Op(0) = Ops[n]
  <2>1. n \in 1 .. Len(Ops) + 1 /\ n <= Len(Ops)
    BY <1>0, <1>1, <1>2, <1>3 DEF Shape, Running
  <2>. QED
    BY <1>0, <2>1, Programs DEF Op
<1>5. /\ Ops[n] = "write" \/ (Ops[n] = "read" /\ Ops[n] # "write")
      /\ Ops[n] = "write" => Doing("write") /\ rtask = num_iotasks
      /\ Ops[n] = "read" => ~Doing("write") /\ rtask = num_iotasks + 1
  <2>1. Ops[n] = "write" \/ (Ops[n] = "read" /\ Ops[n] # "write")
    BY <1>4, Programs
  <2>2. ASSUME Ops[n] = "write" PROVE Doing("write") /\ rtask = num_iotasks
    <3>1. Doing("write") /\ rtask > num_iotasks - 1
      BY <1>0, <1>1, <1>4, <2>2 DEF Doing, Last
    <3>. QED
      BY <1>2, <1>3, <3>1 DEF Turn
  <2>3. ASSUME Ops[n] = "read" PROVE ~Doing("write") /\ rtask = num_iotasks + 1
    <3>1. Doing("read") /\ ~Doing("write") /\ rtask > num_iotasks
      BY <1>0, <1>1, <1>4, <2>3 DEF Doing, Last
    <3>. QED
      BY <1>2, <1>3, <3>1 DEF Turn
  <2>. QED
    BY <2>1, <2>2, <2>3
<1>6. /\ op'[0] = n + 1 /\ step'[0] = 1 /\ iobuf'[0] = Buffer(n + 1, 0)
      /\ \A q \in Others : op'[q] = op[q] /\ step'[q] = step[q] /\ iobuf'[q] = iobuf[q]
  BY <1>1, <1>2, <1>3 DEF Shape
<1>7. /\ (\A q : llen(q)' = llen(q)) /\ \A q : Base(q)' = Base(q)
      /\ (\A i, q : Room(i, q)' = Room(i, q)) /\ \A i, q : Buffer(i, q)' = Buffer(i, q)
  BY <1>1, Fixed, FixedBuffers
<1>8. Shape'
  <2>1. n + 1 \in 1 .. Len(Ops) + 1 /\ 1 \in 1 .. 7
    BY <1>4, Programs
  <2>2. QueuesOf(sent')
    BY <1>1, <1>2 DEF Shape, QueuesOf
  <2>3. UNCHANGED <<regions, file>>
    BY <1>1
  <2>. QED
    BY <1>1, <1>2, <1>3, <2>1, <2>2, <2>3, ShapeAfter
<1>9. /\ (op[0] <= Len(Ops))' <=> n < Len(Ops)
      /\ Doing("write")' => n < Len(Ops) /\ rtask' = 0
      /\ Doing("read")' => n < Len(Ops) /\ rtask' = 1
      /\ Op(0)' = Ops[n + 1] /\ rtask' \in {0, 1} /\ ((op[0] > Len(Ops))' => rtask' = 0)
  <2>1. Len(Ops) \in Nat /\ n \in Nat
    BY <1>4, Programs
  <2>2. Op(0)' = Ops[n + 1]
    BY <1>6 DEF Op
  <2>. QED
    BY <1>1, <1>6, <2>1, <2>2 DEF Doing
<1>10. Turn'
  <2>1. 1 <= Ends(n + 1) + 1
    BY DEF Ends
  <2>. QED
    BY <1>3, <1>6, <1>9, <2>1 DEF Turn
<1>11. Received'
  BY <1>6, NothingReceived
<1>12. Buffer0'
  <2>1. ASSUME n < Len(Ops) PROVE DOMAIN Buffer(n + 1, 0) = 0 .. Room(n + 1, 0) - 1
    <3>1. ~(n + 1 > Len(Ops))
      BY <1>4, <2>1, Programs
    <3>. QED
      BY <3>1 DEF Buffer
  <2>2. ~(rtask' > num_iotasks)
    BY <1>3, <1>9
  <2>3. ASSUME n < Len(Ops) PROVE (DOMAIN iobuf[0] = 0 .. Room(op[0], 0) - 1)'
    BY <1>6, <1>7, <2>1, <2>3
  <2>4. ASSUME Doing("write")' PROVE (iobuf[0] = Buffer(op[0], 0))'
    BY <1>6, <1>7
  <2>. QED
    BY <1>9, <2>2, <2>3, <2>4 DEF Buffer0
<1>13. InFile'
  <2>1. ASSUME NEW v \in Vars, NEW q \in Io, NEW j \in 0 .. llen(q) - 1
        PROVE  file[<<v, Base(q) + j>>] = Left(n + 1, v, Base(q) + j)
    <3>1. LastWrite(n + 1) = IF Ops[n] = "write" THEN n ELSE LastWrite(n)
      BY <1>4, LastWrites
    <3>2. file[<<v, Base(q) + j>>] =
            IF Doing("write") /\ q < rtask THEN Val(n, v, Base(q) + j) ELSE Left(n, v, Base(q) + j)
      BY <1>0, <1>2 DEF InFile
    <3>3. CASE Ops[n] = "write"
      <4>1. q < rtask /\ n # 0
        BY <1>3, <1>4, <1>5, <3>3 DEF Io
      <4>. QED
        BY <1>5, <3>1, <3>2, <3>3, <4>1 DEF Left
    <3>4. CASE Ops[n] # "write"
      BY <1>5, <3>1, <3>2, <3>4 DEF Left
    <3>. QED
      BY <3>3, <3>4
  <2>2. \A q \in Io : ~(Doing("write")' /\ q < rtask')
    BY <1>9 DEF Io
  <2>3. op'[0] = n + 1 /\ file' = file
    BY <1>1, <1>6
  <2>. QED
    BY <1>7, <2>1, <2>2, <2>3 DEF InFile
<1>14. ASSUME NEW q \in Others PROVE Linked(q, sent'[<<q, "up">>], sent'[<<q, "down">>], At0(q)', AtR(q))
  <2>1. Linked(q, sent[<<q, "up">>], sent[<<q, "down">>], At0(q), AtR(q))
    BY Zenon DEF Inv, Link
  <2>2. q \in 1 .. num_iotasks - 1
    BY <1>3 DEF Others, Io
  <2>3. At0(q) = <<n + 1, 1>>
    <3>1. ~(rtask < q) /\ rtask # q
      BY <1>3, <1>5, <2>2
    <3>. QED
      BY <1>0, <3>1 DEF At0
  <2>4. At0(q)' = <<n + 1, 1>>
    <3>1. 1 <= Ends(n + 1)
      BY DEF Ends
    <3>2. rtask' < q \/ rtask' = q
      BY <1>9, <2>2
    <3>3. CASE rtask' < q
      BY <1>6, <3>3 DEF At0
    <3>4. CASE rtask' = q
      <4>1. ~(rtask' < q)
        BY <2>2, <3>4
      <4>. QED
        BY <1>6, <3>1, <3>4, <4>1 DEF At0
    <3>. QED
      BY <3>2, <3>3, <3>4
  <2>. QED
    BY <1>1, <2>1, <2>3, <2>4, Zenon
<1>15. UNCHANGED regions
  BY <1>1
<1>. QED
  BY <1>6, <1>8, <1>10, <1>11, <1>12, <1>13, <1>14, <1>15, TurnFrame

-----------------------------------------------------------------------------
(* The invariant, and what it says of the file and of the arrays read *)

LEMMA Starting == Init => Inv
<1>. SUFFICES ASSUME Init PROVE Inv
  OBVIOUS
<1>1. /\ regions \in [Io -> Sizes]
      /\ op = [r \in Io |-> 1] /\ step = [r \in Io |-> 1]
      /\ rtask = (IF Ops[1] = "write" THEN 0 ELSE 1)
      /\ iobuf = [r \in Io |-> Buffer(1, r)]
      /\ sent = [c \in Others \X {"up", "down"} |-> <<>>]
      /\ file = [c \in Vars \X (0 .. Base(num_iotasks) - 1) |-> None]
  BY DEF Init
<1>2. /\ 0 \in Io /\ 0 \notin Others /\ num_iotasks \in Nat \ {0}
      /\ \A q \in Others : q \in Io /\ q # 0 /\ q \in 1 .. num_iotasks - 1
  BY SerialAssumption DEF Io, Others
<1>3. /\ Len(Ops) \in Nat \ {0} /\ 1 \in 1 .. Len(Ops) /\ ~(1 > Len(Ops))
      /\ Ops[1] = "write" \/ (Ops[1] = "read" /\ Ops[1] # "write")
  BY Programs
<1>4. op[0] = 1 /\ step[0] = 1 /\ iobuf[0] = Buffer(1, 0) /\ Op(0) = Ops[1]
  BY <1>1, <1>2 DEF Op
<1>5. \A r \in Others : op[r] = 1 /\ step[r] = 1 /\ iobuf[r] = Buffer(1, r) /\ Op(r) = Ops[1]
  BY <1>1, <1>2 DEF Op
<1>6. Regioned
  BY <1>1 DEF Regioned
<1>7. Shape
  <2>1. op \in [Io -> 1 .. Len(Ops) + 1] /\ step \in [Io -> 1 .. 7]
    BY <1>1, <1>3
  <2>2. \A r \in Others : (op[r] > Len(Ops) => step[r] = 1) /\ step[r] <= 6
    BY <1>5
  <2>3. DOMAIN sent = Others \X {"up", "down"} /\ \A c \in DOMAIN sent : sent[c] \in Seq({})
    BY <1>1
  <2>4. DOMAIN iobuf = Io /\ DOMAIN file = Vars \X (0 .. Base(num_iotasks) - 1)
    BY <1>1
  <2>. QED
    BY <1>1, <2>1, <2>2, <2>3, <2>4, Zenon DEF Shape
<1>8. Turn
  <2>1. 1 <= Ends(1) + 1
    BY DEF Ends
  <2>. QED
    BY <1>1, <1>2, <1>3, <1>4, <2>1 DEF Turn, Doing
<1>9. Received
  <2>1. \A s : ~Past(s)
    BY <1>4, Befores DEF Past
  <2>. QED
    BY <1>4, <2>1 DEF Received
<1>10. Buffers
  <2>1. DOMAIN Buffer(1, 0) = 0 .. Room(1, 0) - 1
    BY <1>3 DEF Buffer
  <2>2. ~(rtask > num_iotasks)
    BY <1>1, <1>2
  <2>3. Buffer0
    BY <1>4, <2>1, <2>2 DEF Buffer0
  <2>4. ASSUME NEW r \in Others PROVE BufferR(r)
    BY <1>5 DEF BufferR
  <2>. QED
    BY <2>3, <2>4 DEF Buffers
<1>11. InFile
  <2>1. ASSUME NEW v \in Vars, NEW q \in Io, NEW j \in 0 .. llen(q) - 1
        PROVE  file[<<v, Base(q) + j>>] = Left(op[0], v, Base(q) + j) /\ ~(Doing("write") /\ q < rtask)
    <3>1. /\ llen(q) \in Nat /\ Base(q) \in Nat /\ Base(num_iotasks) \in Nat
          /\ Base(q) + llen(q) <= Base(num_iotasks)
      <4>1. q \in 0 .. num_iotasks /\ num_iotasks \in 0 .. num_iotasks
        BY <1>2 DEF Io
      <4>. QED
        BY <1>6, <4>1, RegionTypes, Bases
    <3>2. Base(q) + j \in 0 .. Base(num_iotasks) - 1
      BY <3>1
    <3>3. file[<<v, Base(q) + j>>] = None
      BY <1>1, <3>2
    <3>4. Left(op[0], v, Base(q) + j) = None
      BY <1>4, LastWrites DEF Left
    <3>5. ~(Doing("write") /\ q < rtask)
      BY <1>1, <1>2, <1>4 DEF Doing, Io
    <3>. QED
      BY <3>3, <3>4, <3>5
  <2>. QED
    BY <2>1 DEF InFile
<1>12. Link
  <2>. SUFFICES ASSUME NEW q \in Others
                PROVE  Linked(q, sent[<<q, "up">>], sent[<<q, "down">>], At0(q), AtR(q))
    BY Zenon DEF Link
  <2>1. sent[<<q, "up">>] = <<>> /\ sent[<<q, "down">>] = <<>>
    BY <1>1
  <2>2. Ends(1) \in {5, 6} /\ 1 <= Ends(1) /\ ~(1 > Ends(1))
    BY DEF Ends
  <2>3. AtR(q) = <<1, 1>>
    BY <1>5, <2>2 DEF AtR
  <2>4. At0(q) = <<1, 1>>
    <3>1. rtask < q \/ rtask = q
      BY <1>1, <1>2
    <3>2. CASE rtask < q
      BY <1>4, <3>2 DEF At0
    <3>3. CASE rtask = q
      <4>1. ~(rtask < q)
        BY <1>2, <3>3
      <4>. QED
        BY <1>4, <2>2, <3>3, <4>1 DEF At0
    <3>. QED
      BY <3>1, <3>2, <3>3
  <2>5. Leads(q, <<>>, FALSE, <<1, 1>>, <<1, 1>>)
    <3>1. \A d, p : Leads(q, <<>>, d, p, p)
      BY LeadsNowhere
    <3>. QED
      BY <3>1, Zenon
  <2>. QED
    BY <2>1, <2>3, <2>4, <2>5, Zenon DEF Linked
<1>. QED
  BY <1>7, <1>8, <1>9, <1>10, <1>11, <1>12, Zenon DEF Inv

LEMMA Stutters == ASSUME Inv, UNCHANGED vars PROVE Inv'
<1>1. UNCHANGED <<regions, sync, op, step, rtask, rlen, rregions, rstart, rcount, iobuf, sent, file>>
  BY DEF vars
<1>2. Turn' /\ Received' /\ Buffer0' /\ InFile' /\ \A q : At0(q)' = At0(q)
  BY <1>1, Keeps0
<1>3. Shape'
  <2>1. Shape /\ Base(num_iotasks)' = Base(num_iotasks)
    BY <1>1, Fixed DEF Inv
  <2>. QED
    BY <1>1, <2>1 DEF Shape
<1>4. ASSUME NEW q \in Others PROVE Linked(q, sent'[<<q, "up">>], sent'[<<q, "down">>], At0(q)', AtR(q))
  <2>1. Linked(q, sent[<<q, "up">>], sent[<<q, "down">>], At0(q), AtR(q))
    BY Zenon DEF Inv, Link
  <2>. QED
    BY <1>1, <1>2, <2>1, Zenon
<1>5. UNCHANGED regions /\ \A q \in Others : op'[q] = op[q] /\ step'[q] = step[q] /\ iobuf'[q] = iobuf[q]
  BY <1>1
<1>. QED
  BY <1>2, <1>3, <1>4, <1>5, TurnFrame

\* The queues between task 0 and another task always hold the messages of
\* the exchanges by which one of the two is ahead, in their order, whatever
\* the number of tasks and operations: no message of pio_darray_int.c is
\* ever taken for another, though the tags are the same in every operation.
THEOREM QueuesInStep == Spec => []Inv
<1>1. Inv /\ [Next]_vars => Inv'
  <2>. SUFFICES ASSUME Inv, [Next]_vars PROVE Inv'
    OBVIOUS
  <2>1. CASE Serve
    BY <2>1, Handshakes, ServeTakes, Writes, Reads, Finishes, Zenon DEF Serve
  <2>2. CASE LibraryFails
    BY <2>2, Fails, Zenon
  <2>3. CASE \E r \in Others : Other(r)
    <3>1. PICK r \in Others : Other(r)
      BY <2>3, Zenon
    <3>. QED
      BY <3>1, Sends, Receives, Returns, Zenon DEF Other
  <2>4. CASE UNCHANGED vars
    BY <2>4, Stutters, Zenon
  <2>. QED
    BY <2>1, <2>2, <2>3, <2>4, Zenon DEF Next
<1>. QED
  BY <1>1, Starting, PTL DEF Spec

LEMMA InvWrittenRight == Inv => WrittenRight
<1>. SUFFICES ASSUME Inv, Running(0), Op(0) = "write", rtask > Last, NEW c \in DOMAIN file
              PROVE  file[c] = Val(op[0], c[1], c[2])
  BY Zenon DEF WrittenRight
<1>1. Shape /\ Turn /\ InFile /\ Regioned
  BY DEF Inv, Shape, Regioned
<1>2. num_iotasks \in Nat \ {0} /\ 0 \in Io
  BY SerialAssumption DEF Io
<1>3. Doing("write") /\ rtask = num_iotasks
  <2>1. op[0] \in 1 .. Len(Ops) + 1
    BY <1>1, <1>2 DEF Shape
  <2>2. Doing("write") /\ rtask > num_iotasks - 1
    BY <2>1 DEF Running, Doing, Last
  <2>. QED
    BY <1>1, <1>2, <2>2 DEF Turn
<1>4. PICK v \in Vars, e \in 0 .. Base(num_iotasks) - 1 : c = <<v, e>>
  BY <1>1 DEF Shape
<1>5. PICK q \in Io : \E j \in 0 .. llen(q) - 1 : e = Base(q) + j
  BY <1>1, SomeTask
<1>6. PICK j \in 0 .. llen(q) - 1 : e = Base(q) + j
  BY <1>5
<1>7. q < rtask
  BY <1>2, <1>3 DEF Io
<1>8. file[<<v, Base(q) + j>>] = Val(op[0], v, Base(q) + j)
  BY <1>1, <1>3, <1>7 DEF InFile
<1>. QED
  BY <1>4, <1>6, <1>8

LEMMA InvReadRight == Inv => ReadRight
<1>. SUFFICES ASSUME Inv, NEW r \in Io, Running(r), Op(r) = "read",
                     IF r = 0 THEN rtask > Last ELSE step[r] > Len(OtherSteps("read")),
                     NEW j \in 0 .. llen(r) - 1
              PROVE  iobuf[r][j] = Left(op[r], 1, Base(r) + j)
  BY Zenon DEF ReadRight, Left
<1>1. Shape /\ Turn /\ Buffer0 /\ \A q \in Others : BufferR(q)
  BY DEF Inv, Buffers
<1>2. num_iotasks \in Nat \ {0} /\ op[r] <= Len(Ops)
  BY <1>1, SerialAssumption DEF Shape, Running
<1>3. CASE r = 0
  <2>1. Doing("read") /\ rtask > num_iotasks
    BY <1>2, <1>3 DEF Doing, Last
  <2>. QED
    BY <1>1, <1>3, <2>1 DEF Buffer0
<1>4. CASE r # 0
  <2>1. r \in Others /\ BufferR(r)
    BY <1>1, <1>4 DEF Others
  <2>2. step[r] > 5 /\ step[r] \in 1 .. 7 /\ step[r] <= 6
    BY <1>1, <1>4, <2>1 DEF Shape, OtherSteps
  <2>3. step[r] = 6
    BY <2>2
  <2>4. iobuf[r] = [x \in 0 .. llen(r) - 1 |-> Left(op[r], 1, Base(r) + x)]
    BY <1>2, <2>1, <2>3 DEF BufferR
  <2>. QED
    BY <2>4
<1>. QED
  BY <1>3, <1>4

\* When task 0 leaves recv_and_write_data, every element of every variable
\* is in the file as its task had it, for any number of tasks, regions of
\* any sizes and any operations before.
THEOREM AlwaysWritten == Spec => []WrittenRight
BY QueuesInStep, InvWrittenRight, PTL

\* Every task that has read an array with pio_read_darray_nc_serial holds
\* the elements of its own regions as the last write left them, however far
\* task 0 and the other tasks are from one another.
THEOREM AlwaysRead == Spec => []ReadRight
BY QueuesInStep, InvReadRight, PTL

=============================================================================
