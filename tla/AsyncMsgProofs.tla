--------------------------- MODULE AsyncMsgProofs ---------------------------
(***************************************************************************)
(* Proofs about AsyncMsg, for every number of components and tasks and     *)
(* every set of programs that fits (ProgramsFit of AsyncHistory): the      *)
(* state follows from a history at all times (the steps up to the end of a *)
(* call are in AsyncStepProofs), the broadcasts match, nothing is left     *)
(* over, errors are told, and a call is a remote call.                     *)
(***************************************************************************)
EXTENDS AsyncStepProofs

-----------------------------------------------------------------------------
(* What a task has done of a component's calls.                            *)

\* The part of a task's finished calls that is of component c, built up call
\* by call.
OnlyOf(x, c) == When(x.comp = c, <<x>>)
BuildsPart(f, s, c, T) ==
  /\ f \in [0 .. Len(s) -> Seq(T)] /\ f[0] = <<>>
  /\ \A n \in 1 .. Len(s) : f[n] = f[n - 1] \o OnlyOf(s[n], c)

LEMMA PartIs ==
  ASSUME NEW T, NEW s \in Seq(T), NEW c
  PROVE  \E f : BuildsPart(f, s, c, T) /\ PartOf(s, c) = f[Len(s)]
<1>. DEFINE A == 0 .. Len(s)
            V == Seq(T)
            rank == [n \in A |-> n]
            pred == [n \in A |-> IF n = 0 THEN 0 ELSE n - 1]
            base == [n \in A |-> <<>>]
            step == [n \in A |-> [x \in V |-> IF n = 0 THEN x ELSE x \o OnlyOf(s[n], c)]]
            Eq(f) == [n \in A |-> IF n = 0 THEN <<>> ELSE f[n - 1] \o When(s[n].comp = c, <<s[n]>>)]
<1>1. Ranked(A, rank, {0}, pred)
  <2>1. rank \in [A -> Nat] OBVIOUS
  <2>2. pred \in [A -> A]
    <3>1. \A n \in A : (IF n = 0 THEN 0 ELSE n - 1) \in A OBVIOUS
    <3>. QED BY <3>1
  <2>3. \A n \in A : n \notin {0} => rank[pred[n]] < rank[n]
    <3>1. \A n \in A : n # 0 => pred[n] = n - 1 /\ n - 1 \in A /\ n - 1 < n OBVIOUS
    <3>. QED BY <3>1
  <2>. QED BY <2>1, <2>2, <2>3 DEF Ranked
<1>2. base \in [A -> V]
  <2>1. <<>> \in V OBVIOUS
  <2>. QED BY <2>1
<1>3. step \in [A -> [V -> V]]
  <2>1. ASSUME NEW n \in A, n # 0, NEW x \in V PROVE x \o OnlyOf(s[n], c) \in V
    <3>1. s[n] \in T BY <2>1
    <3>2. <<s[n]>> \in Seq(T) /\ <<>> \in Seq(T) BY <3>1
    <3>3. OnlyOf(s[n], c) \in Seq(T) BY <3>2 DEF OnlyOf, When
    <3>. QED BY <3>3
  <2>2. \A n \in A : [x \in V |-> IF n = 0 THEN x ELSE x \o OnlyOf(s[n], c)] \in [V -> V] BY <2>1
  <2>. HIDE DEF V, A
  <2>. QED BY <2>2
<1>4. PICK f \in [A -> V] : Solution(f, A, {0}, base, pred, step)
  <2>. HIDE DEF A, V, rank, pred, base, step
  <2>. QED BY <1>1, <1>2, <1>3, LinearRecursion, Zenon
<1>5. \A n \in A : f[n] = IF n = 0 THEN <<>> ELSE f[n - 1] \o OnlyOf(s[n], c)
  <2>. SUFFICES ASSUME NEW n \in A PROVE f[n] = IF n = 0 THEN <<>> ELSE f[n - 1] \o OnlyOf(s[n], c) OBVIOUS
  <2>1. f[n] = IF n \in {0} THEN base[n] ELSE step[n][f[pred[n]]]
    <3>. HIDE DEF A, V, rank, pred, base, step
    <3>. QED BY <1>4, Zenon DEF Solution
  <2>2. CASE n = 0 BY <2>1, <2>2
  <2>3. CASE n # 0
    <3>1. pred[n] = n - 1 /\ n - 1 \in A BY <2>3
    <3>2. f[n - 1] \in V BY <3>1
    <3>3. step[n][f[n - 1]] = f[n - 1] \o OnlyOf(s[n], c)
      <4>. HIDE DEF A, V
      <4>. QED BY <3>2, <2>3
    <3>. QED BY <2>1, <2>3, <3>1, <3>3
  <2>. QED BY <2>2, <2>3
<1>6. f = Eq(f)
  <2>1. \A n \in A : f[n] = Eq(f)[n] BY <1>5 DEF OnlyOf
  <2>. HIDE DEF A, V
  <2>. QED BY <2>1
<1>. DEFINE g == CHOOSE x : x = Eq(x)
<1>7. g = Eq(g) BY <1>6, Zenon
<1>8. PartOf(s, c) = g[Len(s)] BY Zenon DEF PartOf
<1>9. \A n \in A : g[n] = IF n = 0 THEN <<>> ELSE g[n - 1] \o OnlyOf(s[n], c)
  <2>. HIDE DEF g, A
  <2>. QED BY <1>7 DEF OnlyOf
<1>. HIDE DEF g
<1>10. \A n \in Nat : n \in A => g[n] \in V
  <2>. DEFINE S == {n \in Nat : n \in A => g[n] \in V}
  <2>1. 0 \in S
    <3>1. <<>> \in V /\ 0 \in A OBVIOUS
    <3>. QED BY <3>1, <1>9
  <2>2. ASSUME NEW n \in Nat, n \in S PROVE n + 1 \in S
    <3>. SUFFICES ASSUME n + 1 \in A PROVE g[n + 1] \in V OBVIOUS
    <3>1. n \in A /\ n + 1 # 0 /\ (n + 1) - 1 = n OBVIOUS
    <3>2. s[n + 1] \in T OBVIOUS
    <3>3. OnlyOf(s[n + 1], c) \in Seq(T) BY <3>2 DEF OnlyOf, When
    <3>4. g[n] \in V BY <2>2, <3>1
    <3>5. g[n + 1] = g[n] \o OnlyOf(s[n + 1], c)
      <4>. HIDE DEF A
      <4>. QED BY <3>1, <1>9
    <3>. QED BY <3>3, <3>4, <3>5
  <2>. HIDE DEF S
  <2>3. Nat \subseteq S BY <2>1, <2>2, NatSetInduction
  <2>. QED BY <2>3 DEF S
<1>11. g = [n \in A |-> g[n]]
  <2>1. DOMAIN g = A
    <3>. HIDE DEF A
    <3>. QED BY <1>7
  <2>2. g = [n \in DOMAIN g |-> g[n]] BY <1>7
  <2>. QED BY <2>1, <2>2
<1>12. g \in [A -> V]
  <2>1. \A n \in A : g[n] \in V BY <1>10
  <2>. HIDE DEF A, V
  <2>. QED BY <2>1, <1>11
<1>13. BuildsPart(g, s, c, T)
  <2>1. g[0] = <<>>
    <3>1. 0 \in A OBVIOUS
    <3>. HIDE DEF A
    <3>. QED BY <3>1, <1>9
  <2>2. ASSUME NEW n \in 1 .. Len(s) PROVE g[n] = g[n - 1] \o OnlyOf(s[n], c)
    <3>1. n \in A /\ n # 0 OBVIOUS
    <3>. HIDE DEF A
    <3>. QED BY <3>1, <1>9
  <2>. QED BY <2>1, <2>2, <1>12 DEF BuildsPart
<1>. QED BY <1>8, <1>13

LEMMA PartGrows ==
  ASSUME NEW T, NEW s \in Seq(T), NEW x \in T, NEW c
  PROVE  /\ PartOf(s, c) \in Seq(T) /\ PartOf(<<>>, c) = <<>>
         /\ PartOf(Append(s, x), c) = PartOf(s, c) \o OnlyOf(x, c)
<1>12. Append(s, x) \in Seq(T) OBVIOUS
<1>1. PICK w \in Seq(T) : w = Append(s, x) BY <1>12
<1>2. Len(w) = Len(s) + 1 /\ w[Len(s) + 1] = x /\ (\A n \in 1 .. Len(s) : w[n] = s[n]) /\ Len(s) \in Nat
  BY <1>1
<1>3. PICK f : BuildsPart(f, s, c, T) /\ PartOf(s, c) = f[Len(s)] BY PartIs
<1>4. PICK g : BuildsPart(g, w, c, T) /\ PartOf(w, c) = g[Len(w)] BY PartIs
<1>. DEFINE S == {n \in Nat : n <= Len(s) => g[n] = f[n]}
<1>5. 0 \in S BY <1>3, <1>4 DEF BuildsPart
<1>6. ASSUME NEW n \in Nat, n \in S PROVE n + 1 \in S
  <2>. SUFFICES ASSUME n + 1 <= Len(s) PROVE g[n + 1] = f[n + 1] OBVIOUS
  <2>1. n + 1 \in 1 .. Len(s) /\ n + 1 \in 1 .. Len(w) /\ (n + 1) - 1 = n BY <1>2
  <2>2. g[n] = f[n] BY <1>2, <1>6
  <2>3. g[n + 1] = g[n] \o OnlyOf(w[n + 1], c) BY <2>1, <1>4 DEF BuildsPart
  <2>4. f[n + 1] = f[n] \o OnlyOf(s[n + 1], c) BY <2>1, <1>3 DEF BuildsPart
  <2>. QED BY <2>1, <2>2, <2>3, <2>4, <1>2
<1>. HIDE DEF S
<1>7. Nat \subseteq S BY <1>5, <1>6, NatSetInduction
<1>8. g[Len(s)] = f[Len(s)] BY <1>2, <1>7 DEF S
<1>9. g[Len(w)] = g[Len(s)] \o OnlyOf(x, c)
  <2>1. Len(w) \in 1 .. Len(w) /\ Len(w) - 1 = Len(s) /\ w[Len(w)] = x BY <1>2
  <2>. QED BY <2>1, <1>4 DEF BuildsPart
<1>10. f[Len(s)] \in Seq(T) BY <1>2, <1>3 DEF BuildsPart
<1>11. PartOf(<<>>, c) = <<>>
  <2>4. <<>> \in Seq(T) OBVIOUS
  <2>1. PICK e \in Seq(T) : e = <<>> BY <2>4
  <2>2. PICK k : BuildsPart(k, e, c, T) /\ PartOf(e, c) = k[Len(e)] BY PartIs
  <2>3. Len(e) = 0 BY <2>1
  <2>. QED BY <2>1, <2>2, <2>3 DEF BuildsPart
<1>. QED BY <1>1, <1>3, <1>4, <1>8, <1>9, <1>10, <1>11

-----------------------------------------------------------------------------
(* The call after the last one of a history.                               *)

\* What is left of a program after a call is a program.
LEMMA NextFits ==
  ASSUME NEW p, Programme(p), p # <<>>, NEW v
  PROVE  Programme(NextProgram(p, v))
<1>1. /\ p \in Seq(Seq(AllSteps)) /\ Len(p) \in Nat \ {0} /\ (\A i \in 1 .. Len(p) : p[i] # <<>>)
      /\ \A i \in 1 .. Len(p) : \A k \in 1 .. Len(p[i]) : p[i][k].msg = "EXIT" => i = Len(p) /\ k = Len(p[i])
  <2>1. p \in Seq(Seq(AllSteps)) /\ ExitIsLast(p) /\ (\A i \in DOMAIN p : p[i] # <<>>) BY DEF Programme
  <2>2. DOMAIN p = 1 .. Len(p) /\ Len(p) \in Nat \ {0} BY <2>1
  <2>3. ASSUME NEW i \in 1 .. Len(p) PROVE DOMAIN p[i] = 1 .. Len(p[i])
    <3>1. p[i] \in Seq(AllSteps) BY <2>1, <2>2
    <3>. QED BY <3>1
  <2>4. ASSUME NEW i \in 1 .. Len(p), NEW k \in 1 .. Len(p[i]), p[i][k].msg = "EXIT"
        PROVE  i = Len(p) /\ k = Len(p[i])
    <3>1. i \in DOMAIN p /\ k \in DOMAIN p[i] BY <2>2, <2>3
    <3>. QED BY <3>1, <2>1, <2>4, Zenon DEF ExitIsLast
  <2>5. ASSUME NEW i \in 1 .. Len(p) PROVE p[i] # <<>>
    <3>1. i \in DOMAIN p BY <2>2
    <3>. QED BY <3>1, <2>1, Zenon
  <2>6. \A i \in 1 .. Len(p) : \A k \in 1 .. Len(p[i]) : p[i][k].msg = "EXIT" => i = Len(p) /\ k = Len(p[i])
    BY <2>4, Zenon
  <2>7. \A i \in 1 .. Len(p) : p[i] # <<>> BY <2>5, Zenon
  <2>. QED BY <2>1, <2>2, <2>6, <2>7, Zenon
<1>2. PICK f, r : f = Head(p) /\ r = Tail(p) OBVIOUS
<1>3. /\ f = p[1] /\ f \in Seq(AllSteps) /\ f # <<>> /\ r \in Seq(Seq(AllSteps)) /\ Len(r) = Len(p) - 1
      /\ \A i \in 1 .. Len(r) : r[i] = p[i + 1]
  BY <1>1, <1>2
<1>4. ASSUME NEW q \in Seq(Seq(AllSteps)), \A i \in 1 .. Len(q) : q[i] # <<>>,
             \A i \in 1 .. Len(q) : \A k \in 1 .. Len(q[i]) : q[i][k].msg = "EXIT" => i = Len(q) /\ k = Len(q[i])
      PROVE  Programme(q)
  <2>1. DOMAIN q = 1 .. Len(q) OBVIOUS
  <2>2. \A i \in 1 .. Len(q) : DOMAIN q[i] = 1 .. Len(q[i])
    <3>1. \A i \in 1 .. Len(q) : q[i] \in Seq(AllSteps) BY <2>1
    <3>. QED BY <3>1
  <2>3. ASSUME NEW i \in DOMAIN q, NEW k \in DOMAIN q[i], q[i][k].msg = "EXIT"
        PROVE  i = Len(q) /\ k = Len(q[i])
    <3>1. i \in 1 .. Len(q) /\ k \in 1 .. Len(q[i]) BY <2>1, <2>2
    <3>. QED BY <3>1, <1>4, <2>3, Zenon
  <2>4. ExitIsLast(q) BY <2>3, Zenon DEF ExitIsLast
  <2>5. \A i \in DOMAIN q : q[i] # <<>> BY <1>4, <2>1, Zenon
  <2>. QED BY <1>4, <2>4, <2>5, Zenon DEF Programme
<1>5. CASE Len(f) > 1 /\ (CallerCode(p, v) = "ok" \/ StepOf(p).onfail = "ignore")
  <2>1. PICK x : x = Tail(f) OBVIOUS
  <2>2. x \in Seq(AllSteps) /\ Len(x) = Len(f) - 1 /\ (\A k \in 1 .. Len(x) : x[k] = f[k + 1]) /\ x # <<>>
    <3>1. f \in Seq(AllSteps) /\ f # <<>> /\ Len(f) > 1 /\ Len(f) \in Nat BY <1>3, <1>5
    <3>2. x \in Seq(AllSteps) /\ Len(x) = Len(f) - 1 BY <3>1, <2>1
    <3>3. \A k \in 1 .. Len(x) : x[k] = f[k + 1] BY <3>1, <2>1
    <3>4. x # <<>> BY <3>1, <3>2
    <3>. QED BY <3>2, <3>3, <3>4
  <2>3. PICK q : q = <<x>> \o r OBVIOUS
  <2>4. NextProgram(p, v) = q BY <1>2, <1>5, <2>1, <2>3 DEF NextProgram, When
  <2>5. /\ q \in Seq(Seq(AllSteps)) /\ Len(q) = Len(p) /\ q[1] = x
        /\ \A i \in 1 .. Len(r) : q[i + 1] = r[i]
    BY <1>1, <1>3, <2>2, <2>3
  <2>6. \A i \in 2 .. Len(q) : q[i] = p[i]
    <3>. SUFFICES ASSUME NEW i \in 2 .. Len(q) PROVE q[i] = p[i] OBVIOUS
    <3>1. i - 1 \in 1 .. Len(r) /\ (i - 1) + 1 = i BY <1>1, <1>3, <2>5
    <3>2. q[(i - 1) + 1] = r[i - 1] /\ r[i - 1] = p[(i - 1) + 1] BY <3>1, <2>5, <1>3
    <3>. QED BY <3>1, <3>2
  <2>7. \A i \in 1 .. Len(q) : i = 1 \/ i \in 2 .. Len(q) BY <1>1, <2>5
  <2>8. \A i \in 1 .. Len(q) : q[i] # <<>> BY <2>2, <2>5, <2>6, <2>7, <1>1
  <2>9. ASSUME NEW i \in 1 .. Len(q), NEW k \in 1 .. Len(q[i]), q[i][k].msg = "EXIT"
        PROVE  i = Len(q) /\ k = Len(q[i])
    <3>1. CASE i = 1
      <4>1. k \in 1 .. Len(x) /\ x[k].msg = "EXIT" BY <3>1, <2>5, <2>9
      <4>2. Len(f) \in Nat /\ Len(x) \in Nat /\ k + 1 \in 1 .. Len(f) BY <4>1, <1>3, <2>2
      <4>3. 1 \in 1 .. Len(p) BY <1>1
      <4>4. p[1][k + 1].msg = "EXIT" BY <4>1, <1>3, <2>2
      <4>5. 1 = Len(p) /\ k + 1 = Len(p[1]) BY <4>2, <4>3, <4>4, <1>1, <1>3
      <4>. QED BY <4>1, <4>2, <4>5, <3>1, <1>3, <2>2, <2>5
    <3>2. CASE i \in 2 .. Len(q) BY <3>2, <2>5, <2>6, <2>9, <1>1
    <3>. QED BY <3>1, <3>2, <2>7
  <2>. QED BY <2>4, <2>5, <2>8, <2>9, <1>4
<1>6. CASE ~(Len(f) > 1 /\ (CallerCode(p, v) = "ok" \/ StepOf(p).onfail = "ignore"))
  <2>1. NextProgram(p, v) = <<>> \o r BY <1>2, <1>6 DEF NextProgram, When
  <2>2. NextProgram(p, v) = r BY <2>1, <1>3
  <2>3. \A i \in 1 .. Len(r) : i + 1 \in 1 .. Len(p) /\ r[i] = p[i + 1]
    <3>1. Len(p) \in Nat \ {0} /\ Len(r) = Len(p) - 1 BY <1>1, <1>3
    <3>2. \A i \in 1 .. Len(r) : i + 1 \in 1 .. Len(p) BY <3>1
    <3>. QED BY <3>2, <1>3
  <2>4. ASSUME NEW i \in 1 .. Len(r), NEW k \in 1 .. Len(r[i]), r[i][k].msg = "EXIT"
        PROVE  i = Len(r) /\ k = Len(r[i])
    <3>1. i + 1 = Len(p) /\ k = Len(p[i + 1]) BY <2>3, <2>4, <1>1
    <3>. QED BY <3>1, <2>3, <1>1, <1>3
  <2>5. \A i \in 1 .. Len(r) : r[i] # <<>> BY <2>3, <1>1
  <2>. QED BY <2>2, <2>4, <2>5, <1>3, <1>4
<1>. QED BY <1>5, <1>6

\* Histories that say the same of a task put it at the same place.
LEMMA PlacedAlike ==
  ASSUME NEW h, NEW g, Measured(h), Measured(g), NEW c \in Components, NEW u \in Tasks,
         PlacedAt(h, u, c), SameFor(h, g, u, c)
  PROVE  PlacedAt(g, u, c)
<1>1. PICK n : n = h.num[u][c] OBVIOUS
<1>. DEFINE p == h.prog[c][n]
<1>2. /\ g.num[u][c] = n /\ h.last[c] <= g.last[c] /\ h.last[c] \in Nat /\ g.last[c] \in Nat
      /\ g.prog[c][n] = p /\ g.hand[c][n] = h.hand[c][n]
      /\ g.sp[c][n] = h.sp[c][n] /\ g.st[c][n] = h.st[c][n]
      /\ g.pos[my_comm(c)][u] = h.pos[my_comm(c)][u] /\ g.pos[intercomm(c)][u] = h.pos[intercomm(c)][u]
      /\ g.cd[c][n] = h.cd[c][n] \/ (h.cd[c][n] = "unknown" /\ u # ioroot)
  BY <1>1, Numbers DEF SameFor
<1>3. n \in 0 .. h.last[c] /\ eh[u][c] = h.hand[c][n] BY <1>1 DEF PlacedAt
<1>4. g.num[u][c] \in 0 .. g.last[c] /\ eh[u][c] = g.hand[c][g.num[u][c]]
  <2>1. n \in 0 .. g.last[c] BY <1>2, <1>3
  <2>. QED BY <2>1, <1>2, <1>3
<1>5. ~Busy(u, c) => AtRest(g, u, c)
  BY <1>1, <1>2 DEF PlacedAt, AtRest
<1>6. ASSUME Busy(u, c)
      PROVE  Makes(u, g.prog[c][g.num[u][c]]) /\ \E k \in Nat : InScript(g, u, c, k)
  <2>1. Makes(u, p) BY <1>1, <1>6 DEF PlacedAt
  <2>2. PICK k \in Nat : InScript(h, u, c, k) BY <1>6 DEF PlacedAt
  <2>3. InCallAt(h, u, c, n, p, k) BY <2>2, <1>1 DEF InScript
  <2>4. Abreast(g, u, c, n, k)
    <3>1. Abreast(h, u, c, n, k) BY <2>3 DEF InCallAt
    <3>. HIDE DEF p
    <3>. QED BY <3>1, <1>2 DEF Abreast, p
  <2>5. Informed(u, p, g.cd[c][n])
    <3>1. Informed(u, p, h.cd[c][n]) BY <2>3 DEF InCallAt
    <3>. HIDE DEF p
    <3>. QED BY <3>1, <1>2 DEF Informed
  <2>6. InCallAt(g, u, c, n, p, k)
    <3>. HIDE DEF p
    <3>. QED BY <2>3, <2>4, <2>5, <1>2 DEF InCallAt
  <2>7. InScript(g, u, c, k) BY <2>6, <1>2 DEF InScript
  <2>. QED BY <2>1, <2>2, <2>7, <1>2
<1>. QED BY <1>4, <1>5, <1>6 DEF PlacedAt

\* Up to its last call a history is that of h.
SameUpTo(h, g) ==
  /\ g.log = h.log /\ g.pos = h.pos /\ g.low = h.low /\ g.loop = h.loop /\ g.num = h.num
  /\ \A d \in Components : \A m \in 0 .. h.last[d] :
       /\ g.prog[d][m] = h.prog[d][m] /\ g.cd[d][m] = h.cd[d][m] /\ g.hand[d][m] = h.hand[d][m]
       /\ g.sp[d][m] = h.sp[d][m] /\ g.st[d][m] = h.st[d][m]

\* g has one more call of component c, which follows n, the last of h.
Longer(h, g, c, n) ==
  /\ SameUpTo(h, g) /\ Measured(g)
  /\ \A d \in Components : g.last[d] = IF d = c THEN n + 1 ELSE h.last[d]
  /\ g.prog[c][n + 1] = NextProgram(h.prog[c][n], h.cd[c][n])
  /\ g.hand[c][n + 1] = NextHand(h.prog[c][n], h.hand[c][n])
  /\ g.cd[c][n + 1] = "unknown"
  /\ g.sp[c][n + 1] = EndOfParams(h, c, n) /\ g.st[c][n + 1] = EndOfCall(h, c, n)

Added(f, c, n, v) ==
  [d \in Components |-> [m \in Nat |-> IF d = c /\ m = n + 1 THEN v ELSE f[d][m]]]

IsAdded(w, f, c, n, v) ==
  /\ w[c][n + 1] = v
  /\ \A d \in Components : \A m \in Nat : d # c \/ m # n + 1 => w[d][m] = f[d][m]

LEMMA AddedIs ==
  ASSUME NEW f, NEW c \in Components, NEW n \in Nat, NEW v
  PROVE  /\ IsAdded(Added(f, c, n, v), f, c, n, v)
         /\ v \in Nat /\ f \in [Components -> [Nat -> Nat]] => Added(f, c, n, v) \in [Components -> [Nat -> Nat]]
<1>1. n + 1 \in Nat OBVIOUS
<1>2. ASSUME v \in Nat, f \in [Components -> [Nat -> Nat]] PROVE Added(f, c, n, v) \in [Components -> [Nat -> Nat]]
  <2>1. \A d \in Components : [m \in Nat |-> IF d = c /\ m = n + 1 THEN v ELSE f[d][m]] \in [Nat -> Nat] BY <1>2
  <2>. QED BY <2>1 DEF Added
<1>. QED BY <1>1, <1>2 DEF Added, IsAdded

LEMMA OneMoreCall ==
  ASSUME ProgramsFit, NEW h, Measured(h), Calls(h), NEW c \in Components, NEW n, n = h.last[c], IsCall(h, c, n)
  PROVE  \E g : Longer(h, g, c, n)
<1>1. n \in Nat /\ EndOfParams(h, c, n) \in Nat /\ EndOfCall(h, c, n) \in Nat BY CallIs, EndsAre
<1>2. PICK v, e, x, y : /\ v = NextProgram(h.prog[c][n], h.cd[c][n]) /\ e = NextHand(h.prog[c][n], h.hand[c][n])
                        /\ x = EndOfParams(h, c, n) /\ y = EndOfCall(h, c, n)
  OBVIOUS
<1>3. PICK prog, cd, hand, sp, st :
        /\ prog = Added(h.prog, c, n, v) /\ cd = Added(h.cd, c, n, "unknown") /\ hand = Added(h.hand, c, n, e)
        /\ sp = Added(h.sp, c, n, x) /\ st = Added(h.st, c, n, y)
  OBVIOUS
<1>4. PICK last : last = [d \in Components |-> IF d = c THEN n + 1 ELSE h.last[d]] OBVIOUS
<1>5. PICK g : g = [log |-> h.log, pos |-> h.pos, low |-> h.low, cd |-> cd, loop |-> h.loop, prog |-> prog,
                    hand |-> hand, sp |-> sp, st |-> st, last |-> last, num |-> h.num]
  OBVIOUS
<1>6. /\ g.log = h.log /\ g.pos = h.pos /\ g.low = h.low /\ g.loop = h.loop /\ g.num = h.num
      /\ g.prog = prog /\ g.cd = cd /\ g.hand = hand /\ g.sp = sp /\ g.st = st /\ g.last = last
  BY <1>5
<1>7. /\ h.low \in [Comms -> Nat] /\ h.pos \in [Comms -> [Tasks -> Nat]]
      /\ h.sp \in [Components -> [Nat -> Nat]] /\ h.st \in [Components -> [Nat -> Nat]]
      /\ h.last \in [Components -> Nat] /\ h.num \in [Tasks -> [Components -> Nat]]
  BY DEF Measured
<1>16. /\ IsAdded(prog, h.prog, c, n, v) /\ IsAdded(cd, h.cd, c, n, "unknown") /\ IsAdded(hand, h.hand, c, n, e)
       /\ IsAdded(sp, h.sp, c, n, x) /\ IsAdded(st, h.st, c, n, y)
  BY <1>1, <1>3, AddedIs
<1>8. /\ prog[c][n + 1] = v /\ cd[c][n + 1] = "unknown" /\ hand[c][n + 1] = e /\ sp[c][n + 1] = x /\ st[c][n + 1] = y
  BY <1>16 DEF IsAdded
<1>9. sp \in [Components -> [Nat -> Nat]] /\ st \in [Components -> [Nat -> Nat]]
  <2>1. x \in Nat /\ y \in Nat BY <1>1, <1>2
  <2>. QED BY <2>1, <1>1, <1>3, <1>7, AddedIs
<1>10. last \in [Components -> Nat] BY <1>1, <1>4, <1>7
<1>11. Measured(g) BY <1>6, <1>7, <1>9, <1>10 DEF Measured
<1>12. ASSUME NEW d \in Components, NEW m \in 0 .. h.last[d]
       PROVE  /\ prog[d][m] = h.prog[d][m] /\ cd[d][m] = h.cd[d][m] /\ hand[d][m] = h.hand[d][m]
              /\ sp[d][m] = h.sp[d][m] /\ st[d][m] = h.st[d][m]
  <2>1. m \in Nat /\ (d # c \/ m # n + 1) BY <1>1, <1>7
  <2>. QED BY <2>1, <1>16 DEF IsAdded
<1>13. SameUpTo(h, g) BY <1>6, <1>12 DEF SameUpTo
<1>14. \A d \in Components : g.last[d] = IF d = c THEN n + 1 ELSE h.last[d] BY <1>4, <1>6
<1>15. Longer(h, g, c, n) BY <1>2, <1>6, <1>8, <1>11, <1>13, <1>14 DEF Longer
<1>. QED BY <1>15

LEMMA SameEnds ==
  ASSUME NEW h, NEW g, SameUpTo(h, g), NEW d \in Components, NEW m \in 0 .. h.last[d]
  PROVE  /\ FullScript(g, d, m) = FullScript(h, d, m)
         /\ EndOfParams(g, d, m) = EndOfParams(h, d, m) /\ EndOfCall(g, d, m) = EndOfCall(h, d, m)
         /\ \A k : Place(g, d, m, k) = Place(h, d, m, k)
<1>1. /\ g.prog[d][m] = h.prog[d][m] /\ g.cd[d][m] = h.cd[d][m] /\ g.hand[d][m] = h.hand[d][m]
      /\ g.sp[d][m] = h.sp[d][m] /\ g.st[d][m] = h.st[d][m]
  BY DEF SameUpTo
<1>2. FullScript(g, d, m) = FullScript(h, d, m) BY <1>1 DEF FullScript
<1>. QED BY <1>1, <1>2 DEF EndOfParams, EndOfCall, Place

LEMMA LongerCalls ==
  ASSUME ProgramsFit, NEW h, Measured(h), Calls(h), NEW c \in Components, NEW n, n = h.last[c], IsCall(h, c, n),
         Shared(h.prog[c][n]) => h.cd[c][n] # "unknown", NEW g, Longer(h, g, c, n)
  PROVE  Calls(g)
<1>1. /\ SameUpTo(h, g) /\ n \in Nat /\ \A d \in Components : h.last[d] \in Nat
      /\ \A d \in Components : g.last[d] = IF d = c THEN n + 1 ELSE h.last[d]
  BY CallIs, Numbers DEF Longer
<1>2. PICK p, q, e, v : p = h.prog[c][n] /\ q = g.prog[c][n + 1] /\ e = h.hand[c][n] /\ v = h.cd[c][n] OBVIOUS
<1>3. /\ q = NextProgram(p, v) /\ g.hand[c][n + 1] = NextHand(p, e) /\ g.cd[c][n + 1] = "unknown"
      /\ g.sp[c][n + 1] = EndOfParams(h, c, n) /\ g.st[c][n + 1] = EndOfCall(h, c, n)
  BY <1>2 DEF Longer
<1>4. p # <<>> /\ Programme(p) /\ e \in {"bcast", "return"} BY <1>2, CallIs DEF IsCall
<1>5. Programme(q) BY <1>3, <1>4, NextFits
<1>6. NextHand(p, e) \in {"bcast", "return"} BY <1>4 DEF NextHand, Method
<1>7. \A d \in Components : \A m \in 0 .. g.last[d] : m \in 0 .. h.last[d] \/ (d = c /\ m = n + 1)
  BY <1>1
<1>8. ASSUME NEW d \in Components, NEW m \in 0 .. h.last[d]
      PROVE  /\ g.prog[d][m] = h.prog[d][m] /\ g.cd[d][m] = h.cd[d][m] /\ g.hand[d][m] = h.hand[d][m]
             /\ g.sp[d][m] = h.sp[d][m] /\ g.st[d][m] = h.st[d][m]
             /\ EndOfParams(g, d, m) = EndOfParams(h, d, m) /\ EndOfCall(g, d, m) = EndOfCall(h, d, m)
  <2>1. EndOfParams(g, d, m) = EndOfParams(h, d, m) /\ EndOfCall(g, d, m) = EndOfCall(h, d, m)
    BY <1>1, SameEnds
  <2>. QED BY <2>1, <1>1 DEF SameUpTo
<1>9. ASSUME NEW d \in Components, NEW m \in 0 .. g.last[d]
      PROVE  /\ Programme(g.prog[d][m])
             /\ g.hand[d][m] \in {"bcast", "return"}
             /\ g.cd[d][m] \in Codes \cup {"unknown"}
             /\ g.prog[d][m] # <<>> =>
                   /\ g.cd[d][m] # "unknown" => Shared(g.prog[d][m])
                   /\ g.cd[d][m] = "failed" => StepOf(g.prog[d][m]).msg \in Failing[g.hand[d][m]]
  <2>1. CASE m \in 0 .. h.last[d] BY <2>1, <1>8 DEF Calls
  <2>2. CASE d = c /\ m = n + 1
    <3>1. g.prog[d][m] = q /\ g.cd[d][m] = "unknown" /\ g.hand[d][m] = NextHand(p, e) BY <2>2, <1>2, <1>3
    <3>. QED BY <3>1, <1>5, <1>6
  <2>. QED BY <2>1, <2>2, <1>7
<1>10. ASSUME NEW d \in Components, NEW m \in 0 .. g.last[d] - 1
       PROVE  m \in 0 .. h.last[d] /\ ((m \in 0 .. h.last[d] - 1 /\ m + 1 \in 0 .. h.last[d]) \/ (d = c /\ m = n))
  BY <1>1
<1>11. ASSUME NEW d \in Components, NEW m \in 0 .. g.last[d] - 1
       PROVE  /\ g.prog[d][m] # <<>>
              /\ Shared(g.prog[d][m]) => g.cd[d][m] # "unknown"
              /\ g.prog[d][m + 1] = NextProgram(g.prog[d][m], g.cd[d][m])
              /\ g.hand[d][m + 1] = NextHand(g.prog[d][m], g.hand[d][m])
              /\ EndOfParams(g, d, m) = g.sp[d][m + 1] /\ EndOfCall(g, d, m) = g.st[d][m + 1]
  <2>1. m \in 0 .. h.last[d] BY <1>10
  <2>2. CASE m \in 0 .. h.last[d] - 1 /\ m + 1 \in 0 .. h.last[d]
    <3>1. /\ h.prog[d][m] # <<>>
          /\ Shared(h.prog[d][m]) => h.cd[d][m] # "unknown"
          /\ h.prog[d][m + 1] = NextProgram(h.prog[d][m], h.cd[d][m])
          /\ h.hand[d][m + 1] = NextHand(h.prog[d][m], h.hand[d][m])
          /\ EndOfParams(h, d, m) = h.sp[d][m + 1] /\ EndOfCall(h, d, m) = h.st[d][m + 1]
      BY <2>2 DEF Calls
    <3>2. g.prog[d][m + 1] = h.prog[d][m + 1] /\ g.hand[d][m + 1] = h.hand[d][m + 1]
          /\ g.sp[d][m + 1] = h.sp[d][m + 1] /\ g.st[d][m + 1] = h.st[d][m + 1]
      BY <2>2, <1>8
    <3>3. /\ g.prog[d][m] = h.prog[d][m] /\ g.cd[d][m] = h.cd[d][m] /\ g.hand[d][m] = h.hand[d][m]
          /\ EndOfParams(g, d, m) = EndOfParams(h, d, m) /\ EndOfCall(g, d, m) = EndOfCall(h, d, m)
      BY <2>1, <1>8
    <3>. QED BY <3>1, <3>2, <3>3
  <2>3. CASE d = c /\ m = n
    <3>1. /\ g.prog[c][n] = p /\ g.cd[c][n] = v /\ g.hand[c][n] = e
          /\ EndOfParams(g, c, n) = EndOfParams(h, c, n) /\ EndOfCall(g, c, n) = EndOfCall(h, c, n)
      BY <2>1, <2>3, <1>2, <1>8
    <3>2. /\ g.prog[d][m] = p /\ g.cd[d][m] = v /\ g.hand[d][m] = e
          /\ g.prog[d][m + 1] = NextProgram(p, v) /\ g.hand[d][m + 1] = NextHand(p, e)
      BY <3>1, <2>3, <1>2, <1>3
    <3>3. EndOfParams(g, d, m) = g.sp[d][m + 1] /\ EndOfCall(g, d, m) = g.st[d][m + 1]
      BY <3>1, <2>3, <1>3
    <3>4. p # <<>> /\ (Shared(p) => v # "unknown") BY <1>2, <1>4
    <3>. QED BY <3>2, <3>3, <3>4
  <2>. QED BY <2>2, <2>3, <1>10
<1>12. ASSUME NEW d \in Components, NEW j \in 0 .. g.last[d], NEW m \in 0 .. j - 1
       PROVE  EndOfParams(g, d, m) <= g.sp[d][j] /\ EndOfCall(g, d, m) <= g.st[d][j]
  <2>1. CASE j \in 0 .. h.last[d]
    <3>1. EndOfParams(h, d, m) <= h.sp[d][j] /\ EndOfCall(h, d, m) <= h.st[d][j] BY <2>1 DEF Calls
    <3>2. m \in 0 .. h.last[d] BY <2>1, <1>1
    <3>. QED BY <3>1, <3>2, <2>1, <1>8
  <2>2. CASE d = c /\ j = n + 1
    <3>1. m \in 0 .. h.last[c] /\ (m = n \/ m \in 0 .. n - 1) /\ n \in 0 .. h.last[c] BY <2>2, <1>1
    <3>2. EndOfParams(g, c, m) = EndOfParams(h, c, m) /\ EndOfCall(g, c, m) = EndOfCall(h, c, m) BY <3>1, <1>8
    <3>3. EndOfParams(h, c, n) \in Nat /\ EndOfCall(h, c, n) \in Nat /\ h.sp[c][n] \in Nat /\ h.st[c][n] \in Nat
          /\ h.sp[c][n] <= EndOfParams(h, c, n) /\ h.st[c][n] < EndOfCall(h, c, n)
      BY EndsAre, CallIs
    <3>4. EndOfParams(h, c, m) <= EndOfParams(h, c, n) /\ EndOfCall(h, c, m) <= EndOfCall(h, c, n)
      <4>1. CASE m = n BY <4>1, <3>3
      <4>2. CASE m \in 0 .. n - 1
        <5>1. EndOfParams(h, c, m) <= h.sp[c][n] /\ EndOfCall(h, c, m) <= h.st[c][n] BY <4>2, <3>1 DEF Calls
        <5>2. h.prog[c][m] # <<>> BY <4>2, <1>1 DEF Calls
        <5>3. IsCall(h, c, m) BY <5>2, <3>1 DEF IsCall
        <5>4. EndOfParams(h, c, m) \in Nat /\ EndOfCall(h, c, m) \in Nat BY <5>3, EndsAre
        <5>. QED BY <5>1, <5>4, <3>3
      <4>. QED BY <4>1, <4>2, <3>1
    <3>. QED BY <3>2, <3>4, <2>2, <1>3
  <2>. QED BY <2>1, <2>2, <1>7
<1>. QED BY <1>9, <1>11, <1>12 DEF Calls

\* The state follows from the longer history as well.
LEMMA LongerFollows ==
  ASSUME ProgramsFit, Shape, NEW h, Follows(h), NEW c \in Components, NEW n, n = h.last[c], IsCall(h, c, n),
         Shared(h.prog[c][n]) => h.cd[c][n] # "unknown", NEW g, Longer(h, g, c, n)
  PROVE  Follows(g)
<1>1. /\ Measured(h) /\ Calls(h) /\ Logged(h) /\ Recorded(h) /\ Ahead(h) /\ Placed(h) /\ Undecided(h)
      /\ Calling(h) /\ Looped(h) /\ Serving(h) /\ Carried(h) /\ Remembered(h)
  BY DEF Follows
<1>2. /\ SameUpTo(h, g) /\ Measured(g) /\ n \in Nat /\ \A d \in Components : h.last[d] \in Nat
      /\ \A d \in Components : g.last[d] = IF d = c THEN n + 1 ELSE h.last[d]
      /\ g.cd[c][n + 1] = "unknown"
      /\ g.sp[c][n + 1] = EndOfParams(h, c, n) /\ g.st[c][n + 1] = EndOfCall(h, c, n)
  BY <1>1, CallIs, Numbers DEF Longer
<1>3. g.log = h.log /\ g.pos = h.pos /\ g.low = h.low /\ g.loop = h.loop /\ g.num = h.num
  BY <1>2 DEF SameUpTo
<1>4. ASSUME NEW d \in Components, NEW m \in 0 .. h.last[d]
      PROVE  /\ g.prog[d][m] = h.prog[d][m] /\ g.cd[d][m] = h.cd[d][m] /\ g.hand[d][m] = h.hand[d][m]
             /\ g.sp[d][m] = h.sp[d][m] /\ g.st[d][m] = h.st[d][m]
  BY <1>2 DEF SameUpTo
<1>5. Calls(g) BY <1>1, LongerCalls
<1>6. \A d \in Components : \A m \in 0 .. g.last[d] : m \in 0 .. h.last[d] \/ (d = c /\ m = n + 1)
  BY <1>2
<1>7. \A comm : Top(g, comm) = Top(h, comm) BY <1>3 DEF Top
<1>8. \A comm \in Comms : Top(h, comm) \in Nat BY <1>1, Numbers
<1>9. Logged(g) BY <1>1, <1>3 DEF Logged
<1>10. EndOfParams(h, c, n) \in Nat /\ EndOfCall(h, c, n) \in Nat BY <1>1, EndsAre
<1>11. Top(h, intercomm(c)) <= EndOfParams(h, c, n) /\ Top(h, my_comm(c)) <= EndOfCall(h, c, n)
  BY <1>1 DEF Ahead, IsCall
<1>12. intercomm(c) \in Comms /\ my_comm(c) \in Comms BY CommsApart
<1>13. Recorded(g)
  <2>. SUFFICES ASSUME NEW d \in Components, NEW m \in 0 .. g.last[d], g.prog[d][m] # <<>>,
                       NEW k \in 1 .. Len(FullScript(g, d, m)), NEW b, b = FullScript(g, d, m)[k],
                       Place(g, d, m, k) <= Top(g, b.on)
                PROVE  IsEntry(g.log[b.on][Place(g, d, m, k)], b, g.cd[d][m])
    BY DEF Recorded
  <2>1. CASE m \in 0 .. h.last[d]
    <3>1. FullScript(g, d, m) = FullScript(h, d, m) /\ Place(g, d, m, k) = Place(h, d, m, k)
          /\ g.prog[d][m] = h.prog[d][m] /\ g.cd[d][m] = h.cd[d][m]
      BY <2>1, <1>2, <1>4, SameEnds
    <3>. QED BY <3>1, <2>1, <1>1, <1>3, <1>7 DEF Recorded
  <2>2. CASE d = c /\ m = n + 1
    <3>1. IsCall(g, d, m) BY DEF IsCall
    <3>2. /\ Place(g, d, m, k) \in Nat /\ b.on \in {intercomm(c), my_comm(c)}
          /\ b.on = intercomm(c) => g.sp[d][m] < Place(g, d, m, k)
          /\ b.on = my_comm(c) => g.st[d][m] < Place(g, d, m, k)
      BY <3>1, <2>2, <1>2, <1>5, EndsAre
    <3>3. g.sp[d][m] = EndOfParams(h, c, n) /\ g.st[d][m] = EndOfCall(h, c, n) BY <2>2, <1>2
    <3>. QED BY <3>2, <3>3, <1>7, <1>8, <1>10, <1>11, <1>12
  <2>. QED BY <2>1, <2>2, <1>6
<1>14. Ahead(g)
  <2>. SUFFICES ASSUME NEW d \in Components, NEW m, m = g.last[d]
                PROVE  IF g.prog[d][m] = <<>>
                       THEN Top(g, intercomm(d)) <= g.sp[d][m] /\ Top(g, my_comm(d)) <= g.st[d][m]
                       ELSE Top(g, intercomm(d)) <= EndOfParams(g, d, m) /\ Top(g, my_comm(d)) <= EndOfCall(g, d, m)
    BY DEF Ahead
  <2>1. CASE d # c
    <3>1. m = h.last[d] /\ m \in 0 .. h.last[d] BY <2>1, <1>2
    <3>2. g.prog[d][m] = h.prog[d][m] /\ g.sp[d][m] = h.sp[d][m] /\ g.st[d][m] = h.st[d][m] BY <3>1, <1>4
    <3>3. EndOfParams(g, d, m) = EndOfParams(h, d, m) /\ EndOfCall(g, d, m) = EndOfCall(h, d, m)
      BY <3>1, <1>2, SameEnds
    <3>4. IF h.prog[d][m] = <<>>
          THEN Top(h, intercomm(d)) <= h.sp[d][m] /\ Top(h, my_comm(d)) <= h.st[d][m]
          ELSE Top(h, intercomm(d)) <= EndOfParams(h, d, m) /\ Top(h, my_comm(d)) <= EndOfCall(h, d, m)
      BY <3>1, <1>1 DEF Ahead
    <3>. QED BY <3>2, <3>3, <3>4, <1>7
  <2>2. CASE d = c
    <3>1. m = n + 1 /\ g.sp[d][m] = EndOfParams(h, c, n) /\ g.st[d][m] = EndOfCall(h, c, n) BY <2>2, <1>2
    <3>2. Top(g, intercomm(d)) <= g.sp[d][m] /\ Top(g, my_comm(d)) <= g.st[d][m] BY <3>1, <2>2, <1>7, <1>11
    <3>3. ASSUME g.prog[d][m] # <<>>
          PROVE  /\ Top(g, intercomm(d)) <= EndOfParams(g, d, m) /\ Top(g, my_comm(d)) <= EndOfCall(g, d, m)
      <4>1. m \in 0 .. g.last[d] BY <3>1, <2>2, <1>2
      <4>2. IsCall(g, d, m) BY <4>1, <3>3 DEF IsCall
      <4>3. EndOfParams(g, d, m) \in Nat /\ EndOfCall(g, d, m) \in Nat
            /\ g.sp[d][m] <= EndOfParams(g, d, m) /\ g.st[d][m] < EndOfCall(g, d, m)
        BY <4>2, <1>2, <1>5, EndsAre
      <4>4. Top(g, intercomm(d)) \in Nat /\ Top(g, my_comm(d)) \in Nat BY <2>2, <1>7, <1>8, <1>12
      <4>5. g.sp[d][m] \in Nat /\ g.st[d][m] \in Nat BY <3>1, <1>10
      <4>. QED BY <4>3, <4>4, <4>5, <3>2
    <3>. QED BY <3>2, <3>3
  <2>. QED BY <2>1, <2>2
<1>15. ASSUME NEW d \in Components, NEW u \in Members(my_comm(d))
       PROVE  u \in Tasks /\ PlacedAt(h, u, d) /\ h.num[u][d] \in 0 .. h.last[d]
  <2>1. u \in Tasks /\ PlacedAt(h, u, d) BY <1>1, MembersAreTasks, CommsApart DEF Placed
  <2>. QED BY <2>1 DEF PlacedAt
<1>16. Placed(g)
  <2>. SUFFICES ASSUME NEW d \in Components, NEW u \in Members(my_comm(d)) PROVE PlacedAt(g, u, d)
    BY DEF Placed
  <2>1. u \in Tasks /\ PlacedAt(h, u, d) /\ h.num[u][d] \in 0 .. h.last[d] BY <1>15
  <2>2. PICK m : m = h.num[u][d] OBVIOUS
  <2>3. h.last[d] <= g.last[d] BY <1>2
  <2>4. SameFor(h, g, u, d) BY <2>1, <2>2, <2>3, <1>3, <1>4 DEF SameFor
  <2>. QED BY <2>1, <2>4, <1>1, <1>2, PlacedAlike
<1>17. Undecided(g)
  <2>. SUFFICES ASSUME NEW d \in Components, NEW m \in 0 .. g.last[d],
                       h.num[ioroot][d] < m \/ (h.num[ioroot][d] = m /\ ~Busy(ioroot, d))
                PROVE  g.cd[d][m] = "unknown"
    BY <1>3 DEF Undecided
  <2>1. CASE m \in 0 .. h.last[d] BY <2>1, <1>1, <1>4 DEF Undecided
  <2>2. CASE d = c /\ m = n + 1 BY <2>2, <1>2
  <2>. QED BY <2>1, <2>2, <1>6
<1>18. Calling(g)
  <2>. SUFFICES ASSUME NEW d \in Components, NEW u \in CompTasks(d) PROVE CallingAt(g, u, d)
    BY DEF Calling
  <2>1. CallingAt(h, u, d) /\ h.num[u][d] \in 0 .. h.last[d] BY <1>1, <1>15, MembersOf DEF Calling
  <2>. QED BY <2>1, <1>3, <1>4 DEF CallingAt
<1>19. Looped(g)
  <2>1. PICK top : top = Top(h, io_comm) OBVIOUS
  <2>2. top \in Nat /\ Top(g, io_comm) = top BY <2>1, <1>7, <1>8, CommsApart
  <2>3. h.loop[0] = LoopStart /\ (\A i \in 0 .. top : Sound(h.loop[i])) BY <2>1, <1>1 DEF Looped
  <2>4. \A i, j \in 0 .. top : i <= j => Begins(h.loop[i].served, h.loop[j].served)
    BY <2>1, <1>1 DEF Looped
  <2>5. ASSUME NEW i \in 0 .. top - 1 PROVE LoopStep(g, h.loop[i], h.log[io_comm][i + 1], h.loop[i + 1])
    <3>1. PICK x, e, y : x = h.loop[i] /\ e = h.log[io_comm][i + 1] /\ y = h.loop[i + 1] OBVIOUS
    <3>2. LoopStep(h, x, e, y) BY <2>1, <3>1, <1>1 DEF Looped
    <3>3. i \in 0 .. top BY <2>2
    <3>4. Sound(x) BY <3>1, <3>3, <2>3
    <3>5. PICK d, m : d = x.comp /\ m = x.num[d] OBVIOUS
    <3>6. x.at = "msg" => d \in Components BY <3>4, <3>5 DEF Sound
    <3>7. ASSUME d \in Components, m \in 0 .. h.last[d]
          PROVE  m \in 0 .. g.last[d] /\ g.prog[d][m] = h.prog[d][m]
      BY <3>7, <1>2, <1>4
    <3>8. LoopStep(g, x, e, y) BY <3>2, <3>5, <3>6, <3>7 DEF LoopStep
    <3>. QED BY <3>1, <3>8
  <2>. QED BY <2>2, <2>3, <2>4, <2>5, <1>3 DEF Looped
<1>20. \A u : Reached(g, u) = Reached(h, u) BY <1>3 DEF Reached
<1>21. Serving(g)
  <2>. SUFFICES ASSUME NEW u \in IOTasks PROVE ServingAt(g, u)
    BY DEF Serving
  <2>1. ServingAt(h, u) BY <1>1 DEF Serving
  <2>2. PICK s, d : s = Reached(h, u) /\ d = doing[u].comp OBVIOUS
  <2>3. CASE IsIdle(u) BY <2>1, <2>3, <1>3, <1>20 DEF ServingAt
  <2>4. CASE ~IsIdle(u)
    <3>1. InHandler(h, u, s, d) BY <2>1, <2>2, <2>4 DEF ServingAt
    <3>2. InHandler(g, u, s, d) BY <3>1, <1>3 DEF InHandler
    <3>. QED BY <3>2, <2>2, <2>4, <1>20 DEF ServingAt
  <2>. QED BY <2>3, <2>4
<1>22. Carried(g)
  <2>. SUFFICES ASSUME NEW d \in Components, NEW m, m = h.num[ioroot][d] PROVE CarriedAt(g, d, m)
    BY <1>3 DEF Carried
  <2>1. CarriedAt(h, d, m) BY <1>1 DEF Carried
  <2>2. m \in 0 .. h.last[d] /\ h.last[d] \in Nat BY <1>2, <1>15, MembersOf, TasksApart
  <2>3. Begun(g, d) = Begun(h, d) BY <1>3 DEF Begun
  <2>4. Begun(h, d) \in Nat /\ \A i \in 0 .. Begun(h, d) - 1 : i \in 0 .. h.last[d]
    <3>1. h.num[comproot(d)][d] \in 0 .. h.last[d] BY <1>15, MembersOf, TasksApart
    <3>. QED BY <3>1, <1>2 DEF Begun
  <2>5. ASSUME NEW x \in Nat, OnTheWay(h, d, x) PROVE OnTheWay(g, d, x)
    <3>1. Len(inbox[d]) = Begun(h, d) - x /\ \A i \in 1 .. Len(inbox[d]) : inbox[d][i] = CallMessage(h.prog[d][x + i - 1])
      BY <2>5 DEF OnTheWay
    <3>2. ASSUME NEW i \in 1 .. Len(inbox[d]) PROVE g.prog[d][x + i - 1] = h.prog[d][x + i - 1]
      <4>1. Len(inbox[d]) \in Nat BY DEF Shape
      <4>2. x + i - 1 \in 0 .. Begun(h, d) - 1 BY <4>1, <3>1, <2>4
      <4>. QED BY <4>2, <2>4, <1>4
    <3>. QED BY <3>1, <3>2, <2>3 DEF OnTheWay
  <2>6. m < Begun(h, d) => g.prog[d][m] = h.prog[d][m] BY <2>2, <1>4
  <2>7. m > 0 => g.prog[d][m - 1] = h.prog[d][m - 1]
    <3>1. m > 0 => m - 1 \in 0 .. h.last[d] BY <2>2
    <3>. QED BY <3>1, <1>4
  <2>8. m \in Nat /\ m + 1 \in Nat BY <2>2
  <2>. QED BY <2>1, <2>3, <2>5, <2>6, <2>7, <2>8 DEF CarriedAt
<1>23. ASSUME NEW d \in Components, NEW u, NEW m \in 0 .. h.last[d]
       PROVE  EntryFor(g, u, d, m) = EntryFor(h, u, d, m)
  BY <1>4 DEF EntryFor
<1>24. ASSUME NEW d \in Components, NEW u \in Members(my_comm(d)) PROVE Recalled(g, u, d)
  <2>1. PICK m : m = h.num[u][d] OBVIOUS
  <2>2. m \in 0 .. h.last[d] BY <2>1, <1>15
  <2>3. \A i \in 1 .. m : i - 1 \in 0 .. h.last[d] BY <2>2, <1>2
  <2>4. Recalled(h, u, d) BY <1>1 DEF Remembered
  <2>. QED BY <2>1, <2>3, <2>4, <1>3, <1>23 DEF Recalled
<1>25. ASSUME NEW u \in IOTasks PROVE HasServed(g, u, Reached(g, u).served)
  <2>1. PICK s : s = Reached(h, u).served OBVIOUS
  <2>2. HasServed(h, u, s) BY <2>1, <1>1 DEF Remembered
  <2>3. ASSUME NEW i \in 1 .. Len(done[u])
        PROVE  /\ s[i][1] \in Components /\ s[i][2] \in 0 .. g.num[u][s[i][1]] - 1
               /\ done[u][i] = EntryFor(g, u, s[i][1], s[i][2])
    <3>1. PICK d, m : d = s[i][1] /\ m = s[i][2] OBVIOUS
    <3>2. d \in Components /\ m \in 0 .. h.num[u][d] - 1 /\ done[u][i] = EntryFor(h, u, d, m)
      BY <3>1, <2>2 DEF HasServed
    <3>3. h.num[u][d] \in 0 .. h.last[d] /\ h.last[d] \in Nat BY <3>2, <1>2, <1>15, MembersOf
    <3>4. m \in 0 .. h.last[d] BY <3>2, <3>3
    <3>5. EntryFor(g, u, d, m) = EntryFor(h, u, d, m) BY <3>2, <3>4, <1>23
    <3>. QED BY <3>1, <3>2, <3>5, <1>3
  <2>4. HasServed(g, u, s) BY <2>2, <2>3 DEF HasServed
  <2>. QED BY <2>1, <2>4, <1>20
<1>26. Remembered(g) BY <1>24, <1>25 DEF Remembered
<1>. QED BY <1>2, <1>5, <1>9, <1>13, <1>14, <1>16, <1>17, <1>18, <1>19, <1>21, <1>22, <1>26 DEF Follows

\* A task that has ended a call knows its code, so that there is a next one.
EndedAt(h, t, c, n, p) ==
  /\ n \in 0 .. h.last[c] /\ IsCall(h, c, n) /\ Programme(p) /\ p # <<>> /\ Makes(t, p) /\ t \in Tasks
  /\ eh[t][c] = h.hand[c][n] /\ todo[t] = <<>>
  /\ Shared(p) => code[t] # "unknown" /\ code[t] = h.cd[c][n]
  /\ ~Shared(p) => h.cd[c][n] = "unknown" /\ code[t] \in {"unknown", "ok"}
  /\ \E k \in Nat : LeftOf(FullScript(h, c, n), k, todo[t]) /\ Abreast(h, t, c, n, k)

LEMMA EndedCall ==
  ASSUME ProgramsFit, Shape, NEW h, Follows(h), NEW c \in Components, NEW t \in Members(my_comm(c)),
         Busy(t, c), Ended(t), NEW n, n = h.num[t][c], NEW p, p = h.prog[c][n]
  PROVE  EndedAt(h, t, c, n, p)
<1>1. Measured(h) /\ Calls(h) /\ PlacedAt(h, t, c) BY DEF Follows, Placed
<1>2. t \in Tasks BY MembersAreTasks, CommsApart
<1>3. n \in 0 .. h.last[c] /\ Makes(t, p) /\ p # <<>> /\ eh[t][c] = h.hand[c][n]
  BY <1>1 DEF PlacedAt, Makes
<1>4. IsCall(h, c, n) BY <1>3 DEF IsCall
<1>5. Programme(p) /\ (~Shared(p) => h.cd[c][n] = "unknown") BY <1>1, <1>4, CallIs
<1>6. PICK k \in Nat : InScript(h, t, c, k) BY <1>1 DEF PlacedAt
<1>7. InCallAt(h, t, c, n, p, k) BY <1>6 DEF InScript
<1>8. todo[t] = <<>> BY DEF Ended
<1>9. LeftOf(Script(c, p, Known(p, code[t]), h.hand[c][n]), k, todo[t]) /\ Abreast(h, t, c, n, k)
  BY <1>7, Zenon DEF InCallAt
<1>14. Informed(t, p, h.cd[c][n]) BY <1>7, Zenon DEF InCallAt
<1>10. Shared(p) => code[t] # "unknown" /\ code[t] = h.cd[c][n] BY <1>8, <1>14 DEF Informed
<1>11. ~Shared(p) => code[t] \in {"unknown", "ok"} BY <1>14 DEF Informed
<1>12. Known(p, code[t]) = h.cd[c][n] BY <1>5, <1>10 DEF Known
<1>13. Script(c, p, Known(p, code[t]), h.hand[c][n]) = FullScript(h, c, n) BY <1>12 DEF FullScript
<1>15. \E j \in Nat : LeftOf(FullScript(h, c, n), j, todo[t]) /\ Abreast(h, t, c, n, j) BY <1>9, <1>13
<1>. QED BY <1>2, <1>3, <1>4, <1>5, <1>8, <1>10, <1>11, <1>15, Zenon DEF EndedAt

HasRoom(g, t, c) == Follows(g) /\ g.num[t][c] \in 0 .. g.last[c] - 1

LEMMA Room ==
  ASSUME ProgramsFit, Shape, NEW h, Follows(h), NEW c \in Components, NEW t \in Members(my_comm(c)),
         Busy(t, c), Ended(t)
  PROVE  \E g : HasRoom(g, t, c)
<1>1. Measured(h) /\ Calls(h) BY DEF Follows
<1>2. PICK n, p : n = h.num[t][c] /\ p = h.prog[c][n] OBVIOUS
<1>3. n \in 0 .. h.last[c] /\ IsCall(h, c, n) /\ (Shared(p) => h.cd[c][n] # "unknown")
  <2>1. EndedAt(h, t, c, n, p) BY <1>2, EndedCall
  <2>. QED BY <2>1, Zenon DEF EndedAt
<1>4. h.last[c] \in Nat BY <1>1, Numbers
<1>5. CASE n # h.last[c]
  <2>1. n \in 0 .. h.last[c] - 1 BY <1>3, <1>4, <1>5
  <2>2. HasRoom(h, t, c) BY <2>1, <1>2 DEF HasRoom
  <2>. QED BY <2>2
<1>6. CASE n = h.last[c]
  <2>1. PICK g : Longer(h, g, c, n) BY <1>1, <1>3, <1>6, OneMoreCall
  <2>2. Follows(g) BY <2>1, <1>2, <1>3, <1>6, LongerFollows
  <2>3. g.num[t][c] = n /\ g.last[c] = n + 1 BY <2>1, <1>2 DEF Longer, SameUpTo
  <2>4. n \in 0 .. g.last[c] - 1 BY <2>3, <1>3, <1>4
  <2>5. HasRoom(g, t, c) BY <2>2, <2>3, <2>4 DEF HasRoom
  <2>. QED BY <2>5
<1>. QED BY <1>5, <1>6

-----------------------------------------------------------------------------
(* The end of a call.                                                      *)

\* In g task t has finished one more call of component c.
OneFurther(h, g, t, c) ==
  /\ g.log = h.log /\ g.pos = h.pos /\ g.low = h.low /\ g.cd = h.cd /\ g.loop = h.loop /\ g.prog = h.prog
  /\ g.hand = h.hand /\ g.sp = h.sp /\ g.st = h.st /\ g.last = h.last
  /\ g.num \in [Tasks -> [Components -> Nat]] /\ g.num[t][c] = h.num[t][c] + 1
  /\ \A u \in Tasks : \A d \in Components : u # t \/ d # c => g.num[u][d] = h.num[u][d]

LEMMA FurtherExists ==
  ASSUME NEW h, Measured(h), NEW t \in Tasks, NEW c \in Components
  PROVE  \E g : OneFurther(h, g, t, c)
<1>1. PICK n : n = h.num[t][c] + 1 OBVIOUS
<1>2. h.num \in [Tasks -> [Components -> Nat]] /\ h.num[t][c] \in Nat BY Numbers DEF Measured
<1>3. PICK num : num = [u \in Tasks |-> [d \in Components |-> IF u = t /\ d = c THEN n ELSE h.num[u][d]]] OBVIOUS
<1>4. \A u \in Tasks : [d \in Components |-> IF u = t /\ d = c THEN n ELSE h.num[u][d]] \in [Components -> Nat]
  <2>1. n \in Nat BY <1>1, <1>2
  <2>2. \A u \in Tasks : \A d \in Components : h.num[u][d] \in Nat BY Numbers
  <2>. QED BY <2>1, <2>2
<1>5. num \in [Tasks -> [Components -> Nat]] BY <1>3, <1>4
<1>6. num[t][c] = n /\ \A u \in Tasks : \A d \in Components : u # t \/ d # c => num[u][d] = h.num[u][d] BY <1>3
<1>7. PICK g : g = [log |-> h.log, pos |-> h.pos, low |-> h.low, cd |-> h.cd, loop |-> h.loop, prog |-> h.prog,
                    hand |-> h.hand, sp |-> h.sp, st |-> h.st, last |-> h.last, num |-> num]
  OBVIOUS
<1>8. /\ g.log = h.log /\ g.pos = h.pos /\ g.low = h.low /\ g.cd = h.cd /\ g.loop = h.loop /\ g.prog = h.prog
      /\ g.hand = h.hand /\ g.sp = h.sp /\ g.st = h.st /\ g.last = h.last /\ g.num = num
  BY <1>7
<1>9. OneFurther(h, g, t, c) BY <1>1, <1>5, <1>6, <1>8 DEF OneFurther
<1>. QED BY <1>9

\* What a task that finishes a call leaves.
Finished1(t, c, p, v) ==
  /\ doing' = [doing EXCEPT ![t] = Idle] /\ IsIdle(t)' /\ doing'[t].comp = 0 /\ code'[t] = "unknown"
  /\ eh'[t][c] = NextHand(p, eh[t][c])
  /\ \A d \in Components : d # c => eh'[t][d] = eh[t][d]
  /\ done' = [done EXCEPT ![t] = Append(done[t], Entry(c, p, v))]
  /\ \A u \in Tasks : u # t => doing'[u] = doing[u] /\ code'[u] = code[u] /\ eh'[u] = eh[u] /\ done'[u] = done[u]
  /\ code' \in [Tasks -> Codes \cup {"unknown"}]
  /\ eh' \in [Tasks -> [Components -> {"bcast", "return"}]]
  /\ done' \in [Tasks -> Seq([comp : Components, call : Requests, code : Codes])]

LEMMA FinishIs ==
  ASSUME ProgramsFit, Shape, NEW h, Follows(h), NEW c \in Components, NEW t \in Members(my_comm(c)),
         Busy(t, c), Ended(t), Finish(t), NEW n, n = h.num[t][c], NEW p, p = h.prog[c][n], NEW v, v = h.cd[c][n]
  PROVE  /\ Finished1(t, c, p, CodeFor(t, p, v))
         /\ Result(t) = CodeFor(t, p, v) /\ Result(t) \in Codes
<1>20. EndedAt(h, t, c, n, p) BY EndedCall
<1>1. /\ Programme(p) /\ p # <<>> /\ Makes(t, p) /\ t \in Tasks
      /\ Shared(p) => code[t] # "unknown" /\ code[t] = v
      /\ ~Shared(p) => v = "unknown" /\ code[t] \in {"unknown", "ok"}
  BY <1>20, Zenon DEF EndedAt
<1>2. PICK r, x : r = Result(t) /\ x = code[t] OBVIOUS
<1>3. doing[t].comp = c /\ doing[t].msg = StepOf(p).msg /\ doing[t].given = StepOf(p).given
      /\ doing[t].agree = CallAt(p).agree
  BY <1>1 DEF Makes, Busy
<1>4. code[t] \in Codes \cup {"unknown"} /\ eh[t] \in [Components -> {"bcast", "return"}] BY <1>1 DEF Shape
<1>5. t \in IOTasks <=> t \notin Callers BY <1>1, TasksApart
<1>6. r = CodeFor(t, p, v) /\ r \in Codes
  <2>1. r = IF x = "unknown" \/ (t \in Callers /\ CallAt(p).agree = "dropped") THEN "ok" ELSE x
    BY <1>2, <1>3 DEF Result
  <2>2. CodeFor(t, p, v) = IF v = "unknown" \/ (t \in Callers /\ CallAt(p).agree = "dropped") THEN "ok" ELSE v
    BY <1>5 DEF CodeFor, ServerCode, CallerCode
  <2>3. x \in Codes \cup {"unknown"} /\ (x = v \/ (v = "unknown" /\ x \in {"unknown", "ok"}))
    BY <1>1, <1>2, <1>4
  <2>4. CASE x = v BY <2>1, <2>2, <2>3, <2>4 DEF Codes
  <2>5. CASE v = "unknown" /\ x \in {"unknown", "ok"} BY <2>1, <2>2, <2>5 DEF Codes
  <2>. QED BY <2>3, <2>4, <2>5
<1>7. PICK e : e = Entry(c, p, r) OBVIOUS
<1>8. done' = [done EXCEPT ![t] = Append(done[t], e)]
  BY <1>2, <1>3, <1>7 DEF Finish, Entry, CallMessage
<1>21. eh' = NewHandler(t) BY DEF Finish
<1>22. doing' = [doing EXCEPT ![t] = Idle] BY DEF Finish, Becomes
<1>23. code' = [code EXCEPT ![t] = "unknown"] BY DEF Finish, Becomes
<1>9. CallMessage(p) \in Requests
  <2>1. StepOf(p) \in AllSteps BY <1>1, StepFits
  <2>. QED BY <2>1 DEF CallMessage, Requests
<1>10. e \in [comp : Components, call : Requests, code : Codes] BY <1>6, <1>7, <1>9 DEF Entry
<1>11. done' \in [Tasks -> Seq([comp : Components, call : Requests, code : Codes])]
  <2>. DEFINE E == [comp : Components, call : Requests, code : Codes]
  <2>1. done \in [Tasks -> Seq(E)] /\ e \in E BY <1>10 DEF Shape
  <2>. HIDE DEF E
  <2>2. done[t] \in Seq(E) BY <2>1, <1>1
  <2>3. Append(done[t], e) \in Seq(E) BY <2>1, <2>2
  <2>4. PICK y : y = Append(done[t], e) OBVIOUS
  <2>5. done' = [done EXCEPT ![t] = y] /\ y \in Seq(E) BY <2>3, <2>4, <1>8
  <2>6. done' \in [Tasks -> Seq(E)] BY <2>1, <2>5
  <2>. QED BY <2>6 DEF E
<1>12. eh'[t][c] = NextHand(p, eh[t][c]) /\ (\A d \in Components : d # c => eh'[t][d] = eh[t][d])
       /\ (\A u \in Tasks : u # t => eh'[u] = eh[u]) /\ eh' \in [Tasks -> [Components -> {"bcast", "return"}]]
  <2>1. eh \in [Tasks -> [Components -> {"bcast", "return"}]] BY DEF Shape
  <2>2. PICK m : m = Method(StepOf(p).given) OBVIOUS
  <2>3. m \in {"bcast", "return"} BY <2>2 DEF Method
  <2>4. CASE StepOf(p).msg = "SETERRORHANDLING"
    <3>1. PICK y : y = [eh[t] EXCEPT ![c] = m] OBVIOUS
    <3>2. y \in [Components -> {"bcast", "return"}] /\ y[c] = m /\ \A d \in Components : d # c => y[d] = eh[t][d]
      BY <3>1, <2>3, <1>4
    <3>3. eh' = [eh EXCEPT ![t] = y]
      <4>1. eh' = [eh EXCEPT ![t][c] = m] BY <1>3, <1>21, <2>2, <2>4, Zenon DEF NewHandler, HandlerIsSet
      <4>. QED BY <4>1, <3>1
    <3>4. eh'[t] = y BY <3>3, <2>1, <1>1
    <3>5. eh' \in [Tasks -> [Components -> {"bcast", "return"}]] BY <3>2, <3>3, <2>1
    <3>6. \A u \in Tasks : u # t => eh'[u] = eh[u] BY <3>3, <2>1
    <3>7. NextHand(p, eh[t][c]) = m BY <2>2, <2>4 DEF NextHand
    <3>. QED BY <3>2, <3>4, <3>5, <3>6, <3>7
  <2>5. CASE StepOf(p).msg # "SETERRORHANDLING"
    <3>1. eh' = eh BY <1>3, <1>21, <2>5, Zenon DEF NewHandler, HandlerIsSet
    <3>2. NextHand(p, eh[t][c]) = eh[t][c] BY <2>5 DEF NextHand
    <3>. QED BY <3>1, <3>2, <2>1
  <2>. QED BY <2>4, <2>5
<1>13. code' \in [Tasks -> Codes \cup {"unknown"}] /\ code'[t] = "unknown"
  <2>1. code \in [Tasks -> Codes \cup {"unknown"}] BY DEF Shape
  <2>. QED BY <2>1, <1>1, <1>23
<1>14. doing'[t] = Idle
  <2>1. t \in DOMAIN doing BY <1>1 DEF Shape
  <2>. QED BY <2>1, <1>22
<1>15. IsIdle(t)' /\ doing'[t].comp = 0 BY <1>14 DEF IsIdle, Idle
<1>16. \A u \in Tasks : u # t => doing'[u] = doing[u] /\ code'[u] = code[u] /\ done'[u] = done[u]
  BY <1>8, <1>22, <1>23
<1>17. Finished1(t, c, p, r) BY <1>7, <1>8, <1>11, <1>12, <1>13, <1>15, <1>16, <1>22, Zenon DEF Finished1
<1>18. Result(t) = CodeFor(t, p, v) /\ Result(t) \in Codes BY <1>2, <1>6, Zenon
<1>. QED BY <1>2, <1>17, <1>18, Zenon

LEMMA FurtherSame ==
  ASSUME Shape, NEW h, Follows(h), NEW t \in Tasks, NEW c \in Components, NEW g, OneFurther(h, g, t, c)
  PROVE  /\ Measured(g) /\ Calls(g) /\ Logged(g) /\ Recorded(g) /\ Ahead(g) /\ Looped(g)
         /\ \A comm : Top(g, comm) = Top(h, comm)
         /\ \A u : Reached(g, u) = Reached(h, u)
         /\ Learned(h, g)
         /\ \A u, d, m : EntryFor(g, u, d, m) = EntryFor(h, u, d, m)
<1>1. /\ Measured(h) /\ Calls(h) /\ Logged(h) /\ Recorded(h) /\ Ahead(h) /\ Looped(h)
  BY DEF Follows
<1>2. /\ g.log = h.log /\ g.pos = h.pos /\ g.low = h.low /\ g.cd = h.cd /\ g.loop = h.loop /\ g.prog = h.prog
      /\ g.hand = h.hand /\ g.sp = h.sp /\ g.st = h.st /\ g.last = h.last
      /\ g.num \in [Tasks -> [Components -> Nat]]
  BY DEF OneFurther
<1>3. \A comm : Top(g, comm) = Top(h, comm) BY <1>2 DEF Top
<1>4. \A d, m : /\ FullScript(g, d, m) = FullScript(h, d, m) /\ EndOfParams(g, d, m) = EndOfParams(h, d, m)
                /\ EndOfCall(g, d, m) = EndOfCall(h, d, m)
  BY <1>2 DEF FullScript, EndOfParams, EndOfCall
<1>5. \A d, m, k : Place(g, d, m, k) = Place(h, d, m, k) BY <1>2 DEF Place
<1>6. Measured(g) BY <1>1, <1>2 DEF Measured
<1>7. Calls(g) BY <1>1, <1>2, CallsSame
<1>8. Logged(g) BY <1>1, <1>2 DEF Logged
<1>9. Recorded(g) BY <1>1, <1>2, <1>3, <1>4, <1>5 DEF Recorded
<1>10. Ahead(g) BY <1>1, <1>2, <1>3, <1>4 DEF Ahead
<1>11. \A x, e, y : LoopStep(h, x, e, y) => LoopStep(g, x, e, y) BY <1>2 DEF LoopStep
<1>12. Looped(g) BY <1>1, <1>2, <1>3, <1>11 DEF Looped
<1>13. \A u : Reached(g, u) = Reached(h, u) BY <1>2 DEF Reached
<1>14. Learned(h, g) BY <1>2 DEF Learned
<1>15. \A u, d, m : EntryFor(g, u, d, m) = EntryFor(h, u, d, m) BY <1>2 DEF EntryFor
<1>. QED BY <1>3, <1>6, <1>7, <1>8, <1>9, <1>10, <1>12, <1>13, <1>14, <1>15

\* The end of the broadcasts of a call is where the next one begins.
LEMMA AtTheNext ==
  ASSUME ProgramsFit, NEW h, Measured(h), Calls(h), NEW c \in Components, NEW t \in Tasks,
         NEW n \in 0 .. h.last[c] - 1, NEW k \in Nat, NEW x, x = <<>>, LeftOf(FullScript(h, c, n), k, x), Abreast(h, t, c, n, k)
  PROVE  /\ h.pos[my_comm(c)][t] = h.st[c][n + 1]
         /\ t \in Members(intercomm(c)) => h.pos[intercomm(c)][t] = h.sp[c][n + 1]
<1>0. h.last[c] \in Nat BY Numbers
<1>1. IsCall(h, c, n)
  <2>1. n \in 0 .. h.last[c] BY <1>0
  <2>. QED BY <2>1 DEF IsCall, Calls
<1>2. EndOfParams(h, c, n) = h.sp[c][n + 1] /\ EndOfCall(h, c, n) = h.st[c][n + 1] BY DEF Calls
<1>3. PICK P, l : P = Params(h.prog[c][n]) /\ l = Len(FullScript(h, c, n)) OBVIOUS
<1>4. P \in Nat /\ l \in Nat /\ P < l /\ h.sp[c][n] \in Nat /\ h.st[c][n] \in Nat
  <2>1. PICK a : a = Len(Agreed(c, h.prog[c][n])) OBVIOUS
  <2>2. P \in Nat /\ l \in Nat /\ a \in Nat /\ P < a /\ a <= l /\ h.sp[c][n] \in Nat /\ h.st[c][n] \in Nat
    BY <2>1, <1>1, <1>3, CallIs
  <2>. QED BY <2>2
<1>5. k = l
  <2>1. Len(x) = 0 OBVIOUS
  <2>. QED BY <2>1, <1>3, <1>4 DEF LeftOf
<1>6. ~(k <= P) BY <1>4, <1>5
<1>7. h.pos[my_comm(c)][t] = h.st[c][n] + (l - P) /\ (t \in Members(intercomm(c)) => h.pos[intercomm(c)][t] = h.sp[c][n] + P)
  BY <1>3, <1>5, <1>6 DEF Abreast
<1>8. EndOfParams(h, c, n) = h.sp[c][n] + P /\ EndOfCall(h, c, n) = h.st[c][n] + (l - P)
  BY <1>3 DEF EndOfParams, EndOfCall
<1>. QED BY <1>2, <1>7, <1>8

\* What the lemmas on the end of a call suppose.
Ending(h, g, t, c, n, p, v) ==
  /\ n = h.num[t][c] /\ n \in 0 .. h.last[c] - 1 /\ p = h.prog[c][n] /\ v = h.cd[c][n]
  /\ Busy(t, c) /\ EndedAt(h, t, c, n, p) /\ OneFurther(h, g, t, c)
  /\ Finished1(t, c, p, CodeFor(t, p, v))
  /\ \A u \in Tasks : u # t => todo'[u] = todo[u]

LEMMA EndingPlaced ==
  ASSUME ProgramsFit, Shape, NEW h, Follows(h), NEW c \in Components, NEW t \in Members(my_comm(c)),
         NEW g, NEW n, NEW p, NEW v, Ending(h, g, t, c, n, p, v)
  PROVE  Placed(g)' /\ Undecided(g)'
<1>1. Measured(h) /\ Calls(h) /\ Placed(h) /\ Undecided(h) BY DEF Follows
<1>2. /\ n = h.num[t][c] /\ n \in 0 .. h.last[c] - 1 /\ p = h.prog[c][n] /\ v = h.cd[c][n]
      /\ Busy(t, c) /\ \A u \in Tasks : u # t => todo'[u] = todo[u]
  BY Zenon DEF Ending
<1>14. EndedAt(h, t, c, n, p) BY Zenon DEF Ending
<1>15. Finished1(t, c, p, CodeFor(t, p, v)) BY Zenon DEF Ending
<1>16. OneFurther(h, g, t, c) BY Zenon DEF Ending
<1>3. t \in Tasks /\ todo[t] = <<>> /\ eh[t][c] = h.hand[c][n] BY <1>14, Zenon DEF EndedAt
<1>4. PICK k \in Nat : LeftOf(FullScript(h, c, n), k, todo[t]) /\ Abreast(h, t, c, n, k) BY <1>14, Zenon DEF EndedAt
<1>5. /\ IsIdle(t)' /\ eh'[t][c] = NextHand(p, eh[t][c])
      /\ \A d \in Components : d # c => eh'[t][d] = eh[t][d]
      /\ \A u \in Tasks : u # t => doing'[u] = doing[u] /\ code'[u] = code[u] /\ eh'[u] = eh[u]
  BY <1>15, Zenon DEF Finished1
<1>6. Measured(g) BY <1>3, <1>16, FurtherSame
<1>7. /\ g.pos = h.pos /\ g.cd = h.cd /\ g.prog = h.prog
      /\ g.hand = h.hand /\ g.sp = h.sp /\ g.st = h.st /\ g.last = h.last
      /\ g.num[t][c] = n + 1
      /\ \A u \in Tasks : \A d \in Components : u # t \/ d # c => g.num[u][d] = h.num[u][d]
  BY <1>2, <1>16, Zenon DEF OneFurther
<1>8. /\ h.pos[my_comm(c)][t] = h.st[c][n + 1]
      /\ t \in Members(intercomm(c)) => h.pos[intercomm(c)][t] = h.sp[c][n + 1]
  BY <1>1, <1>2, <1>3, <1>4, AtTheNext
<1>9. \A d \in Components : h.last[d] \in Nat BY <1>1, Numbers
<1>10. PlacedAt(g, t, c)'
  <2>1. ~Busy(t, c)' BY <1>5 DEF Busy
  <2>2. AtRest(g, t, c) BY <1>7, <1>8 DEF AtRest
  <2>3. n + 1 \in 0 .. g.last[c] BY <1>2, <1>7, <1>9
  <2>4. eh'[t][c] = g.hand[c][n + 1]
    <3>1. h.hand[c][n + 1] = NextHand(p, h.hand[c][n]) BY <1>1, <1>2 DEF Calls
    <3>. QED BY <3>1, <1>3, <1>5, <1>7
  <2>. QED BY <2>1, <2>2, <2>3, <2>4, <1>7 DEF PlacedAt
<1>11. ASSUME NEW d \in Components, d # c, t \in Members(my_comm(d)) PROVE PlacedAt(g, t, d)'
  <2>1. PlacedAt(h, t, d) /\ ~Busy(t, d) BY <1>1, <1>2, <1>11 DEF Placed, Busy
  <2>2. ~Busy(t, d)' BY <1>5 DEF Busy
  <2>3. AtRest(h, t, d) /\ h.num[t][d] \in 0 .. h.last[d] /\ eh[t][d] = h.hand[d][h.num[t][d]] BY <2>1 DEF PlacedAt
  <2>4. g.num[t][d] = h.num[t][d] BY <1>3, <1>7, <1>11
  <2>5. AtRest(g, t, d) BY <2>3, <2>4, <1>7 DEF AtRest
  <2>6. g.num[t][d] \in 0 .. g.last[d] BY <2>3, <2>4, <1>7
  <2>7. eh'[t][d] = g.hand[d][g.num[t][d]] BY <2>3, <2>4, <1>5, <1>7, <1>11
  <2>. QED BY <2>2, <2>5, <2>6, <2>7 DEF PlacedAt
<1>12. Placed(g)'
  <2>. SUFFICES ASSUME NEW d \in Components, NEW u \in Members(my_comm(d)) PROVE PlacedAt(g, u, d)'
    BY MembersOf DEF Placed
  <2>1. u \in Tasks /\ PlacedAt(h, u, d) BY <1>1, MembersAreTasks, CommsApart DEF Placed
  <2>2. CASE u # t
    <3>1. Untouched(u) BY <2>1, <2>2, <1>2, <1>5 DEF Untouched
    <3>2. g.num[u][d] = h.num[u][d] BY <2>1, <2>2, <1>7
    <3>3. h.last[d] <= g.last[d] BY <1>7, <1>9
    <3>4. SameFor(h, g, u, d) BY <3>2, <3>3, <1>7 DEF SameFor
    <3>. QED BY <3>1, <3>4, <2>1, <1>1, <1>6, StaysPlaced
  <2>3. CASE u = t /\ d = c BY <2>3, <1>10
  <2>4. CASE u = t /\ d # c BY <2>4, <1>11
  <2>. QED BY <2>2, <2>3, <2>4
<1>13. Undecided(g)'
  <2>. SUFFICES ASSUME NEW d \in Components, NEW m \in 0 .. h.last[d],
                       g.num[ioroot][d] < m \/ (g.num[ioroot][d] = m /\ ~Busy(ioroot, d)')
                PROVE  h.cd[d][m] = "unknown"
    BY <1>7 DEF Undecided
  <2>1. ioroot \in Tasks BY TasksApart
  <2>2. CASE ioroot # t
    <3>1. g.num[ioroot][d] = h.num[ioroot][d] BY <2>1, <2>2, <1>7
    <3>2. Busy(ioroot, d)' <=> Busy(ioroot, d) BY <2>1, <2>2, <1>5 DEF Busy, IsIdle
    <3>. QED BY <3>1, <3>2, <1>1 DEF Undecided
  <2>3. CASE ioroot = t /\ d # c
    <3>1. g.num[ioroot][d] = h.num[ioroot][d] BY <2>1, <2>3, <1>7
    <3>2. ~Busy(ioroot, d) BY <2>3, <1>2 DEF Busy
    <3>. QED BY <3>1, <3>2, <1>1 DEF Undecided
  <2>4. CASE ioroot = t /\ d = c
    <3>1. n + 1 < m \/ n + 1 = m BY <2>4, <1>7
    <3>2. n < m BY <3>1, <1>2, <1>9
    <3>. QED BY <3>2, <2>4, <1>1, <1>2 DEF Undecided
  <2>. QED BY <2>2, <2>3, <2>4
<1>. QED BY <1>12, <1>13

\* What a task has done, with the call that it ends.
LEMMA EndingRecalled ==
  ASSUME ProgramsFit, Shape, NEW h, Follows(h), NEW c \in Components, NEW t \in Members(my_comm(c)),
         NEW g, NEW n, NEW p, NEW v, Ending(h, g, t, c, n, p, v),
         NEW d \in Components, NEW u \in Members(my_comm(d))
  PROVE  Recalled(g, u, d)'
<1>1. Measured(h) /\ Placed(h) /\ Recalled(h, u, d) BY DEF Follows, Remembered
<1>2. n = h.num[t][c] /\ n \in 0 .. h.last[c] - 1 /\ p = h.prog[c][n] /\ v = h.cd[c][n] BY Zenon DEF Ending
<1>3. EndedAt(h, t, c, n, p) BY Zenon DEF Ending
<1>4. Finished1(t, c, p, CodeFor(t, p, v)) BY Zenon DEF Ending
<1>5. OneFurther(h, g, t, c) BY Zenon DEF Ending
<1>6. t \in Tasks BY <1>3, Zenon DEF EndedAt
<1>7. /\ g.prog = h.prog /\ g.cd = h.cd /\ g.num[t][c] = n + 1
      /\ \A x \in Tasks : \A y \in Components : x # t \/ y # c => g.num[x][y] = h.num[x][y]
  BY <1>2, <1>5, Zenon DEF OneFurther
<1>8. Learned(h, g) BY <1>7 DEF Learned
<1>9. u \in Tasks BY MembersAreTasks, CommsApart
<1>10. CASE u # t
  <2>1. done'[u] = done[u] BY <1>4, <1>9, <1>10, Zenon DEF Finished1
  <2>2. PlacedAt(h, u, d) BY <1>1 DEF Placed
  <2>3. h.num[u][d] \in 0 .. h.last[d] /\ h.last[d] \in Nat BY <2>2, <1>1, Numbers DEF PlacedAt
  <2>4. h.num[u][d] <= h.last[d] BY <2>3
  <2>5. g.num[u][d] = h.num[u][d] BY <1>7, <1>9, <1>10
  <2>. QED BY <2>1, <2>4, <2>5, <1>1, <1>7, <1>8, <1>9, StaysRecalled
<1>11. CASE u = t
  <2>1. PICK e, T : e = Entry(c, p, CodeFor(t, p, v)) /\ T = [comp : Components, call : Requests, code : Codes] OBVIOUS
  <2>2. done' = [done EXCEPT ![t] = Append(done[t], e)] /\ done' \in [Tasks -> Seq(T)]
    BY <2>1, <1>4, Zenon DEF Finished1
  <2>3. done \in [Tasks -> Seq(T)] BY <2>1 DEF Shape
  <2>4. done[t] \in Seq(T) /\ done'[t] \in Seq(T) /\ done'[t] = Append(done[t], e) BY <2>2, <2>3, <1>6
  <2>5. PICK s \in Seq(T) : s = done[t] BY <2>4
  <2>6. PICK w \in Seq(T) : w = done'[t] BY <2>4
  <2>7. e \in T
    <3>1. w = Append(s, e) BY <2>4, <2>5, <2>6
    <3>2. Len(s) + 1 \in 1 .. Len(w) /\ w[Len(s) + 1] = e BY <3>1
    <3>. QED BY <3>2
  <2>8. e.comp = c BY <2>1 DEF Entry
  <2>9. PartOf(s, d) \in Seq(T) /\ PartOf(Append(s, e), d) = PartOf(s, d) \o OnlyOf(e, d)
    BY <2>7, PartGrows
  <2>10. PICK q \in Seq(T) : q = PartOf(s, d) BY <2>9
  <2>11. OfComp(t, d) = q /\ OfComp(t, d)' = q \o OnlyOf(e, d)
    <3>1. OfComp(t, d) = PartOf(done[t], d) /\ OfComp(t, d)' = PartOf(done'[t], d) BY DEF OfComp
    <3>. QED BY <3>1, <2>4, <2>5, <2>6, <2>9, <2>10
  <2>12. PICK m : m = h.num[t][d] OBVIOUS
  <2>13. Len(q) = m /\ (\A i \in 1 .. m : q[i] = EntryFor(h, t, d, i - 1)) /\ (t \in CompTasks(d) => s = q)
    BY <2>5, <2>11, <2>12, <1>1, <1>11 DEF Recalled
  <2>14. m \in Nat BY <2>13
  <2>15. \A i \in 1 .. m : EntryFor(g, t, d, i - 1) = EntryFor(h, t, d, i - 1) BY <1>7 DEF EntryFor
  <2>16. CASE d = c
    <3>1. m = n BY <2>12, <2>16, <1>2
    <3>2. OfComp(t, d)' = Append(q, e)
      <4>1. OnlyOf(e, d) = <<e>> BY <2>8, <2>16 DEF OnlyOf, When
      <4>2. q \o <<e>> = Append(q, e) BY <2>7
      <4>. QED BY <4>1, <4>2, <2>11
    <3>3. PICK r \in Seq(T) : r = Append(q, e)
      <4>1. Append(q, e) \in Seq(T) BY <2>7
      <4>. QED BY <4>1
    <3>4. Len(r) = n + 1 /\ r[n + 1] = e /\ \A i \in 1 .. n : r[i] = q[i] BY <2>13, <3>1, <3>3
    <3>5. e = EntryFor(g, t, c, n) BY <2>1, <1>2, <1>7 DEF EntryFor
    <3>6. ASSUME NEW i \in 1 .. n + 1 PROVE r[i] = EntryFor(g, t, c, i - 1)
      <4>1. n \in Nat BY <3>1, <2>14
      <4>2. CASE i = n + 1
        <5>1. i - 1 = n BY <4>1, <4>2
        <5>. QED BY <5>1, <4>2, <3>4, <3>5
      <4>3. CASE i # n + 1
        <5>1. i \in 1 .. n BY <4>1, <4>3
        <5>. QED BY <5>1, <3>1, <3>4, <2>13, <2>15, <2>16
      <4>. QED BY <4>2, <4>3
    <3>7. t \in CompTasks(c) => w = r BY <2>4, <2>5, <2>6, <2>13, <2>16, <3>3
    <3>8. OfComp(t, c)' = r /\ Len(r) = g.num[t][c] BY <3>2, <3>3, <3>4, <2>16, <1>7
    <3>. QED BY <3>6, <3>7, <3>8, <2>6, <2>16, <1>7, <1>11 DEF Recalled
  <2>17. CASE d # c
    <3>1. OfComp(t, d)' = q
      <4>1. OnlyOf(e, d) = <<>> BY <2>8, <2>17 DEF OnlyOf, When
      <4>2. q \o <<>> = q OBVIOUS
      <4>. QED BY <4>1, <4>2, <2>11
    <3>2. t \notin CompTasks(d)
      <4>1. t \in IOTasks \/ t \in CompTasks(c) BY MembersOf
      <4>. QED BY <4>1, <2>17, TasksApart
    <3>3. g.num[t][d] = m BY <2>12, <2>17, <1>6, <1>7
    <3>. QED BY <3>1, <3>2, <3>3, <2>13, <2>15, <1>11 DEF Recalled
  <2>. QED BY <2>16, <2>17
<1>. QED BY <1>10, <1>11

LEMMA NextCall ==
  ASSUME NEW h, Calls(h), NEW c \in Components, NEW n \in 0 .. h.last[c] - 1
  PROVE  h.prog[c][n + 1] = NextProgram(h.prog[c][n], h.cd[c][n])
BY DEF Calls

\* A computation task returns from a call.
LEMMA ReturnKeeps ==
  ASSUME ProgramsFit, Shape, Batch, NEW e, Follows(e), NEW t \in Callers, Return(t)
  PROVE  Kept
<1>1. PICK c : c = t[1] OBVIOUS
<1>2. c \in Components /\ t \in CompTasks(c) /\ t \in Tasks /\ t \in Members(my_comm(c)) /\ t \notin IOTasks
  BY <1>1, TasksApart, MembersOf
<1>3. Ended(t) /\ Finish(t) /\ UNCHANGED <<bcasts, loopVars>> BY DEF Return
<1>4. /\ program' = [program EXCEPT ![t] = When(Len(Head(program[t])) > 1 /\ (Result(t) = "ok" \/ doing[t].onfail = "ignore"),
                                                  <<Tail(Head(program[t]))>>) \o Tail(program[t])]
      /\ todo' = [todo EXCEPT ![t] = IF Result(t) # "ok" /\ doing[t].onfail = "check"
                                     THEN check_netcdf(t, doing[t].comp) ELSE <<>>]
  BY DEF Return, Becomes
<1>5. ~IsIdle(t) /\ todo[t] = <<>> BY <1>3 DEF Ended
<1>6. Busy(t, c)
  <2>1. CallingAt(e, t, c) BY <1>2 DEF Follows, Calling
  <2>. QED BY <2>1, <1>5 DEF CallingAt, Busy
<1>7. PICK h : HasRoom(h, t, c) BY <1>2, <1>3, <1>6, Room
<1>8. Follows(h) /\ h.num[t][c] \in 0 .. h.last[c] - 1 BY <1>7 DEF HasRoom
<1>9. /\ Measured(h) /\ Calls(h) /\ Placed(h)
      /\ Calling(h) /\ Serving(h) /\ Carried(h) /\ Remembered(h)
  BY <1>8 DEF Follows
<1>10. PICK n : n = h.num[t][c] OBVIOUS
<1>11. PICK p, v : p = h.prog[c][n] /\ v = h.cd[c][n] OBVIOUS
<1>12. PICK g : OneFurther(h, g, t, c) BY <1>2, <1>9, FurtherExists
<1>13. EndedAt(h, t, c, n, p) BY <1>2, <1>3, <1>6, <1>8, <1>10, <1>11, EndedCall
<1>14. Finished1(t, c, p, CodeFor(t, p, v)) /\ Result(t) = CodeFor(t, p, v) /\ Result(t) \in Codes
  BY <1>2, <1>3, <1>6, <1>8, <1>10, <1>11, FinishIs
<1>15. Result(t) = CallerCode(p, v) BY <1>2, <1>14 DEF CodeFor
<1>16. program[t] = p /\ doing[t].onfail = StepOf(p).onfail /\ doing[t].comp = c
  <2>1. CallingAt(h, t, c) BY <1>2, <1>9 DEF Calling
  <2>. QED BY <2>1, <1>5, <1>10, <1>11 DEF CallingAt
<1>17. n \in 0 .. h.last[c] - 1 /\ h.last[c] \in Nat /\ p # <<>> /\ Programme(p) /\ eh[t][c] = h.hand[c][n]
  <2>1. p # <<>> /\ Programme(p) /\ eh[t][c] = h.hand[c][n] BY <1>13, Zenon DEF EndedAt
  <2>. QED BY <2>1, <1>2, <1>8, <1>9, <1>10, Numbers
<1>18. program' = [program EXCEPT ![t] = NextProgram(p, v)]
  BY <1>4, <1>15, <1>16, Zenon DEF NextProgram
<1>19. todo' = todo
  <2>1. ASSUME Result(t) # "ok", doing[t].onfail = "check" PROVE check_netcdf(t, c) = <<>>
    <3>1. v = "failed" BY <2>1, <1>14, <1>15 DEF CallerCode, Codes
    <3>2. n \in 0 .. h.last[c] BY <1>17
    <3>3. StepOf(p).msg \in Failing[h.hand[c][n]] BY <3>1, <3>2, <1>2, <1>9, <1>11, <1>17 DEF Calls
    <3>4. FailureShared(StepOf(p)) BY <1>17, StepFits
    <3>5. h.hand[c][n] # "bcast" BY <3>3, <3>4, <2>1, <1>16 DEF FailureShared
    <3>. QED BY <3>5, <1>17 DEF check_netcdf
  <2>2. todo' = [todo EXCEPT ![t] = <<>>]
    <3>1. CASE Result(t) # "ok" /\ doing[t].onfail = "check" BY <3>1, <2>1, <1>4, <1>16
    <3>2. CASE ~(Result(t) # "ok" /\ doing[t].onfail = "check") BY <3>2, <1>4, Zenon
    <3>. QED BY <3>1, <3>2
  <2>3. todo = [todo EXCEPT ![t] = todo[t]] BY <1>2 DEF Shape
  <2>. QED BY <2>2, <2>3, <1>5
<1>20. Ending(h, g, t, c, n, p, v)
  <2>1. \A u \in Tasks : u # t => todo'[u] = todo[u] BY <1>19
  <2>. QED BY <2>1, <1>6, <1>10, <1>11, <1>12, <1>13, <1>14, <1>17, Zenon DEF Ending
<1>21. Placed(g)' /\ Undecided(g)' BY <1>2, <1>8, <1>20, EndingPlaced
<1>22. ASSUME NEW d \in Components, NEW u \in Members(my_comm(d)) PROVE Recalled(g, u, d)'
  BY <1>2, <1>8, <1>20, EndingRecalled
<1>23. /\ Measured(g) /\ Calls(g) /\ Logged(g) /\ Recorded(g) /\ Ahead(g) /\ Looped(g) /\ Learned(h, g)
       /\ \A u : Reached(g, u) = Reached(h, u)
  BY <1>2, <1>8, <1>12, FurtherSame
<1>24. Logged(g)' /\ Recorded(g)' /\ Ahead(g)' /\ Top(g, io_comm)' = Top(g, io_comm)
  BY <1>3, <1>23, NoBcast
<1>25. Looped(g)' BY <1>23, <1>24, StaysLooped
<1>26. /\ IsIdle(t)' /\ code'[t] = "unknown"
       /\ \A u \in Tasks : u # t => doing'[u] = doing[u] /\ code'[u] = code[u] /\ eh'[u] = eh[u] /\ done'[u] = done[u]
       /\ doing' = [doing EXCEPT ![t] = Idle]
       /\ code' \in [Tasks -> Codes \cup {"unknown"}]
       /\ eh' \in [Tasks -> [Components -> {"bcast", "return"}]]
       /\ done' \in [Tasks -> Seq([comp : Components, call : Requests, code : Codes])]
  BY <1>14, Zenon DEF Finished1
<1>27. /\ g.prog = h.prog /\ g.num[t][c] = n + 1 /\ g.num \in [Tasks -> [Components -> Nat]]
       /\ \A u \in Tasks : \A d \in Components : u # t \/ d # c => g.num[u][d] = h.num[u][d]
  BY <1>10, <1>12, Zenon DEF OneFurther
<1>28. \A u \in Tasks : u # t => g.num[u] = h.num[u]
  <2>. SUFFICES ASSUME NEW u \in Tasks, u # t PROVE g.num[u] = h.num[u] OBVIOUS
  <2>1. g.num[u] \in [Components -> Nat] /\ h.num[u] \in [Components -> Nat] BY <1>9, <1>27 DEF Measured
  <2>2. \A d \in Components : g.num[u][d] = h.num[u][d] BY <1>27
  <2>. QED BY <2>1, <2>2
<1>29. \A u \in IOTasks : u \in Tasks /\ u # t BY <1>2, TasksApart
<1>30. Calling(g)'
  <2>. SUFFICES ASSUME NEW d \in Components, NEW u \in CompTasks(d) PROVE CallingAt(g, u, d)'
    BY DEF Calling
  <2>1. u \in Tasks /\ u \in Callers /\ CallingAt(h, u, d) BY <1>9, TasksApart DEF Calling
  <2>2. CASE u # t
    <3>1. program'[u] = program[u] BY <2>2, <1>18
    <3>2. g.num[u][d] = h.num[u][d] BY <2>1, <2>2, <1>28
    <3>3. IsIdle(u)' <=> IsIdle(u) BY <2>1, <2>2, <1>26 DEF IsIdle
    <3>. QED BY <2>1, <2>2, <3>1, <3>2, <3>3, <1>19, <1>26, <1>27 DEF CallingAt
  <2>3. CASE u = t
    <3>1. d = c BY <2>3, <1>1, TasksApart
    <3>2. program'[t] = NextProgram(p, v)
      <4>1. t \in DOMAIN program BY DEF Shape
      <4>. QED BY <4>1, <1>18
    <3>3. h.prog[c][n + 1] = NextProgram(p, v) BY <1>2, <1>9, <1>11, <1>17, NextCall, Zenon
    <3>. QED BY <2>3, <3>1, <3>2, <3>3, <1>5, <1>19, <1>26, <1>27 DEF CallingAt
  <2>. QED BY <2>2, <2>3
<1>31. Serving(g)'
  <2>. SUFFICES ASSUME NEW u \in IOTasks PROVE ServingAt(g, u)'
    BY DEF Serving
  <2>1. ServingAt(h, u) /\ u \in Tasks /\ u # t BY <1>9, <1>29 DEF Serving
  <2>2. g.num[u] = h.num[u] /\ Reached(g, u) = Reached(h, u) /\ doing'[u] = doing[u] /\ code'[u] = code[u]
    BY <2>1, <1>23, <1>26, <1>28
  <2>3. outcount'[u] = outcount[u] /\ openComps'[u] = openComps[u] /\ (u \in running' <=> u \in running)
    BY <1>3 DEF loopVars
  <2>. QED BY <2>1, <2>2, <2>3, <1>19, StaysServing
<1>32. Carried(g)'
  <2>1. ASSUME NEW d \in Components PROVE Begun(g, d)' = Begun(h, d)
    <3>1. comproot(d) \in Tasks BY TasksApart
    <3>2. CASE comproot(d) # t
      <4>1. (IsIdle(comproot(d))' <=> IsIdle(comproot(d))) /\ g.num[comproot(d)] = h.num[comproot(d)]
        BY <3>1, <3>2, <1>26, <1>28 DEF IsIdle
      <4>. QED BY <4>1 DEF Begun
    <3>3. CASE comproot(d) = t
      <4>1. d = c BY <3>3, <1>1, TasksApart
      <4>2. Begun(h, c) = n + 1 BY <4>1, <3>3, <1>5, <1>10 DEF Begun
      <4>3. Begun(g, c)' = (n + 1) + 0 BY <4>1, <3>3, <1>26, <1>27 DEF Begun
      <4>4. n \in Nat BY <1>17
      <4>. QED BY <4>1, <4>2, <4>3, <4>4
    <3>. QED BY <3>2, <3>3
  <2>. SUFFICES ASSUME NEW d \in Components, NEW m, m = h.num[ioroot][d] PROVE CarriedAt(g, d, m)'
    <3>1. g.num[ioroot] = h.num[ioroot] BY <1>28, <1>29, TasksApart
    <3>. QED BY <3>1 DEF Carried
  <2>2. CarriedAt(h, d, m) BY <1>9 DEF Carried
  <2>3. inbox' = inbox /\ listening' = listening /\ index' = index /\ messages' = messages BY <1>3 DEF loopVars
  <2>4. TakenUp' = TakenUp BY <2>3 DEF TakenUp
  <2>5. \A i : OnTheWay(g, d, i)' <=> OnTheWay(h, d, i) BY <2>1, <2>3, <1>27 DEF OnTheWay
  <2>. QED BY <2>1, <2>2, <2>3, <2>4, <2>5, <1>27 DEF CarriedAt
<1>33. ASSUME NEW u \in IOTasks PROVE HasServed(g, u, Reached(g, u).served)'
  <2>1. PICK s : s = Reached(h, u).served OBVIOUS
  <2>2. HasServed(h, u, s) /\ u \in Tasks /\ u # t BY <2>1, <1>9, <1>29 DEF Remembered
  <2>3. ASSUME NEW d \in Components PROVE h.num[u][d] <= h.last[d] /\ g.num[u][d] = h.num[u][d]
    <3>1. PlacedAt(h, u, d) BY <1>9, MembersOf DEF Placed
    <3>2. h.num[u][d] \in 0 .. h.last[d] /\ h.last[d] \in Nat BY <3>1, <1>9, Numbers DEF PlacedAt
    <3>. QED BY <3>2, <2>2, <1>28
  <2>4. done'[u] = done[u] /\ (IsIdle(u)' <=> IsIdle(u)) BY <2>2, <1>26 DEF IsIdle
  <2>5. HasServed(g, u, s)' BY <2>2, <2>3, <2>4, <1>9, <1>23, <1>27, StaysServed
  <2>. QED BY <2>1, <2>5, <1>23
<1>34. Remembered(g)' BY <1>22, <1>33 DEF Remembered
<1>35. Shape'
  <2>1. DOMAIN program' = Callers /\ DOMAIN doing' = Tasks BY <1>18, <1>26 DEF Shape
  <2>. QED BY <2>1, <1>3, <1>19, <1>26 DEF Shape, loopVars
<1>36. Batch'
  <2>1. ioroot \in Tasks /\ ioroot # t BY <1>29, TasksApart
  <2>2. doing'[ioroot] = doing[ioroot] BY <2>1, <1>26
  <2>. QED BY <2>2, <1>3, <1>19 DEF Batch, TakenUp, IsIdle, loopVars
<1>37. Follows(g)'
  BY <1>21, <1>23, <1>24, <1>25, <1>30, <1>31, <1>32, <1>34 DEF Follows
<1>. QED BY <1>35, <1>36, <1>37 DEF Kept

\* What an I/O task leaves that ends a handler, told by the place s of the loop.
Leaves(t, s) ==
  /\ outcount'[t] = s.left /\ openComps'[t] = s.open
  /\ t \in running' <=> s.at # "over"
  /\ todo'[t] = IF s.at = "index" THEN NextRequest
                ELSE IF s.at = "count" /\ t # ioroot THEN <<Bcast(io_comm, ioroot, Outcount)>> ELSE <<>>
  /\ \A u \in IOTasks : u # t => /\ outcount'[u] = outcount[u] /\ openComps'[u] = openComps[u]
                                 /\ u \in running' <=> u \in running
  /\ \A u \in Tasks : u # t => todo'[u] = todo[u]
  /\ outcount' \in [IOTasks -> 0 .. NumComponents] /\ openComps' \in [IOTasks -> 0 .. NumComponents]
  /\ running' \subseteq IOTasks /\ todo' \in [Tasks -> Seq(Meetings)]

LEMMA HandlerLeaves ==
  ASSUME Shape, NEW t \in IOTasks, EndHandler(t), NEW h, NEW s, Sound(s), NEW c, c = doing[t].comp, InHandler(h, t, s, c)
  PROVE  Leaves(t, s)
<1>1. t \in Tasks BY TasksApart
<1>2. PICK final \in BOOLEAN : final <=> doing[t].msg = "EXIT" OBVIOUS
<1>3. PICK out \in BOOLEAN : out <=> final /\ openComps[t] = 1 OBVIOUS
<1>4. PICK left : left = outcount[t] - 1 OBVIOUS
<1>5. PICK b : b = Bcast(io_comm, ioroot, Outcount) OBVIOUS
<1>6. /\ outcount' = [outcount EXCEPT ![t] = left]
      /\ openComps' = [openComps EXCEPT ![t] = IF final THEN openComps[t] - 1 ELSE openComps[t]]
      /\ running' = (IF out THEN running \ {t} ELSE running)
      /\ todo' = [todo EXCEPT ![t] = IF out THEN <<>> ELSE IF left > 0 THEN NextRequest
                                     ELSE When(t # ioroot, <<b>>)]
  BY <1>2, <1>3, <1>4, <1>5 DEF EndHandler, Becomes
<1>7. /\ t \in running /\ outcount[t] = s.left + 1 /\ s.left < NumComponents
      /\ openComps[t] = (IF final THEN s.open + 1 ELSE s.open) /\ openComps[t] \in 1 .. NumComponents
      /\ s.at = (IF final /\ s.open = 0 THEN "over" ELSE IF s.left > 0 THEN "index" ELSE "count")
  BY <1>2 DEF InHandler
<1>8. s.left \in 0 .. NumComponents /\ s.open \in 0 .. NumComponents /\ NumComponents \in Nat
  BY AsyncAssumption DEF Sound, LoopStates
<1>9. left = s.left BY <1>4, <1>7, <1>8
<1>10. out <=> s.at = "over" BY <1>3, <1>7, <1>8
<1>11. PICK o : o = IF final THEN openComps[t] - 1 ELSE openComps[t] OBVIOUS
<1>12. o = s.open BY <1>7, <1>8, <1>11
<1>13. PICK x : x = IF out THEN <<>> ELSE IF left > 0 THEN NextRequest ELSE When(t # ioroot, <<b>>) OBVIOUS
<1>14. x = IF s.at = "index" THEN NextRequest ELSE IF s.at = "count" /\ t # ioroot THEN <<b>> ELSE <<>>
  BY <1>7, <1>9, <1>10, <1>13 DEF When
<1>15. x \in Seq(Meetings)
  <2>1. NextRequest \in Seq(Meetings) /\ b \in Meetings BY <1>5, LoopBcasts
  <2>2. <<b>> \in Seq(Meetings) /\ <<>> \in Seq(Meetings) BY <2>1
  <2>. QED BY <2>1, <2>2, <1>14
<1>16. outcount' = [outcount EXCEPT ![t] = s.left] /\ openComps' = [openComps EXCEPT ![t] = s.open]
  BY <1>6, <1>9, <1>11, <1>12
<1>17. todo' = [todo EXCEPT ![t] = x] BY <1>6, <1>13
<1>18. /\ outcount \in [IOTasks -> 0 .. NumComponents] /\ openComps \in [IOTasks -> 0 .. NumComponents]
       /\ running \subseteq IOTasks /\ todo \in [Tasks -> Seq(Meetings)]
  BY DEF Shape
<1>19. /\ outcount'[t] = s.left /\ openComps'[t] = s.open
       /\ outcount' \in [IOTasks -> 0 .. NumComponents] /\ openComps' \in [IOTasks -> 0 .. NumComponents]
       /\ \A u \in IOTasks : u # t => outcount'[u] = outcount[u] /\ openComps'[u] = openComps[u]
  BY <1>8, <1>16, <1>18
<1>20. /\ todo'[t] = x /\ todo' \in [Tasks -> Seq(Meetings)]
       /\ \A u \in Tasks : u # t => todo'[u] = todo[u]
  BY <1>1, <1>15, <1>17, <1>18
<1>21. /\ running' \subseteq IOTasks /\ (t \in running' <=> s.at # "over")
       /\ \A u \in IOTasks : u # t => (u \in running' <=> u \in running)
  BY <1>6, <1>7, <1>10, <1>18
<1>. QED BY <1>5, <1>14, <1>19, <1>20, <1>21, Zenon DEF Leaves

\* It waits in the loop for what the loop asks for next.
LEMMA BackInLoop ==
  ASSUME NEW h, NEW g, NEW t \in IOTasks, NEW s, Sound(s), NEW c \in Components, InHandler(h, t, s, c), Leaves(t, s),
         IsIdle(t)', doing'[t].comp = 0, code'[t] = "unknown",
         Reached(g, t) = s, g.num[t][c] = h.num[t][c] + 1, \A d \in Components : d # c => g.num[t][d] = h.num[t][d]
  PROVE  ServingAt(g, t)'
<1>1. /\ outcount'[t] = s.left /\ openComps'[t] = s.open /\ (t \in running' <=> s.at # "over")
      /\ todo'[t] = IF s.at = "index" THEN NextRequest
                    ELSE IF s.at = "count" /\ t # ioroot THEN <<Bcast(io_comm, ioroot, Outcount)>> ELSE <<>>
  BY DEF Leaves
<1>2. s.at \in {"over", "index", "count"} /\ s.num[c] = h.num[t][c] + 1 /\ \A d \in Components \ {c} : s.num[d] = h.num[t][d]
  BY DEF InHandler
<1>3. Waiting(t, s)' BY <1>1, <1>2 DEF Waiting
<1>4. \A d \in Components : g.num[t][d] = s.num[d] BY <1>2
<1>5. (Reached(g, t) = s)' BY DEF Reached
<1>. QED BY <1>3, <1>4, <1>5 DEF ServingAt

\* The call it has ended is the last of those the loop has served.
LEMMA EndingServed ==
  ASSUME ProgramsFit, Shape, NEW h, Follows(h), NEW c \in Components, NEW t \in IOTasks,
         NEW g, NEW n, NEW p, NEW v, Ending(h, g, t, c, n, p, v),
         NEW s, s = Reached(h, t), Sound(s), InHandler(h, t, s, c)
  PROVE  HasServed(g, t, s.served)'
<1>1. n = h.num[t][c] /\ n \in 0 .. h.last[c] - 1 /\ p = h.prog[c][n] /\ v = h.cd[c][n] BY Zenon DEF Ending
<1>2. Finished1(t, c, p, CodeFor(t, p, v)) BY Zenon DEF Ending
<1>3. OneFurther(h, g, t, c) BY Zenon DEF Ending
<1>4. Busy(t, c) BY Zenon DEF Ending
<1>5. t \in Tasks BY TasksApart
<1>6. /\ g.prog = h.prog /\ g.cd = h.cd /\ g.num[t][c] = n + 1
      /\ \A x \in Tasks : \A y \in Components : x # t \/ y # c => g.num[x][y] = h.num[x][y]
  BY <1>1, <1>3, Zenon DEF OneFurther
<1>7. PICK r : r = s.served OBVIOUS
<1>8. HasServed(h, t, r) BY <1>7 DEF Follows, Remembered
<1>9. ~IsIdle(t) BY <1>4 DEF Busy
<1>10. PICK e, T : e = Entry(c, p, CodeFor(t, p, v)) /\ T = [comp : Components, call : Requests, code : Codes] OBVIOUS
<1>11. done' = [done EXCEPT ![t] = Append(done[t], e)] /\ done' \in [Tasks -> Seq(T)] /\ IsIdle(t)'
  BY <1>2, <1>10, Zenon DEF Finished1
<1>12. done \in [Tasks -> Seq(T)] BY <1>10 DEF Shape
<1>13. done[t] \in Seq(T) /\ done'[t] \in Seq(T) /\ done'[t] = Append(done[t], e) BY <1>5, <1>11, <1>12
<1>14. PICK d \in Seq(T) : d = done[t] BY <1>13
<1>15. PICK w \in Seq(T) : w = done'[t] BY <1>13
<1>16. w = Append(d, e) BY <1>13, <1>14, <1>15
<1>17. Len(w) = Len(d) + 1 /\ w[Len(d) + 1] = e /\ Len(d) \in Nat /\ \A i \in 1 .. Len(d) : w[i] = d[i] BY <1>16
<1>18. Len(r) = Len(d) + 1
  BY <1>8, <1>9, <1>14 DEF HasServed
<1>19. \A i \in 1 .. Len(d) : /\ r[i][1] \in Components /\ r[i][2] \in 0 .. h.num[t][r[i][1]] - 1
                              /\ d[i] = EntryFor(h, t, r[i][1], r[i][2])
  BY <1>8, <1>14 DEF HasServed
<1>20. r[Len(r)] = <<c, n>> BY <1>1, <1>7 DEF InHandler
<1>21. n \in Nat
  <2>1. h.last[c] \in Nat BY Numbers DEF Follows
  <2>. QED BY <2>1, <1>1
<1>22. \A x, y, z : EntryFor(g, x, y, z) = EntryFor(h, x, y, z) BY <1>6 DEF EntryFor
<1>23. ASSUME NEW i \in 1 .. Len(w)
       PROVE  /\ r[i][1] \in Components /\ r[i][2] \in 0 .. g.num[t][r[i][1]] - 1
              /\ w[i] = EntryFor(g, t, r[i][1], r[i][2])
  <2>1. CASE i = Len(w)
    <3>1. r[i] = <<c, n>> /\ w[i] = e BY <2>1, <1>17, <1>18, <1>20
    <3>2. n \in 0 .. g.num[t][c] - 1 BY <1>6, <1>21
    <3>3. e = EntryFor(g, t, c, n) BY <1>1, <1>6, <1>10 DEF EntryFor
    <3>4. r[i][1] = c /\ r[i][2] = n BY <3>1
    <3>. QED BY <3>1, <3>2, <3>3, <3>4
  <2>2. CASE i # Len(w)
    <3>1. i \in 1 .. Len(d) BY <2>2, <1>17
    <3>2. PICK x, m : x = r[i][1] /\ m = r[i][2] OBVIOUS
    <3>3. x \in Components /\ m \in 0 .. h.num[t][x] - 1 /\ w[i] = EntryFor(h, t, x, m)
      BY <3>1, <3>2, <1>17, <1>19
    <3>4. h.num[t][x] <= g.num[t][x] /\ g.num[t][x] \in Nat /\ h.num[t][x] \in Nat
      <4>1. h.num[t][x] \in Nat BY <3>3, <1>5, Numbers DEF Follows
      <4>2. CASE x = c
        <5>1. h.num[t][x] = n /\ g.num[t][x] = n + 1 BY <4>2, <1>1, <1>6
        <5>. QED BY <5>1, <1>21
      <4>3. CASE x # c
        <5>1. g.num[t][x] = h.num[t][x] BY <4>3, <3>3, <1>5, <1>6, Zenon
        <5>. QED BY <5>1, <4>1
      <4>. QED BY <4>2, <4>3
    <3>5. m \in 0 .. g.num[t][x] - 1
      <4>1. PICK a, b : a = h.num[t][x] /\ b = g.num[t][x] OBVIOUS
      <4>2. a \in Nat /\ b \in Nat /\ a <= b /\ m \in 0 .. a - 1 BY <4>1, <3>3, <3>4
      <4>3. m \in 0 .. b - 1 BY <4>2
      <4>. QED BY <4>1, <4>3
    <3>. QED BY <3>2, <3>3, <3>5, <1>22
  <2>. QED BY <2>1, <2>2
<1>24. \A i \in 1 .. Len(w) : /\ r[i][1] \in Components /\ r[i][2] \in 0 .. g.num[t][r[i][1]] - 1
                              /\ w[i] = EntryFor(g, t, r[i][1], r[i][2])
  BY <1>23
<1>25. Len(r) = Len(w) + 0 BY <1>17, <1>18
<1>26. HasServed(g, t, r)' BY <1>11, <1>15, <1>24, <1>25 DEF HasServed
<1>. QED BY <1>7, <1>26

\* ioroot has handled the first of its batch, and listens to the component
\* again unless it is gone.
Handled(c, final) ==
  /\ index' = Tail(index) /\ TakenUp' = TakenUp \ {c}
  /\ listening' = IF final THEN listening ELSE listening \cup {c}
  /\ c \in TakenUp /\ c \notin listening
  /\ index' \in Seq(Components) /\ Len(index') = Cardinality(TakenUp') /\ Len(index) = Len(index') + 1
  /\ \A i, j \in DOMAIN index' : i # j => index'[i] # index'[j]
  /\ listening' \cap TakenUp' = {} /\ listening' \subseteq Components
  /\ Cardinality(listening' \cup TakenUp') = IF final THEN openComps[ioroot] - 1 ELSE openComps[ioroot]
  /\ Cardinality(TakenUp') <= Cardinality(listening' \cup TakenUp')

LEMMA HandledIs ==
  ASSUME Shape, Batch, ~IsIdle(ioroot), NEW c \in Components, c = doing[ioroot].comp,
         NEW final \in BOOLEAN,
         index' = Tail(index), listening' = IF final THEN listening ELSE listening \cup {c}
  PROVE  Handled(c, final)
<1>1. PICK x \in Seq(Components) : x = index BY DEF Shape
<1>2. x # <<>> /\ x[1] = c BY <1>1 DEF Batch
<1>3. PICK y \in Seq(Components) : y = Tail(x)
  <2>1. Tail(x) \in Seq(Components) BY <1>2
  <2>. QED BY <2>1
<1>4. Len(x) \in Nat /\ Len(x) > 0 /\ Len(y) = Len(x) - 1 /\ \A i \in 1 .. Len(y) : y[i] = x[i + 1] BY <1>2, <1>3
<1>5. index' = y BY <1>1, <1>3
<1>6. \A i, j \in 1 .. Len(x) : i # j => x[i] # x[j] BY <1>1 DEF Batch
<1>7. PICK U : U = TakenUp OBVIOUS
<1>8. U = {x[i] : i \in 1 .. Len(x)} BY <1>1, <1>7 DEF TakenUp
<1>9. TakenUp' = {y[i] : i \in 1 .. Len(y)}
  <2>1. DOMAIN y = 1 .. Len(y) OBVIOUS
  <2>2. TakenUp' = {y[i] : i \in DOMAIN y} BY <1>5, Zenon DEF TakenUp
  <2>. QED BY <2>1, <2>2, Zenon
<1>10. {y[i] : i \in 1 .. Len(y)} = U \ {c}
  <2>1. ASSUME NEW i \in 1 .. Len(y) PROVE y[i] \in U \ {c}
    <3>1. i + 1 \in 1 .. Len(x) /\ 1 \in 1 .. Len(x) /\ i + 1 # 1 BY <1>4
    <3>. QED BY <3>1, <1>2, <1>4, <1>6, <1>8
  <2>2. ASSUME NEW z \in U \ {c} PROVE \E i \in 1 .. Len(y) : z = y[i]
    <3>1. PICK i \in 1 .. Len(x) : z = x[i] BY <1>8
    <3>2. i # 1 BY <3>1, <1>2
    <3>3. i - 1 \in 1 .. Len(y) /\ (i - 1) + 1 = i BY <3>2, <1>4
    <3>. QED BY <3>1, <3>3, <1>4
  <2>. QED BY <2>1, <2>2
<1>11. TakenUp' = U \ {c} BY <1>9, <1>10
<1>12. c \in U BY <1>2, <1>4, <1>8
<1>13. listening \cap U = {} /\ Cardinality(U) = Len(x) /\ openComps[ioroot] = Cardinality(listening \cup U)
  BY <1>1, <1>7 DEF Batch
<1>14. listening \subseteq Components /\ U \subseteq Components BY <1>8 DEF Shape
<1>15. IsFiniteSet(Components)
  <2>1. NumComponents \in Nat BY AsyncAssumption
  <2>. QED BY <2>1, FS_Interval DEF Components
<1>16. IsFiniteSet(U) /\ IsFiniteSet(listening \cup U) /\ IsFiniteSet(U \ {c}) BY <1>14, <1>15, FS_Subset
<1>17. Cardinality(U \ {c}) = Cardinality(U) - 1 BY <1>12, <1>16, FS_RemoveElement
<1>18. PICK L : L = IF final THEN listening ELSE listening \cup {c} OBVIOUS
<1>19. L \cap (U \ {c}) = {} /\ L \subseteq Components BY <1>13, <1>14, <1>18
<1>20. Cardinality(L \cup (U \ {c})) = IF final THEN openComps[ioroot] - 1 ELSE openComps[ioroot]
  <2>1. CASE final
    <3>1. L \cup (U \ {c}) = (listening \cup U) \ {c} BY <2>1, <1>12, <1>13, <1>18
    <3>2. Cardinality((listening \cup U) \ {c}) = Cardinality(listening \cup U) - 1
      BY <1>12, <1>16, FS_RemoveElement
    <3>. QED BY <2>1, <3>1, <3>2, <1>13
  <2>2. CASE ~final
    <3>1. L \cup (U \ {c}) = listening \cup U BY <2>2, <1>12, <1>18
    <3>. QED BY <2>2, <3>1, <1>13
  <2>. QED BY <2>1, <2>2
<1>21. Cardinality(U \ {c}) <= Cardinality(L \cup (U \ {c}))
  <2>1. IsFiniteSet(L \cup (U \ {c})) BY <1>14, <1>15, <1>19, FS_Subset
  <2>2. U \ {c} \subseteq L \cup (U \ {c}) OBVIOUS
  <2>. QED BY <2>1, <2>2, FS_Subset
<1>22. listening' = L BY <1>18
<1>23. \A i, j \in DOMAIN y : i # j => y[i] # y[j]
  <2>. SUFFICES ASSUME NEW i \in 1 .. Len(y), NEW j \in 1 .. Len(y), i # j PROVE y[i] # y[j] OBVIOUS
  <2>1. i + 1 \in 1 .. Len(x) /\ j + 1 \in 1 .. Len(x) /\ i + 1 # j + 1 BY <1>4
  <2>. QED BY <2>1, <1>4, <1>6
<1>24. Len(x) = Len(y) + 1 /\ Len(y) = Cardinality(U \ {c}) BY <1>4, <1>13, <1>17
<1>25. c \notin listening BY <1>12, <1>13
<1>26. index' = Tail(index) OBVIOUS
<1>27. index' \in Seq(Components) BY <1>5
<1>28. Len(index') = Cardinality(TakenUp') /\ Len(index) = Len(index') + 1 BY <1>1, <1>5, <1>11, <1>24
<1>29. \A i, j \in DOMAIN index' : i # j => index'[i] # index'[j] BY <1>5, <1>23
<1>30. listening' \cap TakenUp' = {} /\ listening' \subseteq Components BY <1>11, <1>19, <1>22
<1>31. /\ Cardinality(listening' \cup TakenUp') = IF final THEN openComps[ioroot] - 1 ELSE openComps[ioroot]
       /\ Cardinality(TakenUp') <= Cardinality(listening' \cup TakenUp')
  BY <1>11, <1>20, <1>21, <1>22
<1>. QED BY <1>7, <1>11, <1>12, <1>25, <1>26, <1>27, <1>28, <1>29, <1>30, <1>31 DEF Handled

\* An I/O task ends a handler.
LEMMA EndHandlerKeeps ==
  ASSUME ProgramsFit, Shape, Batch, NEW e, Follows(e), NEW t \in IOTasks, EndHandler(t)
  PROVE  Kept
<1>1. t \in Tasks BY TasksApart
<1>2. /\ Ended(t) /\ Finish(t) /\ UNCHANGED <<program, bcasts, inbox, messages>>
      /\ listening' = Listen(t) /\ index' = IF t = ioroot THEN Tail(index) ELSE index
  BY DEF EndHandler
<1>3. ~IsIdle(t) /\ todo[t] = <<>> BY <1>2 DEF Ended
<1>4. PICK c \in Components : t \in Members(my_comm(c)) /\ Busy(t, c) BY <1>1, <1>3, InSomeCall
<1>5. c = doing[t].comp BY <1>4 DEF Busy
<1>6. PICK h : HasRoom(h, t, c) BY <1>2, <1>4, Room
<1>7. Follows(h) /\ h.num[t][c] \in 0 .. h.last[c] - 1 BY <1>6 DEF HasRoom
<1>8. Measured(h) /\ Calls(h) /\ Placed(h) /\ Calling(h) /\ Serving(h) /\ Carried(h) /\ Remembered(h)
  BY <1>7 DEF Follows
<1>9. PICK n : n = h.num[t][c] OBVIOUS
<1>10. PICK p, v : p = h.prog[c][n] /\ v = h.cd[c][n] OBVIOUS
<1>11. PICK g : OneFurther(h, g, t, c) BY <1>1, <1>8, FurtherExists
<1>12. EndedAt(h, t, c, n, p) BY <1>2, <1>4, <1>7, <1>9, <1>10, EndedCall
<1>13. Finished1(t, c, p, CodeFor(t, p, v)) BY <1>2, <1>4, <1>7, <1>9, <1>10, FinishIs
<1>14. PICK s : s = Reached(h, t) OBVIOUS
<1>15. Sound(s) /\ InHandler(h, t, s, c)
  <2>1. ServingAt(h, t) /\ Sound(Reached(h, t)) BY <1>7, InTheLoop
  <2>. QED BY <2>1, <1>3, <1>5, <1>14 DEF ServingAt
<1>16. Leaves(t, s) BY <1>5, <1>15, HandlerLeaves
<1>17. \A u \in Tasks : u # t => todo'[u] = todo[u] BY <1>16, Zenon DEF Leaves
<1>18. n \in 0 .. h.last[c] - 1 /\ h.last[c] \in Nat /\ n \in Nat
  <2>1. h.last[c] \in Nat BY <1>8, Numbers
  <2>. QED BY <2>1, <1>7, <1>9
<1>19. Ending(h, g, t, c, n, p, v)
  BY <1>4, <1>9, <1>10, <1>11, <1>12, <1>13, <1>17, <1>18, Zenon DEF Ending
<1>20. Placed(g)' /\ Undecided(g)' BY <1>4, <1>7, <1>19, EndingPlaced
<1>21. ASSUME NEW d \in Components, NEW u \in Members(my_comm(d)) PROVE Recalled(g, u, d)'
  BY <1>4, <1>7, <1>19, EndingRecalled
<1>22. /\ Measured(g) /\ Calls(g) /\ Logged(g) /\ Recorded(g) /\ Ahead(g) /\ Looped(g) /\ Learned(h, g)
       /\ \A u : Reached(g, u) = Reached(h, u)
  BY <1>1, <1>7, <1>11, FurtherSame
<1>23. Logged(g)' /\ Recorded(g)' /\ Ahead(g)' /\ Top(g, io_comm)' = Top(g, io_comm)
  BY <1>2, <1>22, NoBcast
<1>24. Looped(g)' BY <1>22, <1>23, StaysLooped
<1>25. /\ IsIdle(t)' /\ doing'[t].comp = 0 /\ code'[t] = "unknown"
       /\ \A u \in Tasks : u # t => doing'[u] = doing[u] /\ code'[u] = code[u] /\ eh'[u] = eh[u] /\ done'[u] = done[u]
       /\ doing' = [doing EXCEPT ![t] = Idle]
       /\ code' \in [Tasks -> Codes \cup {"unknown"}]
       /\ eh' \in [Tasks -> [Components -> {"bcast", "return"}]]
       /\ done' \in [Tasks -> Seq([comp : Components, call : Requests, code : Codes])]
  BY <1>13, Zenon DEF Finished1
<1>26. /\ g.prog = h.prog /\ g.last = h.last /\ g.num[t][c] = n + 1 /\ g.num \in [Tasks -> [Components -> Nat]]
       /\ \A u \in Tasks : \A d \in Components : u # t \/ d # c => g.num[u][d] = h.num[u][d]
  BY <1>9, <1>11, Zenon DEF OneFurther
<1>27. \A u \in Tasks : u # t => g.num[u] = h.num[u]
  <2>. SUFFICES ASSUME NEW u \in Tasks, u # t PROVE g.num[u] = h.num[u] OBVIOUS
  <2>1. g.num[u] \in [Components -> Nat] /\ h.num[u] \in [Components -> Nat] BY <1>8, <1>26 DEF Measured
  <2>2. \A d \in Components : g.num[u][d] = h.num[u][d] BY <1>26
  <2>. QED BY <2>1, <2>2
<1>28. PICK final \in BOOLEAN : final <=> doing[t].msg = "EXIT" OBVIOUS
<1>29. listening' = IF t = ioroot THEN (IF final THEN listening ELSE listening \cup {c}) ELSE listening
  BY <1>2, <1>5, <1>28, Zenon DEF Listen
<1>30. t = ioroot => Handled(c, final)
  <2>. SUFFICES ASSUME t = ioroot PROVE Handled(c, final) OBVIOUS
  <2>1. index' = Tail(index) /\ listening' = (IF final THEN listening ELSE listening \cup {c}) BY <1>2, <1>29
  <2>. QED BY <2>1, <1>3, <1>5, HandledIs
<1>31. t # ioroot => index' = index /\ listening' = listening /\ TakenUp' = TakenUp
  BY <1>2, <1>29 DEF TakenUp
<1>32. Calling(g)'
  <2>. SUFFICES ASSUME NEW d \in Components, NEW u \in CompTasks(d) PROVE CallingAt(g, u, d)'
    BY DEF Calling
  <2>1. u \in Tasks /\ u # t /\ CallingAt(h, u, d) BY <1>8, TasksApart DEF Calling
  <2>2. g.num[u][d] = h.num[u][d] BY <2>1, <1>27
  <2>3. (IsIdle(u)' <=> IsIdle(u)) /\ doing'[u] = doing[u] /\ code'[u] = code[u] /\ todo'[u] = todo[u]
    BY <2>1, <1>17, <1>25 DEF IsIdle
  <2>. QED BY <2>1, <2>2, <2>3, <1>2, <1>26 DEF CallingAt
<1>33. Serving(g)'
  <2>. SUFFICES ASSUME NEW u \in IOTasks PROVE ServingAt(g, u)'
    BY DEF Serving
  <2>1. ServingAt(h, u) /\ u \in Tasks BY <1>8, TasksApart DEF Serving
  <2>2. CASE u # t
    <3>1. g.num[u] = h.num[u] /\ Reached(g, u) = Reached(h, u) /\ doing'[u] = doing[u] /\ code'[u] = code[u] /\ todo'[u] = todo[u]
      BY <2>1, <2>2, <1>17, <1>22, <1>25, <1>27
    <3>2. outcount'[u] = outcount[u] /\ openComps'[u] = openComps[u] /\ (u \in running' <=> u \in running)
      BY <2>2, <1>16 DEF Leaves
    <3>. QED BY <2>1, <3>1, <3>2, StaysServing
  <2>3. CASE u = t
    <3>1. Reached(g, t) = s BY <1>14, <1>22
    <3>2. g.num[t][c] = h.num[t][c] + 1 /\ \A d \in Components : d # c => g.num[t][d] = h.num[t][d]
      BY <1>1, <1>9, <1>26
    <3>. QED BY <2>3, <3>1, <3>2, <1>15, <1>16, <1>25, BackInLoop
  <2>. QED BY <2>2, <2>3
<1>34. \A d \in Components : Begun(g, d)' = Begun(h, d)
  <2>. SUFFICES ASSUME NEW d \in Components PROVE Begun(g, d)' = Begun(h, d) OBVIOUS
  <2>1. comproot(d) \in Tasks /\ comproot(d) # t BY TasksApart
  <2>2. (IsIdle(comproot(d))' <=> IsIdle(comproot(d))) /\ g.num[comproot(d)] = h.num[comproot(d)]
    BY <2>1, <1>25, <1>27 DEF IsIdle
  <2>. QED BY <2>2 DEF Begun
<1>35. \A d \in Components : \A i : OnTheWay(g, d, i)' <=> OnTheWay(h, d, i)
  BY <1>2, <1>26, <1>34 DEF OnTheWay
<1>36. Carried(g)'
  <2>. SUFFICES ASSUME NEW d \in Components, NEW m, m = g.num[ioroot][d] PROVE CarriedAt(g, d, m)'
    BY DEF Carried
  <2>1. PICK i : i = h.num[ioroot][d] OBVIOUS
  <2>2. CarriedAt(h, d, i) BY <2>1, <1>8 DEF Carried
  <2>3. CASE t # ioroot
    <3>1. m = i BY <2>1, <2>3, <1>27, TasksApart
    <3>. QED BY <3>1, <2>2, <2>3, <1>2, <1>26, <1>31, <1>34, <1>35 DEF CarriedAt
  <2>4. CASE t = ioroot /\ d # c
    <3>1. m = i BY <2>1, <2>4, <1>26, TasksApart
    <3>2. Handled(c, final) BY <2>4, <1>30
    <3>3. (d \in TakenUp' <=> d \in TakenUp) /\ (d \in listening' <=> d \in listening) BY <3>2, <2>4 DEF Handled
    <3>. QED BY <3>1, <3>3, <2>2, <1>2, <1>26, <1>34, <1>35 DEF CarriedAt
  <2>5. CASE t = ioroot /\ d = c
    <3>1. i = n /\ m = n + 1 BY <2>1, <2>5, <1>9, <1>26
    <3>2. Handled(c, final) BY <2>5, <1>30
    <3>3. /\ c \in TakenUp /\ c \notin TakenUp' /\ c \notin listening
          /\ ~final => c \in listening'
      BY <3>2 DEF Handled
    <3>4. OnTheWay(g, c, m)' BY <2>2, <2>5, <3>1, <3>3, <1>35 DEF CarriedAt
    <3>5. final => StepOf(p).msg = "EXIT"
      <4>1. Makes(t, p) BY <1>12, Zenon DEF EndedAt
      <4>. QED BY <4>1, <1>28 DEF Makes
    <3>6. g.prog[c][m - 1] = p /\ m > 0
      <4>1. m - 1 = n BY <3>1, <1>18
      <4>. QED BY <4>1, <3>1, <1>10, <1>18, <1>26
    <3>. QED BY <2>5, <3>3, <3>4, <3>5, <3>6 DEF CarriedAt
  <2>. QED BY <2>3, <2>4, <2>5
<1>37. ASSUME NEW u \in IOTasks PROVE HasServed(g, u, Reached(g, u).served)'
  <2>1. CASE u # t
    <3>1. PICK q : q = Reached(h, u).served OBVIOUS
    <3>2. HasServed(h, u, q) /\ u \in Tasks BY <3>1, <1>8, TasksApart DEF Remembered
    <3>3. ASSUME NEW d \in Components PROVE h.num[u][d] <= h.last[d] /\ g.num[u][d] = h.num[u][d]
      <4>1. PlacedAt(h, u, d) BY <1>8, MembersOf DEF Placed
      <4>2. h.num[u][d] \in 0 .. h.last[d] /\ h.last[d] \in Nat BY <4>1, <1>8, Numbers DEF PlacedAt
      <4>. QED BY <4>2, <3>2, <2>1, <1>27
    <3>4. done'[u] = done[u] /\ (IsIdle(u)' <=> IsIdle(u)) BY <3>2, <2>1, <1>25 DEF IsIdle
    <3>5. HasServed(g, u, q)' BY <3>2, <3>3, <3>4, <1>8, <1>22, <1>26, StaysServed
    <3>. QED BY <3>1, <3>5, <1>22
  <2>2. CASE u = t
    <3>1. HasServed(g, t, s.served)' BY <1>4, <1>7, <1>14, <1>15, <1>19, EndingServed
    <3>. QED BY <3>1, <2>2, <1>14, <1>22
  <2>. QED BY <2>1, <2>2
<1>38. Remembered(g)' BY <1>21, <1>37 DEF Remembered
<1>39. Shape'
  <2>1. DOMAIN program' = Callers /\ DOMAIN doing' = Tasks BY <1>2, <1>25 DEF Shape
  <2>2. /\ outcount' \in [IOTasks -> 0 .. NumComponents] /\ openComps' \in [IOTasks -> 0 .. NumComponents]
        /\ running' \subseteq IOTasks /\ todo' \in [Tasks -> Seq(Meetings)]
    BY <1>16, Zenon DEF Leaves
  <2>3. listening' \subseteq Components /\ index' \in Seq(Components)
    <3>1. CASE t = ioroot BY <3>1, <1>30 DEF Handled
    <3>2. CASE t # ioroot BY <3>2, <1>31 DEF Shape
    <3>. QED BY <3>1, <3>2
  <2>4. bcasts' \in [Comms -> Seq(Packets)] /\ inbox' \in [Components -> Seq(Requests)] /\ DOMAIN messages' = Components
    BY <1>2 DEF Shape
  <2>. QED BY <2>1, <2>2, <2>3, <2>4, <1>25 DEF Shape
<1>40. Batch'
  <2>1. CASE t # ioroot
    <3>1. ioroot \in Tasks /\ ioroot \in IOTasks BY TasksApart
    <3>2. doing'[ioroot] = doing[ioroot] /\ todo'[ioroot] = todo[ioroot] BY <2>1, <3>1, <1>17, <1>25
    <3>3. outcount'[ioroot] = outcount[ioroot] /\ openComps'[ioroot] = openComps[ioroot]
      BY <2>1, <3>1, <1>16 DEF Leaves
    <3>. QED BY <2>1, <3>2, <3>3, <1>31 DEF Batch, IsIdle
  <2>2. CASE t = ioroot
    <3>1. Handled(c, final) BY <2>2, <1>30
    <3>2. IsIdle(ioroot)' /\ doing'[ioroot].comp = 0 BY <2>2, <1>25
    <3>3. /\ outcount'[ioroot] = s.left /\ openComps'[ioroot] = s.open
          /\ todo'[ioroot] = IF s.at = "index" THEN NextRequest ELSE <<>>
      BY <2>2, <1>16 DEF Leaves
    <3>4. /\ outcount[ioroot] = s.left + 1 /\ openComps[ioroot] = (IF final THEN s.open + 1 ELSE s.open)
          /\ s.at = (IF final /\ s.open = 0 THEN "over" ELSE IF s.left > 0 THEN "index" ELSE "count")
      BY <2>2, <1>15, <1>28 DEF InHandler
    <3>5. s.left \in Nat /\ s.open \in Nat /\ s.left <= s.open
      <4>1. s.left \in 0 .. NumComponents /\ s.open \in 0 .. NumComponents BY <1>15 DEF Sound, LoopStates
      <4>. QED BY <4>1, <1>15 DEF Sound
    <3>6. Len(index) = outcount[ioroot] BY <2>2, <1>3 DEF Batch
    <3>7. PICK y \in Seq(Components) : y = index' BY <3>1 DEF Handled
    <3>8. Len(y) = s.left
      <4>1. Len(index) = Len(y) + 1 BY <3>1, <3>7 DEF Handled
      <4>2. Len(y) \in Nat OBVIOUS
      <4>. QED BY <4>1, <4>2, <3>4, <3>5, <3>6
    <3>9. openComps'[ioroot] = Cardinality(listening' \cup TakenUp')
      <4>1. Cardinality(listening' \cup TakenUp') = IF final THEN openComps[ioroot] - 1 ELSE openComps[ioroot]
        BY <3>1 DEF Handled
      <4>. QED BY <4>1, <3>3, <3>4, <3>5
    <3>10. NextRequest # <<>> /\ NextRequest # <<Bcast(io_comm, ioroot, Outcount)>>
      BY DEF NextRequest
    <3>11. IF todo'[ioroot] \in {<<>>, <<Bcast(io_comm, ioroot, Outcount)>>}
           THEN index' = <<>> <=> todo'[ioroot] = <<>>
           ELSE Len(index') = outcount'[ioroot]
      <4>1. CASE s.at = "index" BY <4>1, <3>3, <3>7, <3>8, <3>10
      <4>2. CASE s.at # "index"
        <5>1. s.left = 0 BY <4>2, <3>4, <3>5
        <5>2. y = <<>> BY <5>1, <3>8
        <5>. QED BY <4>2, <5>2, <3>3, <3>7
      <4>. QED BY <4>1, <4>2
    <3>12. /\ \A i, j \in DOMAIN index' : i # j => index'[i] # index'[j]
           /\ listening' \cap TakenUp' = {} /\ Len(index') = Cardinality(TakenUp')
      BY <3>1 DEF Handled
    <3>. QED BY <3>2, <3>9, <3>11, <3>12 DEF Batch
  <2>. QED BY <2>1, <2>2
<1>41. Follows(g)'
  BY <1>20, <1>22, <1>23, <1>24, <1>32, <1>33, <1>36, <1>38 DEF Follows
<1>. QED BY <1>39, <1>40, <1>41 DEF Kept

-----------------------------------------------------------------------------
(* The history at the start, in every step and throughout.                 *)

\* No call is made yet; every component is about to begin its program.
AtFirst(h, choice, e) ==
  /\ h.low = [comm \in Comms |-> 0] /\ h.pos = [comm \in Comms |-> [t \in Tasks |-> 0]]
  /\ h.prog = [c \in Components |-> [n \in Nat |-> Unfolded(choice[c])]]
  /\ h.cd = [c \in Components |-> [n \in Nat |-> "unknown"]]
  /\ h.hand = [c \in Components |-> [n \in Nat |-> e]]
  /\ h.sp = [c \in Components |-> [n \in Nat |-> 0]] /\ h.st = [c \in Components |-> [n \in Nat |-> 0]]
  /\ h.last = [c \in Components |-> 0] /\ h.num = [t \in Tasks |-> [c \in Components |-> 0]]
  /\ h.loop = [p \in Nat |-> LoopStart]

LEMMA FirstHistory == \A choice, e : \E h : AtFirst(h, choice, e)
<1>. SUFFICES ASSUME NEW choice, NEW e PROVE \E h : AtFirst(h, choice, e) OBVIOUS
<1>. DEFINE h == [low |-> [comm \in Comms |-> 0], pos |-> [comm \in Comms |-> [t \in Tasks |-> 0]],
                  prog |-> [c \in Components |-> [n \in Nat |-> Unfolded(choice[c])]],
                  cd |-> [c \in Components |-> [n \in Nat |-> "unknown"]],
                  hand |-> [c \in Components |-> [n \in Nat |-> e]],
                  sp |-> [c \in Components |-> [n \in Nat |-> 0]], st |-> [c \in Components |-> [n \in Nat |-> 0]],
                  last |-> [c \in Components |-> 0], num |-> [t \in Tasks |-> [c \in Components |-> 0]],
                  loop |-> [p \in Nat |-> LoopStart], log |-> <<>>]
<1>1. AtFirst(h, choice, e) BY DEF AtFirst
<1>. QED BY <1>1

LEMMA NothingDone == \A c : PartOf(<<>>, c) = <<>>
<1>. SUFFICES ASSUME NEW c PROVE PartOf(<<>>, c) = <<>> OBVIOUS
<1>1. PICK s \in Seq({}) : s = <<>>
  <2>1. <<>> \in Seq({}) OBVIOUS
  <2>. QED BY <2>1
<1>2. PICK f : BuildsPart(f, s, c, {}) /\ PartOf(s, c) = f[Len(s)] BY PartIs
<1>3. Len(s) = 0 /\ f[0] = <<>> BY <1>1, <1>2 DEF BuildsPart
<1>. QED BY <1>1, <1>2, <1>3

LEMMA InitShape ==
  ASSUME Init
  PROVE  Shape /\ Batch
<1>1. NumComponents \in Nat /\ ErrorHandlers \subseteq {"bcast", "return"} BY AsyncAssumption
<1>2. /\ DOMAIN program = Callers /\ doing = [t \in Tasks |-> Idle]
      /\ todo = [t \in Tasks |-> IF t \in IOTasks \ {ioroot} THEN <<Bcast(io_comm, ioroot, Outcount)>> ELSE <<>>]
      /\ code = [t \in Tasks |-> "unknown"]
      /\ \E h \in ErrorHandlers : eh = [t \in Tasks |-> [c \in Components |-> h]]
      /\ done = [t \in Tasks |-> <<>>] /\ bcasts = [comm \in Comms |-> <<>>]
      /\ inbox = [c \in Components |-> <<>>] /\ listening = Components /\ index = <<>>
      /\ messages = [c \in Components |-> NoMsg]
      /\ outcount = [t \in IOTasks |-> 0] /\ openComps = [t \in IOTasks |-> NumComponents] /\ running = IOTasks
  BY DEF Init
<1>3. todo \in [Tasks -> Seq(Meetings)]
  <2>1. PICK m \in Meetings : m = Bcast(io_comm, ioroot, Outcount) BY LoopBcasts
  <2>2. <<m>> \in Seq(Meetings) /\ <<>> \in Seq(Meetings) OBVIOUS
  <2>3. todo = [t \in Tasks |-> IF t \in IOTasks \ {ioroot} THEN <<m>> ELSE <<>>] BY <1>2, <2>1
  <2>. QED BY <2>2, <2>3
<1>4. eh \in [Tasks -> [Components -> {"bcast", "return"}]]
  <2>1. PICK h \in ErrorHandlers : eh = [t \in Tasks |-> [c \in Components |-> h]] BY <1>2
  <2>2. h \in {"bcast", "return"} BY <1>1
  <2>. QED BY <2>1, <2>2
<1>5. done \in [Tasks -> Seq([comp : Components, call : Requests, code : Codes])]
  <2>. DEFINE E == [comp : Components, call : Requests, code : Codes]
  <2>1. <<>> \in Seq(E) OBVIOUS
  <2>. HIDE DEF E
  <2>2. done \in [Tasks -> Seq(E)] BY <1>2, <2>1
  <2>. QED BY <2>2 DEF E
<1>6. Shape
  <2>1. DOMAIN doing = Tasks /\ DOMAIN messages = Components BY <1>2
  <2>2. code \in [Tasks -> Codes \cup {"unknown"}] BY <1>2
  <2>3. bcasts \in [Comms -> Seq(Packets)] /\ inbox \in [Components -> Seq(Requests)] /\ index \in Seq(Components)
    <3>1. <<>> \in Seq(Packets) /\ <<>> \in Seq(Requests) /\ <<>> \in Seq(Components) OBVIOUS
    <3>. QED BY <3>1, <1>2
  <2>4. /\ outcount \in [IOTasks -> 0 .. NumComponents] /\ openComps \in [IOTasks -> 0 .. NumComponents]
        /\ listening \subseteq Components /\ running \subseteq IOTasks
    BY <1>1, <1>2
  <2>. QED BY <1>2, <1>3, <1>4, <1>5, <2>1, <2>2, <2>3, <2>4 DEF Shape
<1>7. Batch
  <2>1. TakenUp = {} /\ Len(index) = 0 BY <1>2 DEF TakenUp
  <2>2. Cardinality({}) = 0 BY FS_EmptySet
  <2>3. Cardinality(Components) = NumComponents /\ listening \cup TakenUp = Components
    <3>1. Cardinality(1 .. NumComponents) = NumComponents BY <1>1, FS_Interval
    <3>. QED BY <3>1, <2>1, <1>2 DEF Components
  <2>4. /\ openComps[ioroot] = NumComponents /\ IsIdle(ioroot) /\ doing[ioroot].comp = 0 /\ todo[ioroot] = <<>>
    <3>1. ioroot \in Tasks /\ ioroot \in IOTasks BY TasksApart
    <3>. QED BY <3>1, <1>2 DEF IsIdle, Idle
  <2>. QED BY <2>1, <2>2, <2>3, <2>4, <1>2 DEF Batch
<1>. QED BY <1>6, <1>7

LEMMA InitFollows ==
  ASSUME ProgramsFit, Init
  PROVE  History
<1>1. Shape /\ Batch BY InitShape
<1>2. /\ doing = [t \in Tasks |-> Idle]
      /\ todo = [t \in Tasks |-> IF t \in IOTasks \ {ioroot} THEN <<Bcast(io_comm, ioroot, Outcount)>> ELSE <<>>]
      /\ code = [t \in Tasks |-> "unknown"]
      /\ done = [t \in Tasks |-> <<>>] /\ bcasts = [comm \in Comms |-> <<>>]
      /\ inbox = [c \in Components |-> <<>>] /\ listening = Components /\ index = <<>>
      /\ outcount = [t \in IOTasks |-> 0] /\ openComps = [t \in IOTasks |-> NumComponents] /\ running = IOTasks
  BY DEF Init
<1>3. PICK e \in ErrorHandlers : eh = [t \in Tasks |-> [c \in Components |-> e]] BY DEF Init
<1>4. PICK choice :
        /\ \A c \in Components : choice[c] \in Programs[c]
        /\ program = [t \in Callers |-> Unfolded(choice[t[1]])]
  BY DEF Init
<1>5. PICK h : AtFirst(h, choice, e) BY FirstHistory
<1>6. NumComponents \in Nat /\ e \in {"bcast", "return"} BY <1>3, AsyncAssumption
<1>7. /\ \A comm \in Comms : h.low[comm] = 0 /\ \A t \in Tasks : h.pos[comm][t] = 0
      /\ \A c \in Components : /\ h.last[c] = 0 /\ h.prog[c][0] = Unfolded(choice[c]) /\ h.hand[c][0] = e
                              /\ h.cd[c][0] = "unknown" /\ h.sp[c][0] = 0 /\ h.st[c][0] = 0
                              /\ \A t \in Tasks : h.num[t][c] = 0
      /\ h.loop[0] = LoopStart
  BY <1>5 DEF AtFirst
<1>8. Measured(h)
  <2>1. h.low \in [Comms -> Nat] /\ h.last \in [Components -> Nat] BY <1>5 DEF AtFirst
  <2>2. h.pos \in [Comms -> [Tasks -> Nat]] BY <1>5 DEF AtFirst
  <2>3. h.sp \in [Components -> [Nat -> Nat]] /\ h.st \in [Components -> [Nat -> Nat]] BY <1>5 DEF AtFirst
  <2>4. h.num \in [Tasks -> [Components -> Nat]] BY <1>5 DEF AtFirst
  <2>. QED BY <2>1, <2>2, <2>3, <2>4 DEF Measured
<1>9. \A c \in Components : Programme(h.prog[c][0]) BY <1>4, <1>7 DEF ProgramsFit
<1>10. Calls(h)
  <2>1. \A c \in Components : 0 .. h.last[c] = {0} /\ 0 .. h.last[c] - 1 = {} /\ 0 .. 0 - 1 = {} BY <1>7
  <2>. QED BY <2>1, <1>6, <1>7, <1>9 DEF Calls
<1>11. \A comm \in Comms : Len(bcasts[comm]) = 0 /\ Top(h, comm) = 0 BY <1>2, <1>7 DEF Top
<1>12. Logged(h)
  <2>. SUFFICES ASSUME NEW comm \in Comms PROVE InLine(h.log[comm], h.pos[comm], h.low[comm], bcasts[comm], Members(comm))
    BY DEF Logged
  <2>1. \A u \in Members(comm) : h.pos[comm][u] = 0 BY <1>7, MembersAreTasks
  <2>2. h.low[comm] = 0 /\ Len(bcasts[comm]) = 0 BY <1>7, <1>11
  <2>. QED BY <2>1, <2>2 DEF InLine
<1>13. ASSUME NEW c \in Components, h.prog[c][0] # <<>>
       PROVE  /\ Params(h.prog[c][0]) \in Nat /\ Len(FullScript(h, c, 0)) \in Nat
              /\ Params(h.prog[c][0]) <= Len(FullScript(h, c, 0))
  <2>1. IsCall(h, c, 0) BY <1>7, <1>13 DEF IsCall
  <2>2. PICK P, a, l : P = Params(h.prog[c][0]) /\ a = Len(Agreed(c, h.prog[c][0])) /\ l = Len(FullScript(h, c, 0)) OBVIOUS
  <2>3. P \in Nat /\ a \in Nat /\ l \in Nat /\ P < a /\ a <= l BY <2>1, <2>2, <1>8, <1>10, CallIs
  <2>. QED BY <2>2, <2>3
<1>14. Recorded(h)
  <2>. SUFFICES ASSUME NEW c \in Components, NEW n \in 0 .. h.last[c], h.prog[c][n] # <<>>,
                       NEW k \in 1 .. Len(FullScript(h, c, n)), NEW b, b = FullScript(h, c, n)[k],
                       Place(h, c, n, k) <= Top(h, b.on)
                PROVE  FALSE
    BY DEF Recorded
  <2>1. n = 0 BY <1>7
  <2>2. PICK P : P = Params(h.prog[c][0]) OBVIOUS
  <2>3. P \in Nat /\ k \in Nat /\ k > 0 BY <2>1, <2>2, <1>13
  <2>4. Place(h, c, 0, k) = (IF k <= P THEN 0 + k ELSE 0 + (k - P)) BY <2>2, <1>7 DEF Place
  <2>5. Place(h, c, 0, k) > 0 BY <2>3, <2>4
  <2>6. b.on \in Comms
    <3>1. IsCall(h, c, 0) BY <2>1, <1>7 DEF IsCall
    <3>2. IsScript(c, h.prog[c][0], Len(Agreed(c, h.prog[c][0])), FullScript(h, c, 0)) BY <3>1, <1>8, <1>10, CallIs
    <3>3. FullScript(h, c, 0) \in Seq(Meetings) BY <3>2 DEF IsScript
    <3>4. b \in Meetings BY <3>3, <2>1
    <3>. QED BY <3>4 DEF Meetings
  <2>7. Place(h, c, 0, k) <= 0 BY <2>1, <2>6, <1>11
  <2>. QED BY <2>3, <2>4, <2>7
<1>15. Ahead(h)
  <2>. SUFFICES ASSUME NEW c \in Components
                PROVE  IF h.prog[c][0] = <<>>
                       THEN Top(h, intercomm(c)) <= h.sp[c][0] /\ Top(h, my_comm(c)) <= h.st[c][0]
                       ELSE Top(h, intercomm(c)) <= EndOfParams(h, c, 0) /\ Top(h, my_comm(c)) <= EndOfCall(h, c, 0)
    BY <1>7 DEF Ahead
  <2>1. Top(h, intercomm(c)) = 0 /\ Top(h, my_comm(c)) = 0 /\ h.sp[c][0] = 0 /\ h.st[c][0] = 0
    BY <1>7, <1>11, CommsApart
  <2>2. CASE h.prog[c][0] # <<>>
    <3>1. PICK P, l : P = Params(h.prog[c][0]) /\ l = Len(FullScript(h, c, 0)) OBVIOUS
    <3>2. P \in Nat /\ l \in Nat /\ P <= l BY <3>1, <2>2, <1>13
    <3>3. EndOfParams(h, c, 0) = 0 + P /\ EndOfCall(h, c, 0) = 0 + (l - P) BY <3>1, <2>1 DEF EndOfParams, EndOfCall
    <3>. QED BY <2>1, <2>2, <3>2, <3>3
  <2>. QED BY <2>1, <2>2
<1>16. \A t \in Tasks : IsIdle(t) /\ doing[t].comp = 0 /\ code[t] = "unknown" BY <1>2 DEF IsIdle, Idle
<1>17. Placed(h)
  <2>. SUFFICES ASSUME NEW c \in Components, NEW t \in Members(my_comm(c)) PROVE PlacedAt(h, t, c) BY DEF Placed
  <2>1. t \in Tasks BY MembersAreTasks, CommsApart
  <2>2. ~Busy(t, c) BY <2>1, <1>16 DEF Busy
  <2>3. AtRest(h, t, c) BY <2>1, <1>7, CommsApart DEF AtRest
  <2>4. eh[t][c] = e BY <2>1, <1>3
  <2>. QED BY <2>1, <2>2, <2>3, <2>4, <1>7 DEF PlacedAt
<1>18. Undecided(h)
  <2>1. \A c \in Components : \A n \in 0 .. h.last[c] : n = 0 BY <1>7
  <2>. QED BY <2>1, <1>7 DEF Undecided
<1>19. Calling(h)
  <2>. SUFFICES ASSUME NEW c \in Components, NEW t \in CompTasks(c) PROVE CallingAt(h, t, c) BY DEF Calling
  <2>1. t \in Tasks /\ t \in Callers /\ t \notin IOTasks /\ t[1] = c BY TasksApart
  <2>2. program[t] = Unfolded(choice[c]) /\ todo[t] = <<>> BY <2>1, <1>2, <1>4
  <2>. QED BY <2>1, <2>2, <1>7, <1>16 DEF CallingAt
<1>20. Sound(LoopStart) /\ LoopStart.left = 0 /\ LoopStart.open = NumComponents /\ LoopStart.at = "count"
       /\ LoopStart.comp = 0 /\ LoopStart.served = <<>> /\ \A c \in Components : LoopStart.num[c] = 0
  <2>1. PICK z : z = [c \in Components |-> 0] OBVIOUS
  <2>2. z \in [Components -> Nat] /\ \A c \in Components : z[c] = 0 BY <2>1
  <2>3. LoopStart = [at |-> "count", left |-> 0, comp |-> 0, num |-> z, served |-> <<>>, open |-> NumComponents]
    BY <2>1 DEF LoopStart
  <2>4. <<>> \in Seq(Components \X Nat) OBVIOUS
  <2>5. LoopStart \in LoopStates BY <2>2, <2>3, <2>4, <1>6 DEF LoopStates
  <2>. QED BY <2>2, <2>3, <2>5, <1>6 DEF Sound
<1>21. Looped(h)
  <2>1. Top(h, io_comm) = 0 BY <1>11, CommsApart
  <2>2. 0 .. 0 = {0} /\ 0 .. 0 - 1 = {} OBVIOUS
  <2>3. Begins(h.loop[0].served, h.loop[0].served)
    <3>1. Len(h.loop[0].served) = 0 BY <1>7, <1>20
    <3>. QED BY <3>1 DEF Begins
  <2>. QED BY <2>1, <2>2, <2>3, <1>7, <1>20 DEF Looped
<1>22. \A t \in IOTasks : Reached(h, t) = LoopStart
  BY <1>7, CommsApart, TasksApart DEF Reached
<1>23. Serving(h)
  <2>. SUFFICES ASSUME NEW t \in IOTasks PROVE ServingAt(h, t) BY DEF Serving
  <2>1. t \in Tasks BY TasksApart
  <2>2. PICK s : s = LoopStart OBVIOUS
  <2>3. todo[t] = <<Bcast(io_comm, ioroot, Outcount)>> \/ (t = ioroot /\ todo[t] = <<>>) BY <2>1, <1>2
  <2>4. outcount[t] = 0 /\ openComps[t] = NumComponents /\ t \in running BY <1>2
  <2>5. Waiting(t, s) BY <2>1, <2>2, <2>3, <2>4, <1>16, <1>20 DEF Waiting
  <2>. QED BY <2>1, <2>2, <2>5, <1>7, <1>16, <1>20, <1>22 DEF ServingAt
<1>24. Carried(h)
  <2>. SUFFICES ASSUME NEW c \in Components PROVE CarriedAt(h, c, 0)
    BY <1>7, TasksApart DEF Carried
  <2>1. TakenUp = {} BY <1>2 DEF TakenUp
  <2>2. Begun(h, c) = 0 BY <1>7, <1>16, TasksApart DEF Begun
  <2>3. Len(inbox[c]) = 0 BY <1>2
  <2>4. OnTheWay(h, c, 0) BY <2>2, <2>3 DEF OnTheWay
  <2>. QED BY <2>1, <2>4, <1>2 DEF CarriedAt
<1>25. Remembered(h)
  <2>1. ASSUME NEW c \in Components, NEW t \in Members(my_comm(c)) PROVE Recalled(h, t, c)
    <3>1. t \in Tasks BY MembersAreTasks, CommsApart
    <3>2. done[t] = <<>> /\ OfComp(t, c) = <<>> BY <3>1, <1>2, NothingDone DEF OfComp
    <3>. QED BY <3>1, <3>2, <1>7 DEF Recalled
  <2>2. ASSUME NEW t \in IOTasks PROVE HasServed(h, t, Reached(h, t).served)
    <3>1. t \in Tasks BY TasksApart
    <3>2. done[t] = <<>> /\ Reached(h, t).served = <<>> BY <3>1, <1>2, <1>20, <1>22
    <3>. QED BY <3>1, <3>2, <1>16 DEF HasServed
  <2>. QED BY <2>1, <2>2 DEF Remembered
<1>26. Follows(h)
  BY <1>8, <1>10, <1>12, <1>14, <1>15, <1>17, <1>18, <1>19, <1>21, <1>23, <1>24, <1>25 DEF Follows
<1>. QED BY <1>1, <1>26 DEF History

\* A step that changes nothing.
LEMMA StutterKeeps ==
  ASSUME Shape, Batch, NEW h, Follows(h), UNCHANGED vars
  PROVE  Kept
<1>1. UNCHANGED <<program, doing, todo, code, eh, done, bcasts, inbox, listening,
                  index, messages, outcount, openComps, running>>
  BY DEF vars
<1>2. /\ Measured(h) /\ Calls(h) /\ Logged(h) /\ Recorded(h) /\ Ahead(h) /\ Placed(h) /\ Undecided(h)
      /\ Calling(h) /\ Looped(h) /\ Serving(h) /\ Carried(h) /\ Remembered(h)
  BY DEF Follows
<1>3. Shape' BY <1>1 DEF Shape
<1>4. \A t : IsIdle(t)' <=> IsIdle(t) BY <1>1 DEF IsIdle
<1>5. TakenUp' = TakenUp BY <1>1 DEF TakenUp
<1>6. Batch' BY <1>1, <1>4, <1>5 DEF Batch
<1>7. Logged(h)' /\ Recorded(h)' /\ Ahead(h)' /\ (\A comm : Top(h, comm)' = Top(h, comm)) BY <1>1, <1>2, NoBcast
<1>8. Placed(h)'
  <2>. SUFFICES ASSUME NEW c \in Components, NEW u \in Members(my_comm(c)) PROVE PlacedAt(h, u, c)'
    BY MembersOf DEF Placed
  <2>1. u \in Tasks /\ PlacedAt(h, u, c) BY <1>2, MembersAreTasks, CommsApart DEF Placed
  <2>. QED BY <2>1, <1>1, <1>2, SameStays DEF Untouched
<1>9. Undecided(h)' BY <1>1, <1>2, <1>4 DEF Undecided, Busy
<1>10. Calling(h)' BY <1>1, <1>2, <1>4 DEF Calling, CallingAt
<1>11. Looped(h)' BY <1>2, <1>7, StaysLooped
<1>12. Serving(h)'
  <2>. SUFFICES ASSUME NEW u \in IOTasks PROVE ServingAt(h, u)' BY DEF Serving
  <2>. QED BY <1>1, <1>2, StaysServing DEF Serving
<1>13. Carried(h)'
  <2>1. \A c : Begun(h, c)' = Begun(h, c) BY <1>4 DEF Begun
  <2>2. \A c, m : OnTheWay(h, c, m)' <=> OnTheWay(h, c, m) BY <1>1, <2>1 DEF OnTheWay
  <2>. QED BY <1>1, <1>2, <1>5, <2>1, <2>2 DEF Carried, CarriedAt
<1>14. Remembered(h)'
  <2>1. \A u, c : OfComp(u, c)' = OfComp(u, c) BY <1>1 DEF OfComp
  <2>2. \A u, c : Recalled(h, u, c)' <=> Recalled(h, u, c) BY <1>1, <2>1 DEF Recalled
  <2>3. \A u, s : HasServed(h, u, s)' <=> HasServed(h, u, s) BY <1>1, <1>4 DEF HasServed
  <2>. QED BY <1>2, <2>2, <2>3 DEF Remembered
<1>15. Follows(h)'
  BY <1>2, <1>7, <1>8, <1>9, <1>10, <1>11, <1>12, <1>13, <1>14 DEF Follows
<1>. QED BY <1>3, <1>6, <1>15 DEF Kept

LEMMA StepKeeps ==
  ASSUME ProgramsFit, History, [Next]_vars
  PROVE  History'
<1>1. PICK h : Follows(h) BY DEF History
<1>2. Shape /\ Batch BY DEF History
<1>3. ASSUME NEW t \in Callers, CallerStep(t) PROVE Kept
  <2>1. t \in Tasks BY TasksApart
  <2>2. CASE Begin(t) BY <2>2, <1>1, <1>2, BeginKeeps
  <2>3. CASE Exchange(t) BY <2>1, <2>3, <1>1, <1>2, ExchangeKeeps
  <2>4. CASE TakeCode(t) BY <2>1, <2>4, <1>1, <1>2, TakeCodeKeeps
  <2>5. CASE Return(t) BY <2>5, <1>1, <1>2, ReturnKeeps
  <2>. QED BY <2>2, <2>3, <2>4, <2>5, <1>3, Zenon DEF CallerStep, InCall
<1>4. ASSUME NEW t \in IOTasks, IOStep(t) PROVE Kept
  <2>1. t \in Tasks BY TasksApart
  <2>2. CASE t = ioroot /\ Waitsome BY <2>2, <1>1, <1>2, WaitsomeKeeps
  <2>3. CASE TakeOutcount(t) BY <2>3, <1>1, <1>2, TakeOutcountKeeps
  <2>4. CASE TakeIndex(t) BY <2>4, <1>1, <1>2, TakeIndexKeeps
  <2>5. CASE Dispatch(t) BY <2>5, <1>1, <1>2, DispatchKeeps
  <2>6. CASE Exchange(t) BY <2>1, <2>6, <1>1, <1>2, ExchangeKeeps
  <2>7. CASE TakeCode(t) BY <2>1, <2>7, <1>1, <1>2, TakeCodeKeeps
  <2>8. CASE OwnCode(t) BY <2>1, <2>8, <1>1, <1>2, OwnCodeKeeps
  <2>9. CASE EndHandler(t) BY <2>9, <1>1, <1>2, EndHandlerKeeps
  <2>. QED BY <2>2, <2>3, <2>4, <2>5, <2>6, <2>7, <2>8, <2>9, <1>4, Zenon DEF IOStep, InCall
<1>5. ASSUME UNCHANGED vars PROVE Kept BY <1>1, <1>2, <1>5, StutterKeeps
<1>6. ASSUME Terminated PROVE Kept
  <2>1. UNCHANGED vars BY <1>6 DEF Terminated
  <2>. QED BY <2>1, <1>5
<1>7. Kept
  <2>1. CASE Next BY <2>1, <1>3, <1>4, <1>6, Zenon DEF Next
  <2>2. CASE UNCHANGED vars BY <2>2, <1>5
  <2>. QED BY <2>1, <2>2
<1>. QED BY <1>7 DEF Kept, History

\* The inductive invariant: the tasks and the broadcasts follow one history.
THEOREM FollowsHistory ==
  ASSUME ProgramsFit
  PROVE  Spec => []History
<1>1. Init => History BY InitFollows
<1>2. History /\ [Next]_vars => History' BY StepKeeps
<1>. QED BY <1>1, <1>2, PTL DEF Spec

-----------------------------------------------------------------------------
(* What follows from the history.                                          *)

LEMMA MeetingsMatch == ASSUME ProgramsFit, History PROVE Matched
<1>1. Shape BY DEF History
<1>2. PICK h : Follows(h) BY DEF History
<1>3. /\ Measured(h) /\ Calls(h) /\ Logged(h) /\ Recorded(h) /\ Placed(h) /\ Looped(h) /\ Serving(h)
  BY <1>2 DEF Follows
<1>4. SUFFICES ASSUME NEW t \in Tasks, todo[t] # <<>>, NEW b, b = Head(todo[t]), Pending(b.on, t) # {}
               PROVE  b.root # t /\ NextBcast(b.on, t).root = b.root /\ NextBcast(b.on, t).item = b.item
  BY DEF Matched
<1>5. CASE \E c \in Components : t \in Members(my_comm(c)) /\ Busy(t, c)
  <2>1. PICK c \in Components : t \in Members(my_comm(c)) /\ Busy(t, c) BY <1>5
  <2>2. PlacedAt(h, t, c) BY <2>1, <1>3 DEF Placed
  <2>3. PICK n, k : AtStep(h, t, c, n, k, b) BY <2>1, <2>2, <1>1, <1>3, <1>4, NextInCall
  <2>4. PICK j : j = k + 1 OBVIOUS
  <2>5. /\ IsCall(h, c, n) /\ j \in 1 .. Len(FullScript(h, c, n)) /\ b = FullScript(h, c, n)[j]
        /\ b \in Meetings /\ t \in Members(b.on) /\ h.pos[b.on][t] + 1 = Place(h, c, n, j)
    BY <2>3, <2>4, Zenon DEF AtStep
  <2>6. PICK comm \in Comms : comm = b.on BY <2>5 DEF Meetings
  <2>15. PICK x, q, top : x = Place(h, c, n, j) /\ q = h.pos[comm][t] /\ top = Top(h, comm) OBVIOUS
  <2>16. t \in Members(comm) /\ q + 1 = x BY <2>5, <2>6, <2>15
  <2>17. Pending(comm, t) # {} BY <2>6, <1>4
  <2>7. /\ q < top /\ NextBcast(comm, t).root # t
        /\ NextBcast(comm, t).root = h.log[comm][q + 1].root
        /\ NextBcast(comm, t).item = h.log[comm][q + 1].item
    BY <2>15, <2>16, <2>17, <1>1, <1>3, NextInLine
  <2>8. q \in Nat /\ top \in Nat BY <2>15, <1>1, <1>3, Numbers
  <2>9. x <= top BY <2>7, <2>8, <2>16
  <2>10. n \in 0 .. h.last[c] /\ h.prog[c][n] # <<>> BY <2>5 DEF IsCall
  <2>11. IsEntry(h.log[comm][x], b, h.cd[c][n]) BY <2>5, <2>6, <2>9, <2>10, <2>15, <1>3 DEF Recorded
  <2>12. h.log[comm][x].root = b.root /\ h.log[comm][x].item = b.item
    BY <2>11 DEF IsEntry
  <2>. QED BY <2>6, <2>7, <2>12, <2>16
<1>6. CASE ~ \E c \in Components : t \in Members(my_comm(c)) /\ Busy(t, c)
  <2>1. IsIdle(t) /\ b.item \in {Outcount, Index, Msg} BY <1>1, <1>2, <1>4, <1>6, InSomeCall
  <2>2. t \in IOTasks
    <3>1. CASE t \in Callers
      <4>1. CallingAt(h, t, t[1]) BY <3>1, <1>2, TasksApart DEF Follows, Calling
      <4>. QED BY <4>1, <2>1, <1>4 DEF CallingAt
    <3>. QED BY <3>1, TasksApart
  <2>3. PICK p, s : p = h.pos[io_comm][t] /\ s = Reached(h, t) OBVIOUS
  <2>4. p \in 0 .. Top(h, io_comm) /\ Top(h, io_comm) \in Nat /\ Sound(s) /\ ServingAt(h, t)
    BY <2>2, <2>3, <1>1, <1>2, InTheLoop
  <2>5. Waiting(t, s) BY <2>1, <2>3, <2>4 DEF ServingAt
  <2>6. s.at \in {"count", "index", "msg", "over"} BY <2>4 DEF Sound, LoopStates
  <2>7. /\ s.at = "count" => b = Bcast(io_comm, ioroot, Outcount)
        /\ s.at = "index" => b = Bcast(io_comm, ioroot, Index)
        /\ s.at = "msg" => b = Bcast(io_comm, ioroot, Msg)
        /\ s.at # "over"
    BY <2>5, <1>4, LoopBcasts DEF Waiting
  <2>8. /\ b.on = io_comm /\ b.root = ioroot /\ (s.at = "count" => b.item = Outcount)
        /\ (s.at = "index" => b.item = Index) /\ (s.at = "msg" => b.item = Msg)
    BY <2>6, <2>7, LoopBcasts
  <2>9. t \in Members(io_comm) /\ io_comm \in Comms BY <2>2, CommsApart, MembersOf
  <2>10. /\ p < Top(h, io_comm) /\ NextBcast(io_comm, t).root # t
         /\ NextBcast(io_comm, t).root = h.log[io_comm][p + 1].root
         /\ NextBcast(io_comm, t).item = h.log[io_comm][p + 1].item
    BY <2>3, <2>8, <2>9, <1>1, <1>3, <1>4, NextInLine
  <2>11. PICK e : e = h.log[io_comm][p + 1] OBVIOUS
  <2>12. LoopStep(h, s, e, h.loop[p + 1])
    <3>1. p \in 0 .. Top(h, io_comm) - 1 BY <2>4, <2>10
    <3>2. s = h.loop[p] BY <2>3 DEF Reached
    <3>. QED BY <3>1, <3>2, <2>11, <1>3 DEF Looped
  <2>13. /\ e.root = ioroot /\ (s.at = "count" => e.item = Outcount)
         /\ (s.at = "index" => e.item = Index) /\ (s.at = "msg" => e.item = Msg)
    BY <2>12 DEF LoopStep
  <2>. QED BY <2>6, <2>7, <2>8, <2>10, <2>11, <2>13
<1>. QED BY <1>5, <1>6

LEMMA HandlersTold == ASSUME History PROVE HandlersAgree
<1>1. PICK h : Follows(h) BY DEF History
<1>2. SUFFICES ASSUME NEW c \in Components, NEW t \in Members(my_comm(c)), NEW u \in Members(my_comm(c)),
                      Len(OfComp(t, c)) = Len(OfComp(u, c))
               PROVE  eh[t][c] = eh[u][c]
  BY DEF HandlersAgree
<1>3. Recalled(h, t, c) /\ Recalled(h, u, c) /\ PlacedAt(h, t, c) /\ PlacedAt(h, u, c)
  BY <1>1 DEF Follows, Remembered, Placed
<1>4. h.num[t][c] = h.num[u][c] BY <1>2, <1>3 DEF Recalled
<1>. QED BY <1>3, <1>4 DEF PlacedAt

\* Of two tasks of the loop, the calls of the one that has served fewer are
\* the first calls of the other.
LEMMA ServedTheSame ==
  ASSUME Shape, NEW h, Follows(h), NEW t \in IOTasks, NEW u \in IOTasks, h.pos[io_comm][t] <= h.pos[io_comm][u]
  PROVE  IsPrefix(done[t], done[u]) \/ IsPrefix(done[u], done[t])
<1>1. PICK a, b : a = Reached(h, t).served /\ b = Reached(h, u).served OBVIOUS
<1>2. Begins(a, b)
  <2>1. /\ h.pos[io_comm][t] \in 0 .. Top(h, io_comm)
        /\ h.pos[io_comm][u] \in 0 .. Top(h, io_comm) BY InTheLoop
  <2>2. Looped(h) BY DEF Follows
  <2>. QED BY <2>1, <2>2, <1>1 DEF Looped, Reached
<1>3. HasServed(h, t, a) /\ HasServed(h, u, b) BY <1>1 DEF Follows, Remembered
<1>4. PICK T : T = [comp : Components, call : Requests, code : Codes] OBVIOUS
<1>5. done \in [Tasks -> Seq(T)] /\ t \in Tasks /\ u \in Tasks BY <1>4, TasksApart DEF Shape
<1>6. done[t] \in Seq(T) /\ done[u] \in Seq(T) BY <1>5
<1>7. PICK x \in Seq(T) : x = done[t] BY <1>6
<1>8. PICK y \in Seq(T) : y = done[u] BY <1>6
<1>9. Len(x) \in Nat /\ Len(y) \in Nat /\ Len(x) <= Len(a)
  <2>1. Len(a) = Len(x) + (IF IsIdle(t) THEN 0 ELSE 1) /\ Len(x) \in Nat BY <1>3, <1>7 DEF HasServed
  <2>. QED BY <2>1
<1>10. ASSUME NEW i, i \in 1 .. Len(x), i \in 1 .. Len(y) PROVE x[i] = y[i]
  <2>1. a[i] = b[i]
    <3>1. i \in 1 .. Len(a)
      <4>1. Len(a) = Len(x) + (IF IsIdle(t) THEN 0 ELSE 1) BY <1>3, <1>7 DEF HasServed
      <4>. QED BY <4>1, <1>9, <1>10
    <3>. QED BY <3>1, <1>2 DEF Begins
  <2>2. PICK d, m : d = a[i][1] /\ m = a[i][2] OBVIOUS
  <2>3. x[i] = EntryFor(h, t, d, m) BY <2>2, <1>3, <1>7, <1>10 DEF HasServed
  <2>4. y[i] = EntryFor(h, u, d, m) BY <2>1, <2>2, <1>3, <1>8, <1>10 DEF HasServed
  <2>5. EntryFor(h, t, d, m) = EntryFor(h, u, d, m) BY DEF EntryFor, CodeFor
  <2>. QED BY <2>3, <2>4, <2>5
<1>11. ASSUME NEW v \in Seq(T), NEW w \in Seq(T), Len(v) <= Len(w), \A i \in 1 .. Len(v) : v[i] = w[i]
       PROVE  IsPrefix(v, w)
  <2>1. Len(v) \in Nat /\ Len(w) \in Nat OBVIOUS
  <2>2. SubSeq(v, 1, Len(v)) \in Seq(T) /\ SubSeq(w, 1, Len(v)) \in Seq(T)
    <3>1. \A i \in 1 .. Len(v) : v[i] \in T /\ w[i] \in T BY <1>11, <2>1
    <3>. QED BY <3>1, <2>1, <1>11
  <2>3. PICK r \in Seq(T) : r = SubSeq(v, 1, Len(v)) BY <2>2
  <2>4. PICK s \in Seq(T) : s = SubSeq(w, 1, Len(v)) BY <2>2
  <2>5. Len(r) = Len(v) /\ \A i \in 1 .. Len(v) : r[i] = v[i] BY <2>1, <2>3
  <2>6. Len(s) = Len(v) /\ \A i \in 1 .. Len(v) : s[i] = w[i] BY <2>1, <2>4, <1>11
  <2>7. r = s
    <3>1. PICK n \in Nat : n = Len(v) BY <2>1
    <3>2. r \in [1 .. n -> T] /\ s \in [1 .. n -> T] BY <3>1, <2>5, <2>6
    <3>3. \A i \in 1 .. n : r[i] = s[i] BY <3>1, <2>5, <2>6, <1>11
    <3>. QED BY <3>2, <3>3
  <2>. QED BY <2>3, <2>4, <2>7, <1>11 DEF IsPrefix
<1>12. CASE Len(x) <= Len(y)
  <2>1. \A i \in 1 .. Len(x) : x[i] = y[i] BY <1>9, <1>10, <1>12
  <2>2. IsPrefix(x, y) BY <2>1, <1>11, <1>12
  <2>. QED BY <2>2, <1>7, <1>8
<1>13. CASE Len(y) < Len(x)
  <2>1. \A i \in 1 .. Len(y) : y[i] = x[i] BY <1>9, <1>10, <1>13
  <2>2. IsPrefix(y, x) BY <2>1, <1>9, <1>11, <1>13
  <2>. QED BY <2>2, <1>7, <1>8
<1>. QED BY <1>9, <1>12, <1>13

LEMMA OneOrder == ASSUME History PROVE SameOrder
<1>1. Shape BY DEF History
<1>2. PICK h : Follows(h) BY DEF History
<1>3. SUFFICES ASSUME NEW t \in IOTasks, NEW u \in IOTasks
               PROVE  IsPrefix(done[t], done[u]) \/ IsPrefix(done[u], done[t])
  BY DEF SameOrder
<1>4. h.pos[io_comm][t] \in Nat /\ h.pos[io_comm][u] \in Nat
  BY <1>1, <1>2, CommsApart, TasksApart, Numbers DEF Follows
<1>5. h.pos[io_comm][t] <= h.pos[io_comm][u] \/ h.pos[io_comm][u] <= h.pos[io_comm][t] BY <1>4
<1>. QED BY <1>1, <1>2, <1>5, ServedTheSame

\* No error is lost, if no call may fail whose code the tasks ignore.
LEMMA ErrorsTold == ASSUME ProgramsFit, CodesHeard, History PROVE NoLostError
<1>1. Shape BY DEF History
<1>2. PICK h : Follows(h) BY DEF History
<1>3. Measured(h) /\ Calls(h) /\ Placed(h) /\ Remembered(h) BY <1>2 DEF Follows
<1>4. SUFFICES ASSUME NEW c \in Components, NEW t \in CompTasks(c), NEW i \in DOMAIN done[t], i \in DOMAIN OfComp(ioroot, c),
                      OfComp(ioroot, c)[i].code = "failed"
               PROVE  done[t][i].code = "failed"
  BY DEF NoLostError
<1>5. t \in Members(my_comm(c)) /\ ioroot \in Members(my_comm(c)) /\ t \in Tasks /\ ioroot \in Tasks
      /\ t \notin IOTasks /\ ioroot \in IOTasks
  BY MembersOf, TasksApart
<1>6. PICK T : T = [comp : Components, call : Requests, code : Codes] OBVIOUS
<1>7. done \in [Tasks -> Seq(T)] BY <1>1, <1>6 DEF Shape
<1>8. PICK x \in Seq(T) : x = done[t] BY <1>5, <1>7
<1>9. PICK y \in Seq(T) : y = OfComp(ioroot, c)
  <2>1. PICK z \in Seq(T) : z = done[ioroot] BY <1>5, <1>7
  <2>2. PICK f : BuildsPart(f, z, c, T) /\ PartOf(z, c) = f[Len(z)] BY PartIs
  <2>3. f[Len(z)] \in Seq(T)
    <3>1. Len(z) \in 0 .. Len(z) BY <2>1
    <3>. QED BY <3>1, <2>2 DEF BuildsPart
  <2>4. OfComp(ioroot, c) \in Seq(T) BY <2>1, <2>2, <2>3 DEF OfComp
  <2>. QED BY <2>4
<1>10. Recalled(h, t, c) /\ Recalled(h, ioroot, c) /\ PlacedAt(h, ioroot, c) /\ PlacedAt(h, t, c)
  BY <1>3, <1>5 DEF Remembered, Placed
<1>11. PICK m, n : m = h.num[t][c] /\ n = h.num[ioroot][c] OBVIOUS
<1>12. /\ Len(x) = m /\ \A j \in 1 .. m : x[j] = EntryFor(h, t, c, j - 1)
  BY <1>8, <1>10, <1>11 DEF Recalled
<1>13. /\ Len(y) = n /\ \A j \in 1 .. n : y[j] = EntryFor(h, ioroot, c, j - 1)
  BY <1>9, <1>10, <1>11 DEF Recalled
<1>14. i \in 1 .. m /\ i \in 1 .. n BY <1>4, <1>8, <1>9, <1>12, <1>13
<1>15. m \in 0 .. h.last[c] /\ h.last[c] \in Nat BY <1>3, <1>10, <1>11, Numbers DEF PlacedAt
<1>16. i - 1 \in 0 .. h.last[c] - 1 /\ i - 1 \in 0 .. h.last[c] BY <1>14, <1>15
<1>17. PICK k \in 0 .. h.last[c] - 1 : k = i - 1 BY <1>16
<1>18. PICK p, v : p = h.prog[c][k] /\ v = h.cd[c][k] OBVIOUS
<1>19. y[i] = Entry(c, p, CodeFor(ioroot, p, v)) /\ x[i] = Entry(c, p, CodeFor(t, p, v))
  BY <1>12, <1>13, <1>14, <1>17, <1>18 DEF EntryFor
<1>20. v = "failed"
  <2>1. CodeFor(ioroot, p, v) = "failed" BY <1>4, <1>9, <1>19 DEF Entry
  <2>. QED BY <2>1, <1>5 DEF CodeFor, ServerCode
<1>21. Programme(p) /\ p # <<>> /\ StepOf(p).msg \in Failing[h.hand[c][k]] /\ h.hand[c][k] \in {"bcast", "return"}
  <2>1. k \in 0 .. h.last[c] BY <1>16, <1>17
  <2>2. Programme(p) /\ p # <<>> /\ h.hand[c][k] \in {"bcast", "return"} BY <2>1, <1>3, <1>18 DEF Calls
  <2>. QED BY <2>1, <2>2, <1>3, <1>18, <1>20 DEF Calls
<1>22. CallAt(p).agree # "dropped"
  <2>1. StepOf(p) \in AllSteps BY <1>21, StepFits
  <2>. QED BY <2>1, <1>21 DEF CodesHeard, CallAt
<1>23. CodeFor(t, p, v) = "failed" BY <1>5, <1>20, <1>22 DEF CodeFor, CallerCode
<1>. QED BY <1>8, <1>19, <1>23 DEF Entry

\* The types of TypeOK: those of Shape, the broadcasts of the history, and the
\* component a task is busy with.
CallersComp == \A t \in Callers : doing[t].comp \in 0 .. NumComponents

LEMMA CompStays ==
  ASSUME Shape, CallersComp, [Next]_vars
  PROVE  CallersComp'
<1>1. SUFFICES ASSUME NEW t \in Callers PROVE doing'[t].comp \in 0 .. NumComponents
  BY DEF CallersComp
<1>2. DOMAIN doing = Tasks /\ t \in Tasks /\ t \notin IOTasks /\ t[1] \in Components BY TasksApart DEF Shape
<1>3. doing[t].comp \in 0 .. NumComponents BY DEF CallersComp
<1>4. t[1] \in 0 .. NumComponents /\ NumComponents \in Nat BY <1>2, AsyncAssumption DEF Components
<1>5. Idle.comp = 0 BY DEF Idle
<1>6. ASSUME NEW u \in Tasks, NEW x, doing' = [doing EXCEPT ![u] = x], u = t => x.comp \in 0 .. NumComponents
      PROVE  doing'[t].comp \in 0 .. NumComponents
  <2>1. CASE u = t BY <2>1, <1>2, <1>6
  <2>2. CASE u # t BY <2>2, <1>2, <1>3, <1>6
  <2>. QED BY <2>1, <2>2
<1>7. ASSUME NEW u \in Callers, CallerStep(u) PROVE doing'[t].comp \in 0 .. NumComponents
  <2>1. u \in Tasks BY TasksApart
  <2>2. CASE Begin(u)
    <3>1. PICK step : step = Head(Head(program[u])) OBVIOUS
    <3>2. PICK call : call = Service(step.msg, step.given).call OBVIOUS
    <3>3. PICK d : d = Doing(u[1], step.msg, step.given, step.onfail, call) OBVIOUS
    <3>4. doing' = [doing EXCEPT ![u] = d] BY <2>2, <3>1, <3>2, <3>3 DEF Begin, Becomes
    <3>5. d.comp = u[1] BY <3>3 DEF Doing
    <3>6. u = t => d.comp \in 0 .. NumComponents BY <3>5, <1>4
    <3>. QED BY <3>4, <3>6, <2>1, <1>6
  <2>3. CASE InCall(u) BY <2>3, <1>3 DEF InCall, Exchange, TakeCode
  <2>4. CASE Return(u)
    <3>1. doing' = [doing EXCEPT ![u] = Idle] BY <2>4 DEF Return, Finish, Becomes
    <3>2. Idle.comp \in 0 .. NumComponents BY <1>4, <1>5
    <3>. QED BY <3>1, <3>2, <2>1, <1>6
  <2>. QED BY <2>2, <2>3, <2>4, <1>7, Zenon DEF CallerStep
<1>8. ASSUME NEW u \in IOTasks, IOStep(u) PROVE doing'[t].comp \in 0 .. NumComponents
  <2>1. u \in Tasks /\ u # t BY <1>2, TasksApart
  <2>2. (\E d : doing' = [doing EXCEPT ![u] = d]) \/ doing' = doing
    <3>1. CASE Waitsome BY <3>1 DEF Waitsome
    <3>2. CASE TakeOutcount(u) BY <3>2 DEF TakeOutcount
    <3>3. CASE TakeIndex(u) BY <3>3 DEF TakeIndex, Becomes
    <3>4. CASE Dispatch(u) BY <3>4 DEF Dispatch, Becomes
    <3>5. CASE InCall(u) BY <3>5 DEF InCall, Exchange, TakeCode
    <3>6. CASE OwnCode(u) BY <3>6 DEF OwnCode
    <3>7. CASE EndHandler(u) BY <3>7 DEF EndHandler, Finish, Becomes
    <3>. QED BY <3>1, <3>2, <3>3, <3>4, <3>5, <3>6, <3>7, <1>8, Zenon DEF IOStep
  <2>. QED BY <2>1, <2>2, <1>3, <1>6
<1>9. ASSUME UNCHANGED vars PROVE doing'[t].comp \in 0 .. NumComponents
  BY <1>3, <1>9 DEF vars
<1>10. CASE Next
  <2>1. CASE Terminated BY <2>1, <1>9 DEF Terminated
  <2>. QED BY <2>1, <1>7, <1>8, <1>10, Zenon DEF Next
<1>. QED BY <1>9, <1>10

LEMMA TypesTold == ASSUME History, CallersComp PROVE TypeOK
<1>1. Shape BY DEF History
<1>2. PICK h : Follows(h) BY DEF History
<1>3. Measured(h) /\ Logged(h) /\ Serving(h) BY <1>2 DEF Follows
<1>4. ASSUME NEW t \in Tasks PROVE doing[t].comp \in 0 .. NumComponents
  <2>1. CASE t \in Callers BY <2>1 DEF CallersComp
  <2>2. CASE t \in IOTasks
    <3>1. ServingAt(h, t) /\ Sound(Reached(h, t)) BY <2>2, <1>1, <1>2, InTheLoop
    <3>2. PICK s : s = Reached(h, t) OBVIOUS
    <3>3. NumComponents \in Nat BY AsyncAssumption
    <3>4. CASE IsIdle(t)
      <4>1. Waiting(t, s) BY <3>1, <3>2, <3>4 DEF ServingAt
      <4>2. s.comp \in 0 .. NumComponents BY <3>1, <3>2 DEF Sound, LoopStates
      <4>. QED BY <4>1, <4>2, <3>3 DEF Waiting
    <3>5. CASE ~IsIdle(t)
      <4>1. doing[t].comp \in Components BY <3>1, <3>5 DEF ServingAt, InHandler
      <4>. QED BY <4>1, <3>3 DEF Components
    <3>. QED BY <3>4, <3>5
  <2>. QED BY <2>1, <2>2, TasksApart
<1>5. ASSUME NEW t \in Tasks, NEW i \in DOMAIN todo[t] PROVE todo[t][i].on \in Comms /\ todo[t][i].root \in Tasks
  <2>1. todo[t] \in Seq(Meetings) BY <1>1 DEF Shape
  <2>2. todo[t][i] \in Meetings BY <2>1
  <2>. QED BY <2>2 DEF Meetings
<1>6. ASSUME NEW comm \in Comms, NEW i \in DOMAIN bcasts[comm]
      PROVE  /\ bcasts[comm][i].unread \subseteq Members(comm) \ {bcasts[comm][i].root}
             /\ bcasts[comm][i].unread # {}
  <2>1. PICK q \in Seq(Packets) : q = bcasts[comm]
    <3>1. bcasts[comm] \in Seq(Packets) BY <1>1 DEF Shape
    <3>. QED BY <3>1
  <2>2. i \in 1 .. Len(q) BY <2>1
  <2>3. PICK l, p, w, M : l = h.log[comm] /\ p = h.pos[comm] /\ w = h.low[comm] /\ M = Members(comm) OBVIOUS
  <2>4. InLine(l, p, w, q, M) BY <2>1, <2>3, <1>3 DEF Logged
  <2>5. q[i].unread = {u \in M \ {q[i].root} : p[u] < w + i} /\ q[i].unread # {} BY <2>2, <2>4 DEF InLine
  <2>. QED BY <2>1, <2>3, <2>5
<1>. QED BY <1>1, <1>4, <1>5, <1>6 DEF TypeOK, Shape

\* After EXIT nothing is left of a program.
LEMMA ExitEnds ==
  ASSUME NEW p, Programme(p), p # <<>>, StepOf(p).msg = "EXIT", NEW v
  PROVE  NextProgram(p, v) = <<>>
<1>1. p \in Seq(Seq(AllSteps)) /\ (\A i \in DOMAIN p : p[i] # <<>>) /\ ExitIsLast(p) BY DEF Programme
<1>2. 1 \in DOMAIN p /\ Head(p) = p[1] /\ Len(p) \in Nat BY <1>1
<1>3. PICK q \in Seq(AllSteps) : q = p[1] BY <1>1, <1>2
<1>4. q # <<>> BY <1>1, <1>2, <1>3
<1>5. 1 \in DOMAIN q /\ Head(q) = q[1] BY <1>4
<1>6. q[1].msg = "EXIT" BY <1>2, <1>3, <1>5 DEF StepOf
<1>7. 1 = Len(p) /\ 1 = Len(q)
  <2>1. 1 \in DOMAIN p[1] /\ p[1][1].msg = "EXIT" BY <1>3, <1>5, <1>6
  <2>2. 1 = Len(p) /\ 1 = Len(p[1]) BY <2>1, <1>1, <1>2, Zenon DEF ExitIsLast
  <2>. QED BY <2>2, <1>3
<1>8. Tail(p) = <<>>
  <2>1. PICK T : T = Seq(AllSteps) OBVIOUS
  <2>2. PICK z \in Seq(T) : z = p BY <2>1, <1>1
  <2>3. Len(z) = 1 /\ z # <<>> BY <2>2, <1>7
  <2>4. Tail(z) \in Seq(T) BY <2>3
  <2>5. PICK r \in Seq(T) : r = Tail(z) BY <2>4
  <2>6. Len(r) = Len(z) - 1 BY <2>3, <2>5
  <2>7. r = <<>> BY <2>3, <2>6
  <2>. QED BY <2>2, <2>5, <2>7
<1>9. ~(Len(Head(p)) > 1)
  <2>1. Head(p) = q BY <1>2, <1>3
  <2>2. ~(1 > 1) OBVIOUS
  <2>. QED BY <2>1, <2>2, <1>7, Zenon
<1>10. NextProgram(p, v) = <<>> \o Tail(p) BY <1>9 DEF NextProgram, When
<1>. QED BY <1>8, <1>10

\* When all tasks have left, all have made all calls.
AllMade(h) ==
  /\ \A c \in Components : \A t \in Members(my_comm(c)) :
       h.num[t][c] = h.last[c] /\ ~Busy(t, c) /\ h.prog[c][h.last[c]] = <<>>
  /\ \A c \in Components : c \notin TakenUp /\ IsIdle(comproot(c))
  /\ \A t \in IOTasks : h.pos[io_comm][t] = Top(h, io_comm)

LEMMA AllHaveMade ==
  ASSUME ProgramsFit, Shape, Batch, NEW h, Follows(h), \A t \in Tasks : Finished(t)
  PROVE  AllMade(h)
<1>1. Measured(h) /\ Calls(h) /\ Placed(h) /\ Looped(h) /\ Calling(h) /\ Carried(h) BY DEF Follows
<1>2. ASSUME NEW t \in IOTasks PROVE Reached(h, t).at = "over" /\ Waiting(t, Reached(h, t)) /\ IsIdle(t)
  <2>1. t \notin running BY TasksApart DEF Finished
  <2>2. PICK s : s = Reached(h, t) OBVIOUS
  <2>3. ServingAt(h, t) BY InTheLoop
  <2>4. IsIdle(t) BY <2>1, <2>3 DEF ServingAt, InHandler
  <2>5. Waiting(t, s) BY <2>2, <2>3, <2>4 DEF ServingAt
  <2>. QED BY <2>1, <2>2, <2>4, <2>5 DEF Waiting
<1>3. ASSUME NEW t \in IOTasks PROVE h.pos[io_comm][t] = Top(h, io_comm)
  <2>1. PICK p : p = h.pos[io_comm][t] OBVIOUS
  <2>2. p \in 0 .. Top(h, io_comm) /\ Top(h, io_comm) \in Nat BY <2>1, InTheLoop
  <2>3. PICK s : s = h.loop[p] OBVIOUS
  <2>4. s.at = "over" BY <2>1, <2>3, <1>2 DEF Reached
  <2>5. ASSUME p # Top(h, io_comm) PROVE FALSE
    <3>1. p \in 0 .. Top(h, io_comm) - 1 BY <2>2, <2>5
    <3>2. PICK e, r : LoopStep(h, s, e, r) BY <3>1, <2>3, <1>1 DEF Looped
    <3>. QED BY <3>2, <2>4 DEF LoopStep
  <2>. QED BY <2>1, <2>5
<1>4. \A t \in IOTasks : Reached(h, t) = Reached(h, ioroot)
  BY <1>3, TasksApart DEF Reached
<1>5. ASSUME NEW t \in IOTasks, NEW c \in Components PROVE h.num[t][c] = h.num[ioroot][c]
  <2>1. ioroot \in IOTasks BY TasksApart
  <2>2. ServingAt(h, t) /\ ServingAt(h, ioroot) BY <2>1, InTheLoop
  <2>3. h.num[t][c] = Reached(h, t).num[c] BY <2>2, <1>2 DEF ServingAt
  <2>4. h.num[ioroot][c] = Reached(h, ioroot).num[c] BY <2>1, <2>2, <1>2 DEF ServingAt
  <2>. QED BY <2>3, <2>4, <1>4
<1>6. listening \cup TakenUp = {}
  <2>1. ioroot \in IOTasks BY TasksApart
  <2>2. PICK s : s = Reached(h, ioroot) OBVIOUS
  <2>3. Sound(s) /\ s.at = "over" /\ Waiting(ioroot, s) BY <2>1, <2>2, <1>2, InTheLoop
  <2>4. openComps[ioroot] = 0 BY <2>3 DEF Sound, Waiting
  <2>5. Cardinality(listening \cup TakenUp) = 0 BY <2>4 DEF Batch
  <2>6. IsFiniteSet(listening \cup TakenUp)
    <3>1. NumComponents \in Nat BY AsyncAssumption
    <3>2. IsFiniteSet(Components) BY <3>1, FS_Interval DEF Components
    <3>3. TakenUp \subseteq Components
      <4>1. PICK x \in Seq(Components) : x = index BY DEF Shape
      <4>. QED BY <4>1 DEF TakenUp
    <3>4. listening \cup TakenUp \subseteq Components BY <3>3 DEF Shape
    <3>. QED BY <3>2, <3>4, FS_Subset
  <2>. QED BY <2>5, <2>6, FS_EmptySet
<1>7. ASSUME NEW c \in Components PROVE h.num[ioroot][c] = h.last[c] /\ h.prog[c][h.last[c]] = <<>>
  <2>1. PICK n : n = h.num[ioroot][c] OBVIOUS
  <2>2. CarriedAt(h, c, n) BY <2>1, <1>1 DEF Carried
  <2>3. n > 0 /\ StepOf(h.prog[c][n - 1]).msg = "EXIT" BY <2>2, <1>6 DEF CarriedAt
  <2>4. n \in 0 .. h.last[c] /\ h.last[c] \in Nat
    <3>1. ioroot \in Members(my_comm(c)) BY MembersOf, TasksApart
    <3>. QED BY <3>1, <2>1, <1>1, Numbers DEF Placed, PlacedAt
  <2>5. PICK m \in 0 .. h.last[c] - 1 : m = n - 1 /\ n = m + 1 BY <2>3, <2>4
  <2>6. PICK p : p = h.prog[c][m] OBVIOUS
  <2>7. Programme(p) /\ p # <<>>
    <3>1. m \in 0 .. h.last[c] BY <2>4, <2>5
    <3>2. Programme(p) BY <3>1, <2>6, <1>1 DEF Calls
    <3>3. p # <<>> BY <2>6, <1>1 DEF Calls
    <3>. QED BY <3>2, <3>3
  <2>8. h.prog[c][n] = NextProgram(p, h.cd[c][m]) BY <2>5, <2>6, <1>1, NextCall
  <2>9. h.prog[c][n] = <<>> BY <2>3, <2>5, <2>6, <2>7, <2>8, ExitEnds
  <2>10. n = h.last[c]
    <3>1. n \in 0 .. h.last[c] - 1 => h.prog[c][n] # <<>> BY <1>1 DEF Calls
    <3>. QED BY <3>1, <2>4, <2>9
  <2>. QED BY <2>1, <2>9, <2>10
<1>8. ASSUME NEW c \in Components, NEW t \in Members(my_comm(c))
      PROVE  h.num[t][c] = h.last[c] /\ ~Busy(t, c)
  <2>1. CASE t \in IOTasks BY <2>1, <1>2, <1>5, <1>7 DEF Busy
  <2>2. CASE t \in CompTasks(c)
    <3>1. t \in Tasks /\ t \notin IOTasks BY <2>2, TasksApart
    <3>2. program[t] = <<>> /\ IsIdle(t) BY <3>1 DEF Finished
    <3>3. PICK n : n = h.num[t][c] OBVIOUS
    <3>4. h.prog[c][n] = <<>> BY <2>2, <3>2, <3>3, <1>1 DEF Calling, CallingAt
    <3>5. n \in 0 .. h.last[c] /\ h.last[c] \in Nat BY <3>3, <1>1, Numbers DEF Placed, PlacedAt
    <3>6. n \in 0 .. h.last[c] - 1 => h.prog[c][n] # <<>> BY <1>1 DEF Calls
    <3>7. n = h.last[c] BY <3>4, <3>5, <3>6
    <3>. QED BY <3>2, <3>3, <3>7 DEF Busy
  <2>. QED BY <2>1, <2>2, MembersOf
<1>9. ASSUME NEW c \in Components PROVE c \notin TakenUp /\ IsIdle(comproot(c))
  <2>1. comproot(c) \in Tasks /\ comproot(c) \notin IOTasks BY TasksApart
  <2>. QED BY <2>1, <1>6 DEF Finished
<1>. QED BY <1>3, <1>7, <1>8, <1>9 DEF AllMade

\* A communicator on which nobody lags behind is empty.
LEMMA NothingLeft ==
  ASSUME Shape, NEW h, Measured(h), Logged(h), NEW comm \in Comms,
         \A t \in Members(comm) : Top(h, comm) <= h.pos[comm][t]
  PROVE  bcasts[comm] = <<>>
<1>1. PICK q \in Seq(Packets) : q = bcasts[comm]
  <2>1. bcasts[comm] \in Seq(Packets) BY DEF Shape
  <2>. QED BY <2>1
<1>2. PICK l, p, w, M : l = h.log[comm] /\ p = h.pos[comm] /\ w = h.low[comm] /\ M = Members(comm) OBVIOUS
<1>3. w \in Nat /\ Len(q) \in Nat /\ Top(h, comm) = w + Len(q) BY <1>1, <1>2 DEF Measured, Top
<1>4. InLine(l, p, w, q, M) BY <1>1, <1>2 DEF Logged
<1>5. \A t \in M : p[t] \in Nat /\ w + Len(q) <= p[t] BY <1>2, <1>3, Numbers, MembersAreTasks
<1>6. ASSUME q # <<>> PROVE FALSE
  <2>1. 1 \in 1 .. Len(q) BY <1>6
  <2>2. q[1].unread = {u \in M \ {q[1].root} : p[u] < w + 1} /\ q[1].unread # {} BY <2>1, <1>4 DEF InLine
  <2>3. PICK u \in M : p[u] < w + 1 BY <2>2
  <2>. QED BY <2>1, <2>3, <1>3, <1>5
<1>. QED BY <1>1, <1>6

LEMMA AllDrained == ASSUME ProgramsFit, History PROVE Drained
<1>1. Shape /\ Batch BY DEF History
<1>2. PICK h : Follows(h) BY DEF History
<1>3. Measured(h) /\ Logged(h) /\ Ahead(h) /\ Placed(h) /\ Carried(h) BY <1>2 DEF Follows
<1>4. SUFFICES ASSUME \A t \in Tasks : Finished(t)
               PROVE  (\A comm \in Comms : bcasts[comm] = <<>>) /\ \A c \in Components : inbox[c] = <<>>
  BY DEF Drained
<1>5. AllMade(h) BY <1>1, <1>2, <1>4, AllHaveMade
<1>6. ASSUME NEW c \in Components, NEW t \in Members(my_comm(c))
      PROVE  /\ Top(h, my_comm(c)) <= h.pos[my_comm(c)][t]
             /\ t \in Members(intercomm(c)) => Top(h, intercomm(c)) <= h.pos[intercomm(c)][t]
  <2>1. h.num[t][c] = h.last[c] /\ ~Busy(t, c) /\ h.prog[c][h.last[c]] = <<>> BY <1>5 DEF AllMade
  <2>2. AtRest(h, t, c) BY <2>1, <1>3 DEF Placed, PlacedAt
  <2>3. Top(h, intercomm(c)) <= h.sp[c][h.last[c]] /\ Top(h, my_comm(c)) <= h.st[c][h.last[c]]
    BY <2>1, <1>3 DEF Ahead
  <2>. QED BY <2>1, <2>2, <2>3 DEF AtRest
<1>7. ASSUME NEW comm \in Comms PROVE bcasts[comm] = <<>>
  <2>1. ASSUME NEW t \in Members(comm) PROVE Top(h, comm) <= h.pos[comm][t]
    <3>1. CASE comm = io_comm
      <4>1. h.pos[io_comm][t] = Top(h, io_comm) /\ Top(h, io_comm) \in Nat
        BY <3>1, <2>1, <1>1, <1>3, <1>5, Numbers, MembersOf DEF AllMade
      <4>. QED BY <4>1, <3>1
    <3>2. CASE \E c \in Components : comm = intercomm(c)
      <4>1. PICK c \in Components : comm = intercomm(c) BY <3>2
      <4>2. t \in Members(my_comm(c)) BY <4>1, <2>1, MembersOf, TasksApart
      <4>. QED BY <4>1, <4>2, <2>1, <1>6
    <3>3. CASE \E c \in Components : comm = my_comm(c)
      <4>1. PICK c \in Components : comm = my_comm(c) BY <3>3
      <4>. QED BY <4>1, <2>1, <1>6
    <3>. QED BY <3>1, <3>2, <3>3, CommsApart
  <2>. QED BY <2>1, <1>1, <1>3, NothingLeft
<1>8. ASSUME NEW c \in Components PROVE inbox[c] = <<>>
  <2>1. PICK n : n = h.last[c] OBVIOUS
  <2>2. comproot(c) \in Members(my_comm(c)) /\ ioroot \in Members(my_comm(c)) BY MembersOf, TasksApart
  <2>3. h.num[ioroot][c] = n /\ h.num[comproot(c)][c] = n /\ c \notin TakenUp /\ IsIdle(comproot(c))
    BY <2>1, <2>2, <1>5 DEF AllMade
  <2>4. n \in Nat BY <2>1, <1>3, Numbers
  <2>5. OnTheWay(h, c, n) BY <2>3, <1>3 DEF Carried, CarriedAt
  <2>6. Begun(h, c) = n BY <2>3, <2>4 DEF Begun
  <2>7. Len(inbox[c]) = 0 BY <2>4, <2>5, <2>6 DEF OnTheWay
  <2>8. inbox[c] \in Seq(Requests) BY <1>1 DEF Shape
  <2>. QED BY <2>7, <2>8
<1>. QED BY <1>7, <1>8

-----------------------------------------------------------------------------
(* The properties.  All theorems take the two sides of each call to match  *)
(* (ProgramsFit): which ones do not is a finding about that call.          *)

\* No task waits in a broadcast that another task makes with another root or
\* for another item: the handlers of pio_msg.c take part in the broadcasts of
\* the functions of pioc*.c, however the calls of the components interleave.
THEOREM BroadcastsMatch ==
  ASSUME ProgramsFit
  PROVE  Spec => []Matched
<1>1. Spec => []History BY FollowsHistory
<1>2. History => Matched BY MeetingsMatch
<1>. QED BY <1>1, <1>2, PTL

\* The tasks that have made the same number of calls of a component report
\* errors the same way: PIOc_set_iosystem_error_handling sets ios->error_handler
\* on all tasks at the same place in the sequence of calls.
THEOREM ErrorHandlersAgree ==
  ASSUME ProgramsFit
  PROVE  Spec => []HandlersAgree
<1>1. Spec => []History BY FollowsHistory
<1>2. History => HandlersAgree BY HandlersTold
<1>. QED BY <1>1, <1>2, PTL

\* The I/O tasks serve the requests of all components in one order, that in
\* which ioroot's MPI_Waitsome in pio_msg_handler2 takes them.
THEOREM OneOrderOfService ==
  ASSUME ProgramsFit
  PROVE  Spec => []SameOrder
<1>1. Spec => []History BY FollowsHistory
<1>2. History => SameOrder BY OneOrder
<1>. QED BY <1>1, <1>2, PTL

\* When all programs are over and all I/O tasks have left pio_msg_handler2, no
\* broadcast has a task missing and no message waits to be received.
THEOREM NothingRemains ==
  ASSUME ProgramsFit
  PROVE  Spec => []Drained
<1>1. Spec => []History BY FollowsHistory
<1>2. History => Drained BY AllDrained
<1>. QED BY <1>1, <1>2, PTL

\* An error of a library call on an I/O task reaches all tasks that make the
\* call: check_netcdf and the broadcasts of ierr tell them.
THEOREM ErrorsReachAll ==
  ASSUME ProgramsFit, CodesHeard
  PROVE  Spec => []NoLostError
<1>1. Spec => []History BY FollowsHistory
<1>2. History => NoLostError BY ErrorsTold
<1>. QED BY <1>1, <1>2, PTL

\* All variables keep their types: among them the count of pio_msg_handler2's
\* open components, which no EXIT takes below zero.
THEOREM TypeCorrect ==
  ASSUME ProgramsFit
  PROVE  Spec => []TypeOK
<1>1. Init => CallersComp
  <2>1. SUFFICES ASSUME Init, NEW t \in Callers PROVE doing[t].comp \in 0 .. NumComponents
    BY DEF CallersComp
  <2>2. NumComponents \in Nat /\ t \in Tasks BY AsyncAssumption DEF Tasks
  <2>3. doing[t] = Idle BY <2>1, <2>2 DEF Init
  <2>4. 0 \in 0 .. NumComponents BY <2>2
  <2>. QED BY <2>3, <2>4 DEF Idle
<1>2. Spec => []History BY FollowsHistory
<1>3. History /\ CallersComp /\ [Next]_vars => CallersComp' BY CompStays DEF History
<1>4. History /\ CallersComp => TypeOK BY TypesTold
<1>. QED BY <1>1, <1>2, <1>3, <1>4, PTL DEF Spec

-----------------------------------------------------------------------------
(* Remote calls: the refinement of RemoteCalls.                            *)

Entries == [comp : Components, call : Requests, code : Codes]
Replies == [call : Requests, code : Codes]

LEMMA CallsOfIs ==
  ASSUME NEW s \in Seq(Entries)
  PROVE  /\ CallsOf(s) \in Seq(Requests) /\ Len(CallsOf(s)) = Len(s)
         /\ \A i \in 1 .. Len(s) : CallsOf(s)[i] = s[i].call
<1>1. PICK r : r = CallsOf(s) OBVIOUS
<1>2. DOMAIN s = 1 .. Len(s) /\ Len(s) \in Nat OBVIOUS
<1>3. \A i \in 1 .. Len(s) : s[i] \in Entries OBVIOUS
<1>4. r = [i \in 1 .. Len(s) |-> s[i].call] BY <1>1, <1>2 DEF CallsOf
<1>5. \A i \in 1 .. Len(s) : s[i].call \in Requests BY <1>3 DEF Entries
<1>6. r \in Seq(Requests) /\ Len(r) = Len(s) BY <1>2, <1>4, <1>5
<1>. QED BY <1>1, <1>4, <1>6

LEMMA OutcomesAre ==
  ASSUME NEW s \in Seq(Entries)
  PROVE  /\ Outcomes(s) \in Seq(Replies) /\ Len(Outcomes(s)) = Len(s)
         /\ \A i \in 1 .. Len(s) : Outcomes(s)[i] = [call |-> s[i].call, code |-> s[i].code]
<1>1. PICK r : r = Outcomes(s) OBVIOUS
<1>2. DOMAIN s = 1 .. Len(s) /\ Len(s) \in Nat OBVIOUS
<1>3. \A i \in 1 .. Len(s) : s[i] \in Entries OBVIOUS
<1>4. r = [i \in 1 .. Len(s) |-> [call |-> s[i].call, code |-> s[i].code]] BY <1>1, <1>2 DEF Outcomes
<1>5. \A i \in 1 .. Len(s) : [call |-> s[i].call, code |-> s[i].code] \in Replies BY <1>3 DEF Entries, Replies
<1>6. r \in Seq(Replies) /\ Len(r) = Len(s) BY <1>2, <1>4, <1>5
<1>. QED BY <1>1, <1>4, <1>6

\* A sequence with one more element.
LEMMA OneLonger ==
  ASSUME NEW T, NEW x \in Seq(T), NEW y \in Seq(T), NEW e \in T, Len(y) = Len(x) + 1,
         \A i \in 1 .. Len(x) : y[i] = x[i], y[Len(x) + 1] = e
  PROVE  y = Append(x, e)
<1>1. Append(x, e) \in Seq(T) OBVIOUS
<1>2. PICK z \in Seq(T) : z = Append(x, e) BY <1>1
<1>3. Len(z) = Len(x) + 1 /\ z[Len(x) + 1] = e /\ \A i \in 1 .. Len(x) : z[i] = x[i] BY <1>2
<1>4. Len(x) \in Nat OBVIOUS
<1>5. \A i \in 1 .. Len(y) : i \in 1 .. Len(x) \/ i = Len(x) + 1 BY <1>4
<1>6. \A i \in 1 .. Len(y) : y[i] = z[i] BY <1>3, <1>5
<1>7. y = z BY <1>3, <1>6
<1>. QED BY <1>2, <1>7

\* What is issued and performed grows with what a task has done.
LEMMA Appended ==
  ASSUME NEW s \in Seq(Entries), NEW e \in Entries
  PROVE  /\ CallsOf(Append(s, e)) = Append(CallsOf(s), e.call)
         /\ Outcomes(Append(s, e)) = Append(Outcomes(s), [call |-> e.call, code |-> e.code])
<1>1. Append(s, e) \in Seq(Entries) OBVIOUS
<1>2. PICK w \in Seq(Entries) : w = Append(s, e) BY <1>1
<1>3. Len(w) = Len(s) + 1 /\ w[Len(s) + 1] = e /\ (\A i \in 1 .. Len(s) : w[i] = s[i]) /\ Len(s) \in Nat BY <1>2
<1>4. e.call \in Requests /\ [call |-> e.call, code |-> e.code] \in Replies BY DEF Entries, Replies
<1>5. (\A i \in 1 .. Len(s) : i \in 1 .. Len(w)) /\ Len(s) + 1 \in 1 .. Len(w) BY <1>3
<1>6. PICK x, y : x = CallsOf(s) /\ y = CallsOf(w) OBVIOUS
<1>7. x \in Seq(Requests) /\ Len(x) = Len(s) /\ \A i \in 1 .. Len(s) : x[i] = s[i].call BY <1>6, CallsOfIs
<1>8. y \in Seq(Requests) /\ Len(y) = Len(w) /\ \A i \in 1 .. Len(w) : y[i] = w[i].call BY <1>6, CallsOfIs
<1>9. y = Append(x, e.call)
  <2>1. Len(y) = Len(x) + 1 /\ y[Len(x) + 1] = e.call BY <1>3, <1>5, <1>7, <1>8
  <2>2. \A i \in 1 .. Len(x) : y[i] = x[i] BY <1>3, <1>5, <1>7, <1>8
  <2>. QED BY <2>1, <2>2, <1>4, <1>7, <1>8, OneLonger
<1>10. PICK u, v, o : u = Outcomes(s) /\ v = Outcomes(w) /\ o = [call |-> e.call, code |-> e.code] OBVIOUS
<1>11. u \in Seq(Replies) /\ Len(u) = Len(s) /\ \A i \in 1 .. Len(s) : u[i] = [call |-> s[i].call, code |-> s[i].code]
  BY <1>10, OutcomesAre
<1>12. v \in Seq(Replies) /\ Len(v) = Len(w) /\ \A i \in 1 .. Len(w) : v[i] = [call |-> w[i].call, code |-> w[i].code]
  BY <1>10, OutcomesAre
<1>13. v = Append(u, o)
  <2>1. Len(v) = Len(u) + 1 /\ v[Len(u) + 1] = o BY <1>3, <1>5, <1>10, <1>11, <1>12
  <2>2. \A i \in 1 .. Len(u) : v[i] = u[i] BY <1>3, <1>5, <1>11, <1>12
  <2>3. o \in Replies BY <1>4, <1>10
  <2>. QED BY <2>1, <2>2, <2>3, <1>11, <1>12, OneLonger
<1>. QED BY <1>2, <1>6, <1>9, <1>10, <1>13

\* A sequence to which one element is added or not.
LEMMA WhenNot ==
  ASSUME NEW T, NEW s \in Seq(T), NEW x
  PROVE  s \o When(FALSE, <<x>>) = s
<1>1. When(FALSE, <<x>>) = <<>> BY DEF When
<1>2. s \o <<>> = s OBVIOUS
<1>. QED BY <1>1, <1>2, Zenon

LEMMA WhenSo ==
  ASSUME NEW T, NEW s \in Seq(T), NEW x \in T
  PROVE  s \o When(TRUE, <<x>>) = Append(s, x)
<1>1. When(TRUE, <<x>>) = <<x>> BY DEF When
<1>2. s \o <<x>> = Append(s, x) OBVIOUS
<1>. QED BY <1>1, <1>2

LEMMA DoneIs ==
  ASSUME Shape, NEW t \in Tasks, NEW c
  PROVE  done[t] \in Seq(Entries) /\ OfComp(t, c) \in Seq(Entries)
<1>1. PICK T : T = Entries OBVIOUS
<1>2. done \in [Tasks -> Seq(T)] BY <1>1 DEF Shape, Entries
<1>3. PICK z \in Seq(T) : z = done[t] BY <1>2
<1>4. PICK f : BuildsPart(f, z, c, T) /\ PartOf(z, c) = f[Len(z)] BY PartIs
<1>5. Len(z) \in 0 .. Len(z) BY <1>3
<1>6. f[Len(z)] \in Seq(T) BY <1>4, <1>5 DEF BuildsPart
<1>. QED BY <1>1, <1>3, <1>4, <1>6 DEF OfComp

\* The entries of a history, and the call in progress.
LEMMA EntryIs ==
  ASSUME NEW h, NEW t, NEW c, NEW n, NEW p, p = h.prog[c][n]
  PROVE  EntryFor(h, t, c, n).call = CallMessage(p) /\ EntryFor(h, t, c, n).code = CodeFor(t, p, h.cd[c][n])
BY DEF EntryFor, Entry

LEMMA CallInProgress ==
  ASSUME ProgramsFit, Shape, NEW h, Follows(h), NEW c \in Components, NEW t \in Members(my_comm(c)), Busy(t, c),
         NEW p, p = h.prog[c][h.num[t][c]]
  PROVE  /\ Makes(t, p) /\ CallOf(t) = CallMessage(p) /\ CallOf(t) \in Requests /\ Programme(p) /\ p # <<>>
         /\ HasCode(CallOf(t)) <=> Shared(p)
<1>1. PICK n : n = h.num[t][c] OBVIOUS
<1>2. Measured(h) /\ Calls(h) /\ PlacedAt(h, t, c) BY DEF Follows, Placed
<1>3. Makes(t, p) /\ p # <<>> /\ n \in 0 .. h.last[c] BY <1>1, <1>2 DEF PlacedAt, Makes
<1>4. IsCall(h, c, n) BY <1>1, <1>3 DEF IsCall
<1>5. Programme(p) BY <1>1, <1>2, <1>4, CallIs
<1>6. StepOf(p) \in AllSteps BY <1>3, <1>5, StepFits
<1>7. CallOf(t) = CallMessage(p) BY <1>3 DEF CallOf, Makes, CallMessage
<1>8. CallMessage(p) \in Requests BY <1>6 DEF Requests, CallMessage
<1>9. CallMessage(p).msg = StepOf(p).msg /\ CallMessage(p).given = StepOf(p).given BY DEF CallMessage, Message
<1>10. HasCode(CallMessage(p)) <=> Shared(p) BY <1>9 DEF HasCode, Shared, CallAt, CallFor
<1>11. HasCode(CallOf(t)) <=> Shared(p) BY <1>7, <1>10
<1>12. CallOf(t) \in Requests BY <1>7, <1>8
<1>. QED BY <1>3, <1>5, <1>7, <1>11, <1>12, Zenon

\* The calls issued are those comproot has begun.
LEMMA IssuedIs ==
  ASSUME ProgramsFit, Shape, NEW h, Follows(h), NEW c \in Components
  PROVE  /\ Issued(c) \in Seq(Requests) /\ Len(Issued(c)) = Begun(h, c) /\ Begun(h, c) \in Nat
         /\ \A i \in 1 .. Begun(h, c) : Issued(c)[i] = CallMessage(h.prog[c][i - 1])
<1>1. PICK t : t = comproot(c) OBVIOUS
<1>2. t \in Tasks /\ t \in Members(my_comm(c)) /\ t \in CompTasks(c) BY <1>1, TasksApart, MembersOf
<1>3. PICK n : n = h.num[t][c] OBVIOUS
<1>4. Measured(h) /\ Remembered(h) /\ Calling(h) BY DEF Follows
<1>5. n \in Nat BY <1>2, <1>3, <1>4, Numbers
<1>6. Recalled(h, t, c) /\ CallingAt(h, t, c) BY <1>2, <1>4 DEF Remembered, Calling
<1>7. PICK s \in Seq(Entries) : s = done[t] BY <1>2, DoneIs
<1>8. Len(s) = n /\ \A i \in 1 .. n : s[i] = EntryFor(h, t, c, i - 1) BY <1>2, <1>3, <1>6, <1>7 DEF Recalled
<1>9. PICK r \in Seq(Requests) : r = CallsOf(s) BY CallsOfIs
<1>10. Len(r) = n /\ \A i \in 1 .. n : r[i] = CallMessage(h.prog[c][i - 1])
  <2>1. Len(r) = n /\ \A i \in 1 .. n : r[i] = s[i].call BY <1>8, <1>9, CallsOfIs
  <2>. QED BY <2>1, <1>8, EntryIs
<1>11. Issued(c) = r \o When(~IsIdle(t), <<CallOf(t)>>) BY <1>1, <1>7, <1>9 DEF Issued
<1>12. CASE IsIdle(t)
  <2>1. PICK b \in BOOLEAN : b = ~IsIdle(t) OBVIOUS
  <2>3. PICK x : x = CallOf(t) OBVIOUS
  <2>4. r \o When(FALSE, <<x>>) = r BY WhenNot
  <2>6. b = FALSE BY <2>1, <1>12
  <2>5. Issued(c) = r BY <2>1, <2>3, <2>4, <2>6, <1>11
  <2>2. Begun(h, c) = n BY <1>1, <1>3, <1>5, <1>12 DEF Begun
  <2>. QED BY <2>5, <2>2, <1>5, <1>10
<1>13. CASE ~IsIdle(t)
  <2>1. Busy(t, c) BY <1>6, <1>13 DEF CallingAt, Busy
  <2>2. PICK p : p = h.prog[c][n] OBVIOUS
  <2>3. CallOf(t) = CallMessage(p) /\ CallOf(t) \in Requests BY <2>1, <2>2, <1>2, <1>3, CallInProgress
  <2>5. PICK x \in Requests : x = CallOf(t) BY <2>3
  <2>11. PICK b \in BOOLEAN : b = ~IsIdle(t) OBVIOUS
  <2>12. b = TRUE BY <2>11, <1>13
  <2>15. r \o When(TRUE, <<x>>) = Append(r, x) BY WhenSo
  <2>4. Issued(c) = Append(r, x) BY <2>5, <2>11, <2>12, <2>15, <1>11
  <2>13. PICK T : T = Requests OBVIOUS
  <2>14. Append(r, x) \in Seq(T) BY <2>13
  <2>6. PICK w \in Seq(Requests) : w = Append(r, x) BY <2>13, <2>14
  <2>7. Len(w) = n + 1 /\ w[n + 1] = x /\ \A i \in 1 .. n : w[i] = r[i] BY <2>6, <1>10
  <2>8. Begun(h, c) = n + 1 BY <1>1, <1>3, <1>13 DEF Begun
  <2>9. ASSUME NEW i \in 1 .. n + 1 PROVE w[i] = CallMessage(h.prog[c][i - 1])
    <3>1. CASE i \in 1 .. n BY <3>1, <2>7, <1>10
    <3>2. CASE i = n + 1
      <4>1. i - 1 = n BY <3>2, <1>5
      <4>. QED BY <4>1, <3>2, <2>2, <2>3, <2>5, <2>7
    <3>. QED BY <3>1, <3>2, <1>5
  <2>10. Issued(c) = w BY <2>4, <2>6
  <2>. QED BY <2>7, <2>8, <2>9, <2>10, <1>5
<1>. QED BY <1>12, <1>13

\* The calls performed are those ioroot has served, and the one whose code it
\* has.
HasItsCode(c) == doing[ioroot].comp = c /\ code[ioroot] # "unknown"

LEMMA CodeOfCall ==
  ASSUME Shape, NEW h, Follows(h), NEW c \in Components, HasItsCode(c)
  PROVE  Busy(ioroot, c) /\ code[ioroot] \in Codes
<1>1. ioroot \in IOTasks /\ ioroot \in Tasks BY TasksApart
<1>2. ServingAt(h, ioroot) BY <1>1 DEF Follows, Serving
<1>3. code[ioroot] \in Codes \cup {"unknown"} BY <1>1 DEF Shape
<1>4. ~IsIdle(ioroot) BY <1>2 DEF ServingAt, Waiting, HasItsCode
<1>. QED BY <1>3, <1>4 DEF Busy, HasItsCode

LEMMA PerformedIs ==
  ASSUME ProgramsFit, Shape, NEW h, Follows(h), NEW c \in Components,
         NEW m, m = h.num[ioroot][c]
  PROVE  /\ m \in Nat /\ Outcomes(OfComp(ioroot, c)) \in Seq(Replies) /\ Len(Outcomes(OfComp(ioroot, c))) = m
         /\ \A i \in 1 .. m : Outcomes(OfComp(ioroot, c))[i].code = ServerCode(h.cd[c][i - 1])
         /\ ~HasItsCode(c) => Performed(c) = Outcomes(OfComp(ioroot, c))
         /\ HasItsCode(c) =>
              Performed(c) = Append(Outcomes(OfComp(ioroot, c)), [call |-> CallOf(ioroot), code |-> code[ioroot]])
<1>1. PICK t : t = ioroot OBVIOUS
<1>2. t \in IOTasks /\ t \in Tasks /\ t \in Members(my_comm(c)) BY <1>1, TasksApart, MembersOf
<1>3. Measured(h) /\ Recalled(h, t, c) BY <1>2 DEF Follows, Remembered
<1>4. m \in Nat BY <1>1, <1>2, <1>3, Numbers
<1>5. PICK s \in Seq(Entries) : s = OfComp(t, c) BY <1>2, DoneIs
<1>6. Len(s) = m /\ \A i \in 1 .. m : s[i] = EntryFor(h, t, c, i - 1) BY <1>1, <1>3, <1>5 DEF Recalled
<1>7. PICK r \in Seq(Replies) : r = Outcomes(s) BY OutcomesAre
<1>8. Len(r) = m /\ \A i \in 1 .. m : r[i].code = s[i].code
  <2>1. Len(r) = m /\ \A i \in 1 .. m : r[i] = [call |-> s[i].call, code |-> s[i].code] BY <1>6, <1>7, OutcomesAre
  <2>2. ASSUME NEW i \in 1 .. m PROVE r[i].code = s[i].code
    <3>1. PICK x, y : x = s[i].call /\ y = s[i].code OBVIOUS
    <3>2. r[i] = [call |-> x, code |-> y] BY <2>1, <3>1
    <3>. QED BY <3>1, <3>2
  <2>. QED BY <2>1, <2>2
<1>9. \A i \in 1 .. m : r[i].code = ServerCode(h.cd[c][i - 1])
  <2>1. SUFFICES ASSUME NEW i \in 1 .. m PROVE r[i].code = ServerCode(h.cd[c][i - 1]) OBVIOUS
  <2>2. PICK p : p = h.prog[c][i - 1] OBVIOUS
  <2>3. s[i].code = CodeFor(t, p, h.cd[c][i - 1]) BY <2>2, <1>6, EntryIs
  <2>. QED BY <2>3, <1>2, <1>8 DEF CodeFor
<1>10. Performed(c) = r \o When(HasItsCode(c), <<[call |-> CallOf(t), code |-> code[t]]>>)
  BY <1>1, <1>5, <1>7 DEF Performed, HasItsCode
<1>11. PICK o : o = [call |-> CallOf(t), code |-> code[t]] OBVIOUS
<1>12. PICK b \in BOOLEAN : b = HasItsCode(c) BY DEF HasItsCode
<1>13. Performed(c) = r \o When(b, <<o>>) BY <1>10, <1>11, <1>12
<1>14. ASSUME ~HasItsCode(c) PROVE Performed(c) = r
  <2>1. b = FALSE BY <1>12, <1>14
  <2>2. r \o When(FALSE, <<o>>) = r BY WhenNot
  <2>. QED BY <2>1, <2>2, <1>13
<1>15. ASSUME HasItsCode(c) PROVE Performed(c) = Append(r, o)
  <2>1. Busy(t, c) /\ code[t] \in Codes BY <1>15, <1>1, CodeOfCall
  <2>2. CallOf(t) \in Requests BY <2>1, <1>2, CallInProgress
  <2>3. o \in Replies BY <2>1, <2>2, <1>11 DEF Replies
  <2>4. b = TRUE BY <1>12, <1>15
  <2>5. r \o When(TRUE, <<o>>) = Append(r, o) BY <2>3, WhenSo
  <2>. QED BY <2>4, <2>5, <1>13
<1>. QED BY <1>1, <1>4, <1>5, <1>7, <1>8, <1>9, <1>11, <1>14, <1>15

-----------------------------------------------------------------------------
\* Steps of the mapped variables, from what becomes of their values.
IssuedStays(c)    == Issued(c)' = Issued(c)
PerformedStays(c) == Performed(c)' = Performed(c)
ReturnedStays(t)  == Outcomes(done[t])' = Outcomes(done[t])

LEMMA NoRemoteStep ==
  ASSUME \A c \in Components : IssuedStays(c) /\ PerformedStays(c), \A t \in Callers : ReturnedStays(t)
  PROVE  UNCHANGED RPC!rvars
BY DEF RPC!rvars, IssuedStays, PerformedStays, ReturnedStays

LEMMA IssueStep ==
  ASSUME NEW c \in Components, NEW x \in AllCalls, Issued(c)' = Append(Issued(c), x),
         \A d \in Components \ {c} : IssuedStays(d), \A d \in Components : PerformedStays(d),
         \A t \in Callers : ReturnedStays(t)
  PROVE  RPC!Next
<1>1. PICK f, g : f = [d \in Components |-> Issued(d)] /\ g = [d \in Components |-> Issued(d)'] OBVIOUS
<1>2. g = [f EXCEPT ![c] = Append(@, x)]
  <2>1. DOMAIN f = Components /\ DOMAIN g = Components BY <1>1
  <2>2. g[c] = Append(f[c], x) BY <1>1
  <2>3. \A d \in Components \ {c} : g[d] = f[d] BY <1>1 DEF IssuedStays
  <2>. QED BY <2>1, <2>2, <2>3, <1>1
<1>3. RPC!Issue(c) BY <1>1, <1>2 DEF RPC!Issue, PerformedStays, ReturnedStays
<1>. QED BY <1>3 DEF RPC!Next

LEMMA PerformStep ==
  ASSUME NEW c \in Components, NEW v \in Codes, Len(Performed(c)) < Len(Issued(c)),
         Performed(c)' = Append(Performed(c), [call |-> Issued(c)[Len(Performed(c)) + 1], code |-> v]),
         \A d \in Components \ {c} : PerformedStays(d), \A d \in Components : IssuedStays(d),
         \A t \in Callers : ReturnedStays(t)
  PROVE  RPC!Next
<1>1. PICK f, g : f = [d \in Components |-> Performed(d)] /\ g = [d \in Components |-> Performed(d)'] OBVIOUS
<1>2. PICK o : o = [call |-> Issued(c)[Len(Performed(c)) + 1], code |-> v] OBVIOUS
<1>3. g = [f EXCEPT ![c] = Append(f[c], o)]
  <2>1. DOMAIN f = Components /\ DOMAIN g = Components BY <1>1
  <2>2. g[c] = Append(f[c], o) BY <1>1, <1>2
  <2>3. \A d \in Components \ {c} : g[d] = f[d] BY <1>1 DEF PerformedStays
  <2>. QED BY <2>1, <2>2, <2>3, <1>1
<1>4. f[c] = Performed(c) BY <1>1
<1>5. RPC!Perform(c) BY <1>1, <1>2, <1>3, <1>4 DEF RPC!Perform, RPC!Outcome, IssuedStays, ReturnedStays
<1>. QED BY <1>5 DEF RPC!Next

LEMMA ReturnStep ==
  ASSUME NEW t \in Callers, NEW c \in Components, c = t[1], NEW n, n = Len(Outcomes(done[t])) + 1, n <= Len(Issued(c)),
         NEW v \in Codes, Outcomes(done[t])' = Append(Outcomes(done[t]), [call |-> Issued(c)[n], code |-> v]),
         HasCode(Issued(c)[n]) => n <= Len(Performed(c)) /\ Performed(c)[n].code = v,
         ~HasCode(Issued(c)[n]) => v = "ok",
         \A d \in Components : IssuedStays(d) /\ PerformedStays(d),
         \A u \in Callers \ {t} : ReturnedStays(u)
  PROVE  RPC!Next
<1>1. PICK f, g : f = [u \in Callers |-> Outcomes(done[u])] /\ g = [u \in Callers |-> Outcomes(done[u])'] OBVIOUS
<1>2. PICK o : o = [call |-> Issued(c)[n], code |-> v] OBVIOUS
<1>3. g = [f EXCEPT ![t] = Append(f[t], o)]
  <2>1. DOMAIN f = Callers /\ DOMAIN g = Callers BY <1>1
  <2>2. g[t] = Append(f[t], o) BY <1>1, <1>2
  <2>3. \A u \in Callers \ {t} : g[u] = f[u] BY <1>1 DEF ReturnedStays
  <2>. QED BY <2>1, <2>2, <2>3, <1>1
<1>4. f[t] = Outcomes(done[t]) /\ n = Len(f[t]) + 1 BY <1>1
<1>5. PICK i, p : i = [d \in Components |-> Issued(d)] /\ p = [d \in Components |-> Performed(d)] OBVIOUS
<1>6. i[c] = Issued(c) /\ p[c] = Performed(c) BY <1>5
<1>7. [d \in Components |-> Issued(d)'] = i /\ [d \in Components |-> Performed(d)'] = p
  BY <1>5 DEF IssuedStays, PerformedStays
<1>8. RPC!Return(t) BY <1>1, <1>2, <1>3, <1>4, <1>5, <1>6, <1>7 DEF RPC!Return, RPC!Outcome
<1>. QED BY <1>8 DEF RPC!Next

\* What the mapped variables depend on.
LEMMA SameIssued ==
  ASSUME NEW c, done'[comproot(c)] = done[comproot(c)], doing'[comproot(c)] = doing[comproot(c)]
  PROVE  IssuedStays(c)
BY DEF IssuedStays, Issued, IsIdle, CallOf

SameCall == (doing'[ioroot] = doing[ioroot] /\ code'[ioroot] = code[ioroot])
            \/ (code[ioroot] = "unknown" /\ code'[ioroot] = "unknown")

LEMMA SamePerformed ==
  ASSUME NEW c, done'[ioroot] = done[ioroot], SameCall
  PROVE  PerformedStays(c)
<1>1. OfComp(ioroot, c)' = OfComp(ioroot, c) BY DEF OfComp
<1>2. CASE doing'[ioroot] = doing[ioroot] /\ code'[ioroot] = code[ioroot]
  BY <1>1, <1>2 DEF PerformedStays, Performed, CallOf
<1>3. CASE code[ioroot] = "unknown" /\ code'[ioroot] = "unknown"
  <2>1. PICK r : r = Outcomes(OfComp(ioroot, c)) OBVIOUS
  <2>2. Performed(c) = r \o <<>> BY <1>3, <2>1 DEF Performed, When
  <2>3. Performed(c)' = r \o <<>> BY <1>1, <1>3, <2>1 DEF Performed, When
  <2>. QED BY <2>2, <2>3 DEF PerformedStays
<1>. QED BY <1>2, <1>3 DEF SameCall

LEMMA QuietStep ==
  ASSUME \A t \in Callers : done'[t] = done[t] /\ doing'[t] = doing[t], done'[ioroot] = done[ioroot], SameCall
  PROVE  UNCHANGED RPC!rvars
<1>1. ASSUME NEW c \in Components PROVE IssuedStays(c) /\ PerformedStays(c)
  <2>1. comproot(c) \in Callers BY TasksApart
  <2>. QED BY <2>1, SameIssued, SamePerformed
<1>2. \A t \in Callers : ReturnedStays(t) BY DEF ReturnedStays
<1>. QED BY <1>1, <1>2, NoRemoteStep

\* Steps that are no part of a remote call: broadcasts, and the message loop
\* between two handlers.
LEMMA LoopIsQuiet ==
  ASSUME Shape, NEW h, Follows(h), NEW t \in IOTasks, TakeIndex(t) \/ Dispatch(t)
  PROVE  UNCHANGED RPC!rvars
<1>1. code' = code /\ done' = done /\ IsIdle(t) BY DEF TakeIndex, Dispatch, InLoop
<1>2. \A u : u # t => doing'[u] = doing[u]
  <2>1. PICK x : doing' = Becomes(doing, t, x) BY DEF TakeIndex, Dispatch
  <2>. QED BY <2>1 DEF Becomes
<1>3. code[t] = "unknown"
  <2>1. ServingAt(h, t) BY DEF Follows, Serving
  <2>. QED BY <2>1, <1>1 DEF ServingAt, Waiting
<1>4. SameCall BY <1>1, <1>2, <1>3 DEF SameCall
<1>5. \A u \in Callers : u # t BY TasksApart
<1>. QED BY <1>1, <1>2, <1>4, <1>5, QuietStep

LEMMA BcastIsQuiet ==
  ASSUME NEW t, Exchange(t) \/ Waitsome \/ TakeOutcount(t)
  PROVE  UNCHANGED RPC!rvars
<1>1. code' = code /\ done' = done /\ doing' = doing BY DEF Exchange, Waitsome, TakeOutcount
<1>2. SameCall BY <1>1 DEF SameCall
<1>. QED BY <1>1, <1>2, QuietStep

LEMMA LearningIsQuiet ==
  ASSUME NEW t, t # ioroot, TakeCode(t)
  PROVE  UNCHANGED RPC!rvars
<1>1. done' = done /\ doing' = doing BY DEF TakeCode
<1>2. PICK v : code' = [code EXCEPT ![t] = v] BY DEF TakeCode, Becomes
<1>3. SameCall BY <1>1, <1>2 DEF SameCall
<1>. QED BY <1>1, <1>3, QuietStep

LEMMA OtherHandlerIsQuiet ==
  ASSUME NEW t \in IOTasks, t # ioroot, EndHandler(t)
  PROVE  UNCHANGED RPC!rvars
<1>1. PICK x, y, z : done' = [done EXCEPT ![t] = x] /\ doing' = [doing EXCEPT ![t] = y] /\ code' = [code EXCEPT ![t] = z]
  <2>1. Finish(t) BY DEF EndHandler
  <2>. QED BY <2>1 DEF Finish, Becomes
<1>2. \A u \in Callers : u # t BY TasksApart
<1>3. SameCall BY <1>1 DEF SameCall
<1>. QED BY <1>1, <1>2, <1>3, QuietStep

-----------------------------------------------------------------------------
\* A call begins: comproot issues it.
LEMMA RequestsAreCalls == Requests \subseteq AllCalls
<1>. DEFINE calls  == UNION {Range(q) : q \in UNION {Programs[c] : c \in Components}}
            nested == UNION {Range(Steps(k.msg, k.given)) : k \in calls}
<1>1. ASSUME NEW s \in AllSteps PROVE s \in nested
  <2>6. PICK c \in Components : \E p \in Programs[c] : \E i \in DOMAIN p : s \in Range(Steps(p[i].msg, p[i].given))
    BY DEF AllSteps
  <2>7. PICK p \in Programs[c] : \E i \in DOMAIN p : s \in Range(Steps(p[i].msg, p[i].given)) BY <2>6
  <2>1. PICK i \in DOMAIN p : s \in Range(Steps(p[i].msg, p[i].given)) BY <2>7
  <2>2. PICK k : k = p[i] OBVIOUS
  <2>3. k \in Range(p) BY <2>2 DEF Range
  <2>4. k \in calls BY <2>3, Zenon
  <2>5. s \in Range(Steps(k.msg, k.given)) BY <2>1, <2>2
  <2>. QED BY <2>4, <2>5
<1>2. AllCalls = {Message(s.msg, s.given) : s \in nested} BY Zenon DEF AllCalls
<1>. HIDE DEF nested
<1>. QED BY <1>1, <1>2 DEF Requests

LEMMA BeginIssues ==
  ASSUME ProgramsFit, Shape, NEW h, Follows(h), NEW t \in Callers, Begin(t)
  PROVE  [RPC!Next]_RPC!rvars
<1>1. PICK c \in Components : c = t[1] /\ t \in CompTasks(c) BY TasksApart
<1>2. PICK s : s = Head(Head(program[t])) OBVIOUS
<1>3. PICK x : doing' = [doing EXCEPT ![t] = x] /\ x.msg = s.msg /\ x.given = s.given
  <2>1. PICK g : g = Service(s.msg, s.given).call OBVIOUS
  <2>2. doing' = Becomes(doing, t, Doing(t[1], s.msg, s.given, s.onfail, g)) BY <1>2, <2>1, Zenon DEF Begin
  <2>3. PICK y : y = Doing(t[1], s.msg, s.given, s.onfail, g) OBVIOUS
  <2>4. y.msg = s.msg /\ y.given = s.given BY <2>3 DEF Doing
  <2>. QED BY <2>2, <2>3, <2>4 DEF Becomes
<1>4. program[t] # <<>> /\ IsIdle(t) /\ code' = code /\ done' = done BY DEF Begin
<1>5. t \in DOMAIN doing /\ doing'[t] = x
  <2>1. t \in DOMAIN doing BY TasksApart DEF Shape
  <2>. QED BY <2>1, <1>3
<1>6. t # ioroot /\ \A d \in Components : d # c => t # comproot(d) BY <1>1, TasksApart
<1>7. SameCall BY <1>3, <1>4, <1>6 DEF SameCall
<1>8. \A d \in Components : PerformedStays(d) BY <1>4, <1>7, SamePerformed
<1>9. \A u \in Callers : ReturnedStays(u) BY <1>4 DEF ReturnedStays
<1>10. \A d \in Components \ {c} : IssuedStays(d) BY <1>3, <1>4, <1>6, SameIssued
<1>11. CASE t # comproot(c)
  <2>1. IssuedStays(c) BY <1>3, <1>4, <1>11, SameIssued
  <2>2. UNCHANGED RPC!rvars BY <2>1, <1>8, <1>9, <1>10, NoRemoteStep
  <2>. QED BY <2>2
<1>12. CASE t = comproot(c)
  <2>1. s \in AllSteps
    <3>1. CallingAt(h, t, c) /\ PlacedAt(h, t, c) /\ Calls(h) /\ Measured(h)
      BY <1>1, MembersOf DEF Follows, Calling, Placed
    <3>2. PICK p : p = program[t] OBVIOUS
    <3>3. PICK n : n = h.num[t][c] OBVIOUS
    <3>4. p = h.prog[c][n] /\ n \in 0 .. h.last[c] BY <3>1, <3>2, <3>3 DEF CallingAt, PlacedAt
    <3>5. Programme(p) BY <3>1, <3>4 DEF Calls
    <3>6. StepOf(p) \in AllSteps BY <1>4, <3>2, <3>5, StepFits
    <3>. QED BY <3>2, <3>6, <1>2 DEF StepOf
  <2>2. s.msg # "NULL" BY <2>1 DEF ProgramsFit, WellFormed
  <2>3. PICK q \in Seq(Entries) : q = done[t] BY DoneIs, TasksApart
  <2>4. PICK r \in Seq(Requests) : r = CallsOf(q) BY CallsOfIs
  <2>5. PICK y \in Requests : y = Message(s.msg, s.given) BY <2>1 DEF Requests
  <2>6. Issued(c) = r
    <3>1. Issued(c) = r \o When(FALSE, <<CallOf(t)>>)
      <4>1. (~IsIdle(t)) = FALSE BY <1>4
      <4>. QED BY <4>1, <1>12, <2>3, <2>4 DEF Issued
    <3>2. PICK z : z = CallOf(t) OBVIOUS
    <3>3. r \o When(FALSE, <<z>>) = r BY WhenNot
    <3>. QED BY <3>1, <3>2, <3>3
  <2>7. Issued(c)' = Append(r, y)
    <3>1. (~IsIdle(t))' = TRUE BY <1>3, <1>5, <2>2 DEF IsIdle
    <3>2. CallOf(t)' = y BY <1>3, <1>5, <2>5 DEF CallOf
    <3>3. CallsOf(done[t])' = r BY <1>4, <2>3, <2>4
    <3>4. Issued(c)' = r \o When(TRUE, <<y>>) BY <3>1, <3>2, <3>3, <1>12 DEF Issued
    <3>5. r \o When(TRUE, <<y>>) = Append(r, y) BY WhenSo
    <3>. QED BY <3>4, <3>5
  <2>8. Issued(c)' = Append(Issued(c), y) BY <2>6, <2>7
  <2>9. y \in AllCalls BY RequestsAreCalls
  <2>10. RPC!Next BY <2>8, <2>9, <1>8, <1>9, <1>10, IssueStep
  <2>. QED BY <2>10
<1>. QED BY <1>11, <1>12

-----------------------------------------------------------------------------
\* What a call that ends adds to what a task has done.
LEMMA DoneGrows ==
  ASSUME Shape, NEW t \in Tasks, NEW c \in Components, NEW p, NEW v, Finished1(t, c, p, v),
         CallMessage(p) \in Requests, v \in Codes
  PROVE  /\ CallsOf(done[t])' = Append(CallsOf(done[t]), CallMessage(p))
         /\ Outcomes(done[t])' = Append(Outcomes(done[t]), [call |-> CallMessage(p), code |-> v])
         /\ Outcomes(OfComp(t, c))' = Append(Outcomes(OfComp(t, c)), [call |-> CallMessage(p), code |-> v])
         /\ \A d \in Components : d # c => OfComp(t, d)' = OfComp(t, d)
<1>1. PICK e : e = Entry(c, p, v) OBVIOUS
<1>2. e \in Entries /\ e.comp = c /\ e.call = CallMessage(p) /\ e.code = v BY <1>1 DEF Entries, Entry
<1>3. PICK s \in Seq(Entries) : s = done[t] BY DoneIs
<1>4. done'[t] = Append(s, e)
  <2>1. done' = [done EXCEPT ![t] = Append(done[t], e)] BY <1>1, Zenon DEF Finished1
  <2>2. DOMAIN done = Tasks BY DEF Shape
  <2>3. PICK w : w = Append(s, e) OBVIOUS
  <2>4. done' = [done EXCEPT ![t] = w] BY <2>1, <2>3, <1>3
  <2>. QED BY <2>2, <2>3, <2>4
<1>5. PICK w \in Seq(Entries) : w = Append(s, e)
  <2>1. PICK T : T = Entries OBVIOUS
  <2>2. Append(s, e) \in Seq(T) BY <2>1, <1>2
  <2>. QED BY <2>1, <2>2
<1>6. done'[t] = w BY <1>4, <1>5
<1>7. CallsOf(w) = Append(CallsOf(s), e.call) /\ Outcomes(w) = Append(Outcomes(s), [call |-> e.call, code |-> e.code])
  BY <1>2, <1>5, Appended
<1>8. ASSUME NEW d \in Components
      PROVE  /\ d # c => OfComp(t, d)' = OfComp(t, d)
             /\ d = c => OfComp(t, d)' = Append(OfComp(t, d), e)
  <2>1. PartOf(s, d) \in Seq(Entries) /\ PartOf(Append(s, e), d) = PartOf(s, d) \o OnlyOf(e, d) BY <1>2, PartGrows
  <2>2. PICK q \in Seq(Entries) : q = PartOf(s, d) BY <2>1
  <2>3. OfComp(t, d) = q BY <2>2, <1>3 DEF OfComp
  <2>4. OfComp(t, d)' = q \o OnlyOf(e, d) BY <2>1, <2>2, <1>4 DEF OfComp
  <2>5. ASSUME d # c PROVE OfComp(t, d)' = OfComp(t, d)
    <3>1. OnlyOf(e, d) = <<>> BY <2>5, <1>2 DEF OnlyOf, When
    <3>2. q \o <<>> = q OBVIOUS
    <3>. QED BY <3>1, <3>2, <2>3, <2>4
  <2>6. ASSUME d = c PROVE OfComp(t, d)' = Append(OfComp(t, d), e)
    <3>1. OnlyOf(e, d) = <<e>> BY <2>6, <1>2 DEF OnlyOf, When
    <3>2. q \o <<e>> = Append(q, e) BY <1>2
    <3>. QED BY <3>1, <3>2, <2>3, <2>4
  <2>. QED BY <2>5, <2>6
<1>9. Outcomes(OfComp(t, c))' = Append(Outcomes(OfComp(t, c)), [call |-> e.call, code |-> e.code])
  <2>1. PICK q \in Seq(Entries) : q = OfComp(t, c) BY DoneIs
  <2>2. OfComp(t, c)' = Append(q, e) BY <2>1, <1>8
  <2>3. Outcomes(Append(q, e)) = Append(Outcomes(q), [call |-> e.call, code |-> e.code]) BY <1>2, Appended
  <2>. QED BY <2>1, <2>2, <2>3
<1>10. CallsOf(done[t])' = CallsOf(w) /\ Outcomes(done[t])' = Outcomes(w) BY <1>6
<1>. QED BY <1>2, <1>3, <1>7, <1>8, <1>9, <1>10

-----------------------------------------------------------------------------
\* ioroot performs the calls.
LEMMA ServingCall ==
  ASSUME ProgramsFit, Shape, Batch, NEW h, Follows(h), NEW c \in Components, Busy(ioroot, c),
         NEW m, m = h.num[ioroot][c]
  PROVE  m \in Nat /\ m < Begun(h, c) /\ m < Len(Issued(c)) /\ Issued(c)[m + 1] = CallOf(ioroot)
<1>1. ioroot \in Tasks /\ ioroot \in Members(my_comm(c)) BY TasksApart, MembersOf
<1>2. Measured(h) /\ CarriedAt(h, c, m) BY DEF Follows, Carried
<1>3. m \in Nat BY <1>1, <1>2, Numbers
<1>4. c \in TakenUp
  <2>1. index # <<>> /\ index[1] = c /\ index \in Seq(Components) BY DEF Batch, Busy, Shape
  <2>2. 1 \in DOMAIN index BY <2>1
  <2>. QED BY <2>1, <2>2 DEF TakenUp
<1>5. m < Begun(h, c) BY <1>2, <1>4 DEF CarriedAt
<1>6. PICK b : b = Begun(h, c) OBVIOUS
<1>7. Len(Issued(c)) = b /\ b \in Nat /\ \A i \in 1 .. b : Issued(c)[i] = CallMessage(h.prog[c][i - 1])
  BY <1>6, IssuedIs
<1>8. m + 1 \in 1 .. b
  <2>1. m < b BY <1>5, <1>6
  <2>2. b \in Nat BY <1>7
  <2>. QED BY <2>1, <2>2, <1>3
<1>9. CallOf(ioroot) = CallMessage(h.prog[c][m]) BY <1>1, CallInProgress
<1>10. Issued(c)[m + 1] = CallMessage(h.prog[c][m])
  <2>1. PICK i : i = m + 1 OBVIOUS
  <2>2. i - 1 = m BY <2>1, <1>3
  <2>3. Issued(c)[i] = CallMessage(h.prog[c][i - 1]) BY <2>1, <1>7, <1>8
  <2>. QED BY <2>1, <2>2, <2>3
<1>. QED BY <1>3, <1>5, <1>6, <1>7, <1>9, <1>10

LEMMA NowPerformed ==
  ASSUME ProgramsFit, Shape, Batch, NEW h, Follows(h), NEW c \in Components, Busy(ioroot, c),
         code[ioroot] = "unknown", NEW v \in Codes,
         Performed(c)' = Append(Outcomes(OfComp(ioroot, c)), [call |-> CallOf(ioroot), code |-> v]),
         \A d \in Components \ {c} : PerformedStays(d), \A t \in Callers : done'[t] = done[t] /\ doing'[t] = doing[t]
  PROVE  RPC!Next
<1>1. PICK m : m = h.num[ioroot][c] OBVIOUS
<1>2. m \in Nat /\ m < Len(Issued(c)) /\ Issued(c)[m + 1] = CallOf(ioroot) BY <1>1, ServingCall
<1>3. Performed(c) = Outcomes(OfComp(ioroot, c)) /\ Len(Outcomes(OfComp(ioroot, c))) = m
  BY <1>1, PerformedIs DEF HasItsCode
<1>4. PICK q : q = Performed(c) OBVIOUS
<1>5. Len(q) = m /\ Len(q) < Len(Issued(c)) BY <1>2, <1>3, <1>4
<1>6. Performed(c)' = Append(q, [call |-> Issued(c)[Len(q) + 1], code |-> v])
  BY <1>2, <1>3, <1>4, <1>5
<1>7. \A d \in Components : IssuedStays(d)
  <2>1. \A d \in Components : comproot(d) \in Callers BY TasksApart
  <2>. QED BY <2>1, SameIssued
<1>8. \A t \in Callers : ReturnedStays(t) BY DEF ReturnedStays
<1>. QED BY <1>4, <1>5, <1>6, <1>7, <1>8, PerformStep

\* The code of ioroot's call becomes known.
LEMMA CodePerforms ==
  ASSUME ProgramsFit, Shape, Batch, NEW h, Follows(h), NEW c \in Components, Busy(ioroot, c),
         code[ioroot] = "unknown", NEW v \in Codes, code'[ioroot] = v, done' = done, doing' = doing
  PROVE  RPC!Next
<1>1. PICK r \in Seq(Replies) : r = Outcomes(OfComp(ioroot, c)) BY PerformedIs
<1>2. CallOf(ioroot) \in Requests BY TasksApart, MembersOf, CallInProgress
<1>3. PICK o : o = [call |-> CallOf(ioroot), code |-> v] OBVIOUS
<1>4. o \in Replies BY <1>2, <1>3 DEF Replies
<1>5. doing[ioroot].comp = c /\ v # "unknown" BY DEF Busy, Codes
<1>6. Performed(c)' = r \o When(TRUE, <<o>>)
  <2>1. OfComp(ioroot, c)' = OfComp(ioroot, c) BY DEF OfComp
  <2>2. CallOf(ioroot)' = CallOf(ioroot) BY DEF CallOf
  <2>3. (doing[ioroot].comp = c /\ code[ioroot] # "unknown")' = TRUE BY <1>5
  <2>4. [call |-> CallOf(ioroot), code |-> code[ioroot]]' = o BY <2>2, <1>3
  <2>. QED BY <2>1, <2>3, <2>4, <1>1 DEF Performed
<1>7. r \o When(TRUE, <<o>>) = Append(r, o) BY <1>4, WhenSo
<1>8. Performed(c)' = Append(Outcomes(OfComp(ioroot, c)), [call |-> CallOf(ioroot), code |-> v])
  BY <1>1, <1>3, <1>6, <1>7
<1>9. ASSUME NEW d \in Components \ {c} PROVE PerformedStays(d)
  <2>1. (doing[ioroot].comp = d /\ code[ioroot] # "unknown") = FALSE BY <1>5
  <2>2. (doing[ioroot].comp = d /\ code[ioroot] # "unknown")' = FALSE BY <1>5
  <2>3. OfComp(ioroot, d)' = OfComp(ioroot, d) BY DEF OfComp
  <2>4. Performed(d) = Outcomes(OfComp(ioroot, d)) \o <<>> BY <2>1 DEF Performed, When
  <2>5. Performed(d)' = Outcomes(OfComp(ioroot, d))' \o <<>> BY <2>2 DEF Performed, When
  <2>. QED BY <2>3, <2>4, <2>5 DEF PerformedStays
<1>. QED BY <1>8, <1>9, NowPerformed

LEMMA TakeCodePerforms ==
  ASSUME ProgramsFit, Shape, Batch, NEW h, Follows(h), TakeCode(ioroot)
  PROVE  RPC!Next
<1>1. PICK t : t = ioroot OBVIOUS
<1>2. t \in Tasks BY <1>1, TasksApart
<1>3. PICK b : b = Head(todo[t]) OBVIOUS
<1>4. /\ todo[t] # <<>> /\ b.item = Ierr /\ done' = done /\ doing' = doing
      /\ \E v \in Values(t, b, LibraryCodes(doing[t])) : code' = [code EXCEPT ![t] = v]
  BY <1>1, <1>3 DEF TakeCode, At, Becomes
<1>5. Ierr \in Control /\ Ierr \notin {Outcount, Index, Msg}
  BY DEF Control, Ierr, Outcount, Index, Msg, INT
<1>6. PICK c \in Components : t \in Members(my_comm(c)) /\ Busy(t, c) BY <1>2, <1>3, <1>4, <1>5, InSomeCall
<1>7. Measured(h) /\ Calls(h) /\ Placed(h) BY DEF Follows
<1>8. PlacedAt(h, t, c) BY <1>6, <1>7 DEF Placed
<1>9. PICK n, k : AtStep(h, t, c, n, k, b) BY <1>2, <1>3, <1>4, <1>6, <1>7, <1>8, NextInCall
<1>10. PICK p, f, l : p = h.prog[c][n] /\ f = FullScript(h, c, n) /\ l = Len(Agreed(c, p)) OBVIOUS
<1>11. /\ n = h.num[t][c] /\ IsCall(h, c, n) /\ k \in Nat /\ InScript(h, t, c, k)
       /\ k + 1 \in 1 .. Len(f) /\ b = f[k + 1]
       /\ b.item \in DataItems \/ (Shared(p) /\ k + 1 = l)
  BY <1>9, <1>10 DEF AtStep
<1>12. IsScript(c, p, l, f) BY <1>7, <1>10, <1>11, CallIs
<1>13. Shared(p) /\ k + 1 = l BY <1>4, <1>5, <1>11 DEF ProgramsFit
<1>14. b.root = ioroot
  <2>1. b = Bcast(my_comm(c), ioroot, Ierr) BY <1>11, <1>12, <1>13 DEF IsScript
  <2>. QED BY <2>1 DEF Bcast
<1>15. code[t] = "unknown"
  <2>1. InCallAt(h, t, c, n, p, k) BY <1>10, <1>11 DEF InScript
  <2>2. code[t] # "unknown" => l <= k BY <1>10, <1>13, <2>1 DEF InCallAt
  <2>3. l \in Nat BY <1>11, <1>13
  <2>. QED BY <2>2, <2>3, <1>11, <1>13
<1>16. PICK v \in Values(t, b, LibraryCodes(doing[t])) : code' = [code EXCEPT ![t] = v] BY <1>4
<1>17. v \in Codes BY <1>1, <1>14, <1>16 DEF Values, LibraryCodes, Codes
<1>18. code'[t] = v
  <2>1. code \in [Tasks -> Codes \cup {"unknown"}] BY DEF Shape
  <2>. QED BY <2>1, <1>2, <1>16
<1>. QED BY <1>1, <1>4, <1>6, <1>15, <1>17, <1>18, CodePerforms

LEMMA OwnCodePerforms ==
  ASSUME ProgramsFit, Shape, Batch, NEW h, Follows(h), OwnCode(ioroot)
  PROVE  RPC!Next
<1>1. PICK t : t = ioroot OBVIOUS
<1>2. t \in Tasks BY <1>1, TasksApart
<1>3. PICK v \in LibraryCodes(doing[t]) : code' = [code EXCEPT ![t] = v] BY <1>1 DEF OwnCode, Becomes
<1>4. ~IsIdle(t) /\ code[t] = "unknown" /\ done' = done /\ doing' = doing BY <1>1 DEF OwnCode
<1>5. PICK c \in Components : Busy(t, c) BY <1>2, <1>4, InSomeCall
<1>6. v \in Codes BY <1>3 DEF LibraryCodes, Codes
<1>7. code'[t] = v
  <2>1. code \in [Tasks -> Codes \cup {"unknown"}] BY DEF Shape
  <2>. QED BY <2>1, <1>2, <1>3
<1>. QED BY <1>1, <1>4, <1>5, <1>6, <1>7, CodePerforms

\* A handler ends: a call without a code is performed now.
LEMMA HandlerPerforms ==
  ASSUME ProgramsFit, Shape, Batch, NEW h, Follows(h), EndHandler(ioroot)
  PROVE  [RPC!Next]_RPC!rvars
<1>1. PICK t : t = ioroot OBVIOUS
<1>2. t \in Tasks /\ t \in IOTasks /\ t \notin Callers BY <1>1, TasksApart
<1>3. Ended(t) /\ Finish(t) BY <1>1 DEF EndHandler
<1>4. ~IsIdle(t) BY <1>3 DEF Ended
<1>5. PICK c \in Components : t \in Members(my_comm(c)) /\ Busy(t, c) BY <1>2, <1>4, InSomeCall
<1>6. PICK n, p, v : n = h.num[t][c] /\ p = h.prog[c][n] /\ v = h.cd[c][n] OBVIOUS
<1>7. PICK r \in Codes : r = Result(t) /\ Finished1(t, c, p, r) BY <1>3, <1>5, <1>6, FinishIs
<1>8. CallOf(t) = CallMessage(p) /\ CallMessage(p) \in Requests BY <1>5, <1>6, CallInProgress
<1>9. PICK o, s : o = [call |-> CallOf(t), code |-> r] /\ s = Outcomes(OfComp(t, c)) OBVIOUS
<1>10. s \in Seq(Replies) /\ o \in Replies
  <2>1. s \in Seq(Replies) BY <1>1, <1>9, PerformedIs
  <2>. QED BY <2>1, <1>8, <1>9 DEF Replies
<1>11. /\ Outcomes(OfComp(t, c))' = Append(s, o)
       /\ \A d \in Components : d # c => OfComp(t, d)' = OfComp(t, d)
  BY <1>2, <1>7, <1>8, <1>9, DoneGrows
<1>12. /\ doing'[t].comp = 0 /\ code'[t] = "unknown"
       /\ \A u \in Tasks : u # t => doing'[u] = doing[u] /\ code'[u] = code[u] /\ done'[u] = done[u]
  BY <1>7, Zenon DEF Finished1
<1>13. \A d \in Components : Performed(d)' = Outcomes(OfComp(t, d))' \o <<>>
  BY <1>1, <1>12 DEF Performed, When
<1>14. doing[t].comp = c BY <1>5 DEF Busy
<1>15. ASSUME NEW d \in Components \ {c} PROVE PerformedStays(d)
  <2>1. Performed(d) = Outcomes(OfComp(t, d)) \o <<>> BY <1>1, <1>14 DEF Performed, When
  <2>2. Outcomes(OfComp(t, d))' = Outcomes(OfComp(t, d)) BY <1>11
  <2>. QED BY <2>1, <2>2, <1>13 DEF PerformedStays
<1>16. Performed(c)' = Append(s, o)
  <2>1. PICK T : T = Replies OBVIOUS
  <2>2. Append(s, o) \in Seq(T) BY <2>1, <1>10
  <2>3. PICK w \in Seq(T) : w = Append(s, o) BY <2>2
  <2>4. w \o <<>> = w OBVIOUS
  <2>5. Performed(c)' = w \o <<>> BY <2>3, <1>11, <1>13
  <2>. QED BY <2>3, <2>4, <2>5
<1>17. \A u \in Callers : done'[u] = done[u] /\ doing'[u] = doing[u] BY <1>2, <1>12, TasksApart
<1>18. r = IF code[t] = "unknown" THEN "ok" ELSE code[t] BY <1>2, <1>7 DEF Result
<1>19. CASE code[t] = "unknown"
  <2>1. RPC!Next BY <1>1, <1>5, <1>9, <1>15, <1>16, <1>17, <1>19, NowPerformed
  <2>. QED BY <2>1
<1>20. CASE code[t] # "unknown"
  <2>1. HasItsCode(c) BY <1>1, <1>14, <1>20 DEF HasItsCode
  <2>2. Performed(c) = Append(s, o) BY <2>1, <1>1, <1>9, <1>18, <1>20, PerformedIs
  <2>3. PerformedStays(c) BY <2>2, <1>16 DEF PerformedStays
  <2>4. \A d \in Components : comproot(d) \in Callers BY TasksApart
  <2>5. \A d \in Components : IssuedStays(d) BY <2>4, <1>17, SameIssued
  <2>6. \A u \in Callers : ReturnedStays(u) BY <1>17 DEF ReturnedStays
  <2>7. UNCHANGED RPC!rvars BY <2>3, <2>5, <2>6, <1>15, NoRemoteStep
  <2>. QED BY <2>7
<1>. QED BY <1>19, <1>20

-----------------------------------------------------------------------------
\* No task returns from a call before comproot has begun it.

\* What is known of a script is not longer than all of it.
LEMMA KnownFits ==
  ASSUME ProgramsFit, NEW h, Measured(h), Calls(h), NEW c \in Components, NEW n, IsCall(h, c, n),
         NEW v, v = "unknown" \/ v = h.cd[c][n]
  PROVE  Len(Script(c, h.prog[c][n], v, h.hand[c][n])) <= Len(FullScript(h, c, n))
<1>1. PICK p : p = h.prog[c][n] OBVIOUS
<1>2. IsScript(c, p, Len(Agreed(c, p)), FullScript(h, c, n)) /\ Programme(p) /\ p # <<>> BY <1>1, CallIs
<1>3. Len(FullScript(h, c, n)) \in Nat /\ Len(Agreed(c, p)) <= Len(FullScript(h, c, n)) BY <1>2 DEF IsScript
<1>4. CASE v = "unknown"
  <2>1. Script(c, p, v, h.hand[c][n]) = Agreed(c, p) BY <1>2, <1>4, ScriptIs
  <2>. QED BY <2>1, <1>1, <1>3
<1>5. CASE v = h.cd[c][n]
  <2>1. FullScript(h, c, n) = Script(c, p, v, h.hand[c][n]) BY <1>1, <1>5 DEF FullScript
  <2>. QED BY <2>1, <1>1, <1>3
<1>. QED BY <1>4, <1>5

\* A task in a call is not beyond its end.
LEMMA WithinCall ==
  ASSUME ProgramsFit, Shape, NEW h, Measured(h), Calls(h), NEW c \in Components,
         NEW t \in Members(my_comm(c)), PlacedAt(h, t, c), Busy(t, c), NEW n, n = h.num[t][c]
  PROVE  IsCall(h, c, n) /\ h.pos[my_comm(c)][t] <= EndOfCall(h, c, n)
<1>1. PICK p : p = h.prog[c][n] OBVIOUS
<1>2. n \in 0 .. h.last[c] /\ Makes(t, p) BY <1>1 DEF PlacedAt
<1>3. PICK k \in Nat : InScript(h, t, c, k) BY DEF PlacedAt
<1>4. InCallAt(h, t, c, n, p, k) BY <1>1, <1>3 DEF InScript
<1>5. IsCall(h, c, n) BY <1>1, <1>2 DEF IsCall, Makes
<1>6. t \in Tasks BY MembersAreTasks, CommsApart
<1>7. /\ LeftOf(Script(c, p, Known(p, code[t]), h.hand[c][n]), k, todo[t]) /\ Abreast(h, t, c, n, k)
      /\ Informed(t, p, h.cd[c][n])
  BY <1>4, Zenon DEF InCallAt
<1>8. PICK v : v = Known(p, code[t]) OBVIOUS
<1>9. v = "unknown" \/ v = h.cd[c][n] BY <1>7, <1>8 DEF Informed, Known
<1>10. Len(todo[t]) \in Nat BY <1>6 DEF Shape
<1>11. PICK y : y = Len(FullScript(h, c, n)) OBVIOUS
<1>12. y \in Nat /\ Params(p) \in Nat /\ Params(p) < y
  <2>1. IsScript(c, p, Len(Agreed(c, p)), FullScript(h, c, n)) BY <1>1, <1>5, CallIs
  <2>. QED BY <2>1, <1>11 DEF IsScript
<1>13. PICK z : z = Len(Script(c, p, v, h.hand[c][n])) OBVIOUS
<1>14. z = k + Len(todo[t]) BY <1>7, <1>8, <1>13 DEF LeftOf
<1>15. z <= y BY <1>1, <1>5, <1>9, <1>11, <1>13, KnownFits
<1>16. k <= y BY <1>10, <1>12, <1>14, <1>15
<1>17. PICK P \in Nat : P = Params(p) BY <1>12
<1>18. PICK x \in Nat : x = h.st[c][n] BY <1>5, CallIs, Numbers
<1>19. h.pos[my_comm(c)][t] = x + (IF k <= P THEN 0 ELSE k - P)
  <2>1. Abreast(h, t, c, n, k) BY <1>7
  <2>2. P = Params(h.prog[c][n]) BY <1>1, <1>17
  <2>3. h.pos[my_comm(c)][t] = h.st[c][n] + (IF k <= P THEN 0 ELSE k - P) BY <2>1, <2>2 DEF Abreast
  <2>. QED BY <2>3, <1>18
<1>20. EndOfCall(h, c, n) = x + (y - P) BY <1>1, <1>11, <1>17, <1>18 DEF EndOfCall
<1>21. PICK u : u = IF k <= P THEN 0 ELSE k - P OBVIOUS
<1>22. u \in Nat /\ u <= y - P BY <1>12, <1>16, <1>17, <1>21
<1>23. x + u <= x + (y - P) BY <1>12, <1>17, <1>22
<1>. QED BY <1>5, <1>19, <1>20, <1>21, <1>23

\* comproot is the root of a call's first broadcast on my_comm.
LEMMA RootFirst ==
  ASSUME ProgramsFit, Shape, NEW h, Follows(h), NEW c \in Components, NEW n, IsCall(h, c, n),
         NEW t \in Members(my_comm(c)), h.st[c][n] < h.pos[my_comm(c)][t]
  PROVE  h.st[c][n] < h.pos[my_comm(c)][comproot(c)]
<1>1. Measured(h) /\ Calls(h) /\ Logged(h) /\ Recorded(h) BY DEF Follows
<1>2. PICK p, f, a : p = h.prog[c][n] /\ f = FullScript(h, c, n) /\ a = Agreed(c, p) OBVIOUS
<1>3. /\ IsScript(c, p, Len(a), f) /\ IsJoin(f, a, Rest(c, p, h.cd[c][n], h.hand[c][n]))
      /\ Programme(p) /\ p # <<>> /\ n \in Nat
  BY <1>1, <1>2, CallIs
<1>4. Params(p) \in Nat /\ Len(a) \in Nat /\ Len(f) \in Nat /\ Params(p) < Len(a) /\ Len(a) <= Len(f)
  BY <1>3 DEF IsScript
<1>5. PICK k : k = Params(p) + 1 OBVIOUS
<1>6. k \in 1 .. Len(a) /\ k \in 1 .. Len(f) /\ ~(k <= Params(p)) /\ k - Params(p) = 1 /\ k \in 1 .. Params(p) + 1
  BY <1>4, <1>5
<1>7. PICK b : b = f[k] OBVIOUS
<1>8. b.on = my_comm(c) BY <1>3, <1>6, <1>7 DEF IsScript
<1>9. b.root = comproot(c)
  <2>1. f[k] = a[k] BY <1>3, <1>6 DEF IsJoin
  <2>2. \A j \in 1 .. Params(p) + 1 : Agreed(c, p)[j].root = comproot(c) BY <1>3, AgreedIs
  <2>. QED BY <2>1, <2>2, <1>2, <1>6, <1>7
<1>10. PICK x \in Nat : x = h.st[c][n] BY <1>1, <1>3, Numbers
<1>11. Place(h, c, n, k) = x + 1 BY <1>2, <1>6, <1>10 DEF Place
<1>12. my_comm(c) \in Comms BY CommsApart
<1>13. PICK q \in Seq(Packets) : q = bcasts[my_comm(c)] BY <1>12 DEF Shape
<1>14. PICK l, w, M, pos : l = h.log[my_comm(c)] /\ w = h.low[my_comm(c)] /\ M = Members(my_comm(c)) /\ pos = h.pos[my_comm(c)]
  OBVIOUS
<1>15. InLine(l, pos, w, q, M) BY <1>1, <1>12, <1>13, <1>14 DEF Logged
<1>16. w \in Nat /\ Len(q) \in Nat /\ Top(h, my_comm(c)) = w + Len(q)
  <2>1. h.low \in [Comms -> Nat] BY <1>1 DEF Measured
  <2>2. Top(h, my_comm(c)) = w + Len(q) BY <1>13, <1>14 DEF Top
  <2>. QED BY <2>1, <2>2, <1>12, <1>14
<1>17. \A u \in M : w <= pos[u] /\ pos[u] <= w + Len(q) /\ pos[u] \in Nat
  BY <1>1, <1>12, <1>14, <1>15, Numbers, MembersAreTasks DEF InLine
<1>18. comproot(c) \in M /\ t \in M BY <1>14, MembersOf, TasksApart
<1>19. x + 1 <= pos[t] BY <1>10, <1>14, <1>17, <1>18
<1>20. x + 1 <= w + Len(q) BY <1>16, <1>17, <1>18, <1>19
<1>21. l[x + 1].root = comproot(c)
  <2>1. n \in 0 .. h.last[c] /\ h.prog[c][n] # <<>> BY DEF IsCall
  <2>2. k \in 1 .. Len(FullScript(h, c, n)) /\ FullScript(h, c, n)[k] = b BY <1>2, <1>6, <1>7
  <2>3. Place(h, c, n, k) <= Top(h, my_comm(c)) BY <1>11, <1>16, <1>20
  <2>4. IsEntry(h.log[my_comm(c)][Place(h, c, n, k)], b, h.cd[c][n]) BY <2>1, <2>2, <2>3, <1>1, <1>8 DEF Recorded
  <2>. QED BY <2>4, <1>9, <1>11, <1>14 DEF IsEntry
<1>24. PICK z \in Nat : z = pos[comproot(c)] BY <1>17, <1>18
<1>25. SUFFICES x < z BY <1>10, <1>14, <1>24
<1>22. CASE x + 1 <= w
  <2>1. w <= z BY <1>17, <1>18, <1>24
  <2>. QED BY <2>1, <1>16, <1>22
<1>23. CASE ~(x + 1 <= w)
  <2>1. PICK i : i = x + 1 - w OBVIOUS
  <2>2. i \in 1 .. Len(q) /\ w + i = x + 1 BY <2>1, <1>16, <1>20, <1>23
  <2>3. q[i].root = l[x + 1].root /\ x + 1 <= pos[q[i].root] BY <2>2, <1>15 DEF InLine
  <2>4. x + 1 <= z BY <2>3, <1>21, <1>24
  <2>. QED BY <2>4
<1>. QED BY <1>22, <1>23

LEMMA BegunFirst ==
  ASSUME ProgramsFit, Shape, NEW h, Follows(h), NEW c \in Components, NEW t \in CompTasks(c),
         Busy(t, c), Ended(t), NEW n, n = h.num[t][c]
  PROVE  n < Begun(h, c)
<1>1. PICK r : r = comproot(c) OBVIOUS
<1>2. t \in Members(my_comm(c)) /\ r \in Members(my_comm(c)) /\ t \in Tasks /\ r \in Tasks /\ r \in CompTasks(c)
  BY <1>1, MembersOf, TasksApart
<1>3. Measured(h) /\ Calls(h) /\ PlacedAt(h, t, c) /\ PlacedAt(h, r, c) /\ CallingAt(h, r, c)
  BY <1>2 DEF Follows, Placed, Calling
<1>4. n \in Nat /\ h.num[r][c] \in Nat /\ h.last[c] \in Nat BY <1>2, <1>3, Numbers
<1>5. CASE t = r BY <1>1, <1>4, <1>5 DEF Begun, Busy
<1>6. CASE t # r
  <2>1. SUFFICES ASSUME ~(n < Begun(h, c)) PROVE FALSE OBVIOUS
  <2>2. PICK p : p = h.prog[c][n] OBVIOUS
  <2>3. EndedAt(h, t, c, n, p) BY <2>2, <1>2, EndedCall
  <2>4. n \in 0 .. h.last[c] /\ IsCall(h, c, n) /\ todo[t] = <<>> BY <2>3, Zenon DEF EndedAt
  <2>5. h.st[c][n] < h.pos[my_comm(c)][t]
    <3>1. PICK k \in Nat : LeftOf(FullScript(h, c, n), k, todo[t]) /\ Abreast(h, t, c, n, k)
      BY <2>3, Zenon DEF EndedAt
    <3>2. PICK f : f = FullScript(h, c, n) OBVIOUS
    <3>3. Len(f) = k + 0 BY <2>4, <3>1, <3>2 DEF LeftOf
    <3>4. IsScript(c, p, Len(Agreed(c, p)), f) BY <2>2, <2>4, <3>2, <1>3, CallIs
    <3>5. Params(p) \in Nat /\ Params(p) < k BY <3>3, <3>4 DEF IsScript
    <3>6. h.pos[my_comm(c)][t] = h.st[c][n] + (IF k <= Params(p) THEN 0 ELSE k - Params(p))
      BY <2>2, <3>1 DEF Abreast
    <3>7. h.st[c][n] \in Nat BY <1>3, <1>4, Numbers
    <3>. QED BY <3>5, <3>6, <3>7
  <2>6. h.st[c][n] < h.pos[my_comm(c)][r] BY <2>4, <2>5, <1>1, <1>2, RootFirst
  <2>7. PICK m \in Nat : m = h.num[r][c] BY <1>4
  <2>8. \A i \in 0 .. n - 1 : EndOfCall(h, c, i) <= h.st[c][n] BY <2>4, <1>3 DEF Calls
  <2>9. PICK x \in Nat : x = h.st[c][n] BY <1>3, <1>4, Numbers
  <2>10. PICK y \in Nat : y = h.pos[my_comm(c)][r] BY <1>2, <1>3, Numbers, CommsApart
  <2>11. CASE Busy(r, c)
    <3>1. Begun(h, c) = m + 1 BY <2>7, <2>11, <1>1 DEF Begun, Busy
    <3>2. m \in 0 .. n - 1 BY <2>1, <2>7, <3>1, <1>4
    <3>3. IsCall(h, c, m) /\ y <= EndOfCall(h, c, m) BY <2>7, <2>10, <2>11, <1>2, <1>3, WithinCall
    <3>4. EndOfCall(h, c, m) <= x BY <2>8, <2>9, <3>2
    <3>5. PICK z \in Nat : z = EndOfCall(h, c, m) BY <3>3, <1>3, EndsAre
    <3>. QED BY <2>6, <2>9, <2>10, <3>3, <3>4, <3>5
  <2>12. CASE ~Busy(r, c)
    <3>1. IsIdle(r) BY <2>12, <1>3 DEF CallingAt, Busy
    <3>2. Begun(h, c) = m BY <2>7, <3>1, <1>1 DEF Begun
    <3>3. y = h.st[c][m] BY <2>7, <2>10, <2>12, <1>3 DEF PlacedAt, AtRest
    <3>4. m \in 0 .. n BY <2>1, <2>7, <3>2, <1>4
    <3>5. CASE m = n BY <2>6, <2>9, <2>10, <3>3, <3>5
    <3>6. CASE m # n
      <4>1. m \in 0 .. n - 1 BY <3>4, <3>6, <1>4
      <4>2. EndOfCall(h, c, m) <= x BY <2>8, <2>9, <4>1
      <4>3. IsCall(h, c, m)
        <5>4. n <= h.last[c] /\ m <= n - 1 BY <4>1, <2>4, <1>4
        <5>1. m \in 0 .. h.last[c] - 1 BY <5>4, <1>4
        <5>2. h.prog[c][m] # <<>> BY <5>1, <1>3 DEF Calls
        <5>3. m \in 0 .. h.last[c] BY <5>1, <1>4
        <5>. QED BY <5>2, <5>3 DEF IsCall
      <4>4. PICK z \in Nat : z = EndOfCall(h, c, m) /\ h.st[c][m] < z BY <4>3, <1>3, EndsAre
      <4>. QED BY <2>6, <2>9, <2>10, <3>3, <4>2, <4>4
    <3>. QED BY <3>5, <3>6
  <2>. QED BY <2>11, <2>12
<1>. QED BY <1>5, <1>6

-----------------------------------------------------------------------------
\* A call returns with the code of its performance.
LEMMA CodeThere ==
  ASSUME ProgramsFit, Shape, NEW h, Follows(h), NEW c \in Components, NEW n \in 0 .. h.last[c],
         Shared(h.prog[c][n]), NEW v \in Codes, v = h.cd[c][n]
  PROVE  n + 1 <= Len(Performed(c)) /\ Performed(c)[n + 1].code = v
<1>1. PICK t : t = ioroot OBVIOUS
<1>2. t \in Tasks /\ t \in Members(my_comm(c)) BY <1>1, TasksApart, MembersOf
<1>3. PICK m : m = h.num[t][c] OBVIOUS
<1>4. Measured(h) /\ Undecided(h) /\ PlacedAt(h, t, c) BY <1>2 DEF Follows, Placed
<1>5. n \in Nat /\ m \in Nat
  <2>1. h.last[c] \in Nat /\ m \in Nat BY <1>2, <1>3, <1>4, Numbers
  <2>. QED BY <2>1
<1>6. PICK s \in Seq(Replies) : s = Outcomes(OfComp(t, c)) BY <1>1, <1>3, PerformedIs
<1>7. Len(s) = m /\ \A i \in 1 .. m : s[i].code = ServerCode(h.cd[c][i - 1]) BY <1>1, <1>3, <1>6, PerformedIs
<1>8. v # "unknown" BY DEF Codes
<1>9. m > n \/ (m = n /\ Busy(t, c))
  <2>1. ~(m < n) /\ ~(m = n /\ ~Busy(t, c)) BY <1>1, <1>3, <1>4, <1>8 DEF Undecided
  <2>. QED BY <2>1, <1>5
<1>10. PICK o : o = [call |-> CallOf(t), code |-> code[t]] OBVIOUS
<1>11. CASE m > n
  <2>1. n + 1 \in 1 .. m BY <1>5, <1>11
  <2>2. s[n + 1].code = v
    <3>1. PICK i : i = n + 1 OBVIOUS
    <3>2. s[i].code = ServerCode(h.cd[c][i - 1]) BY <2>1, <3>1, <1>7
    <3>3. i - 1 = n BY <3>1, <1>5
    <3>. QED BY <3>1, <3>2, <3>3, <1>8 DEF ServerCode
  <2>3. CASE HasItsCode(c)
    <3>1. Performed(c) = Append(s, o) BY <2>3, <1>1, <1>3, <1>6, <1>10, PerformedIs
    <3>2. Len(s) = m BY <1>7
    <3>3. Len(Append(s, o)) = m + 1 /\ \A i \in 1 .. m : Append(s, o)[i] = s[i] BY <3>2
    <3>4. Append(s, o)[n + 1] = s[n + 1] BY <3>3, <2>1
    <3>. QED BY <3>1, <3>3, <3>4, <2>2, <1>5, <1>11
  <2>4. CASE ~HasItsCode(c)
    <3>1. Performed(c) = s BY <2>4, <1>1, <1>3, <1>6, PerformedIs
    <3>. QED BY <3>1, <2>1, <2>2, <1>5, <1>7
  <2>. QED BY <2>3, <2>4
<1>12. CASE m = n /\ Busy(t, c)
  <2>1. PICK k \in Nat : InScript(h, t, c, k) BY <1>4, <1>12 DEF PlacedAt
  <2>2. PICK p : p = h.prog[c][n] OBVIOUS
  <2>3. InCallAt(h, t, c, n, p, k) BY <2>1, <2>2, <1>3, <1>12 DEF InScript
  <2>4. Informed(t, p, v) BY <2>3, Zenon DEF InCallAt
  <2>5. code[t] = v BY <2>2, <2>4, <1>1 DEF Informed
  <2>6. HasItsCode(c) BY <2>5, <1>1, <1>8, <1>12 DEF HasItsCode, Busy
  <2>7. Performed(c) = Append(s, o) BY <2>6, <1>1, <1>3, <1>6, <1>10, PerformedIs
  <2>8. Len(Append(s, o)) = n + 1 /\ Append(s, o)[n + 1] = o BY <1>7, <1>12
  <2>9. o.code = v BY <2>5, <1>10
  <2>. QED BY <2>7, <2>8, <2>9, <1>5
<1>. QED BY <1>9, <1>11, <1>12

LEMMA ReturnReturns ==
  ASSUME ProgramsFit, CodesHeard, Shape, NEW h, Follows(h), NEW t \in Callers, Return(t)
  PROVE  RPC!Next
<1>1. PICK c \in Components : c = t[1] /\ t \in CompTasks(c) BY TasksApart
<1>2. t \in Members(my_comm(c)) /\ t \in Tasks /\ t \notin IOTasks /\ t # ioroot BY <1>1, MembersOf, TasksApart
<1>3. Ended(t) /\ Finish(t) BY DEF Return
<1>4. Measured(h) /\ Calls(h) /\ CallingAt(h, t, c) /\ Recalled(h, t, c) BY <1>1, <1>2 DEF Follows, Calling, Remembered
<1>5. ~IsIdle(t) /\ Busy(t, c) BY <1>3, <1>4 DEF Ended, CallingAt, Busy
<1>6. PICK n, p, v : n = h.num[t][c] /\ p = h.prog[c][n] /\ v = h.cd[c][n] OBVIOUS
<1>7. PICK r \in Codes : r = CodeFor(t, p, v) /\ Finished1(t, c, p, r) BY <1>2, <1>3, <1>5, <1>6, FinishIs
<1>8. PICK x \in Requests : x = CallMessage(p) /\ CallOf(t) = x /\ (HasCode(x) <=> Shared(p))
  BY <1>2, <1>5, <1>6, CallInProgress
<1>9. EndedAt(h, t, c, n, p) BY <1>2, <1>3, <1>5, <1>6, EndedCall
<1>10. /\ n \in 0 .. h.last[c] /\ p # <<>>
       /\ Shared(p) => code[t] # "unknown" /\ code[t] = v
       /\ ~Shared(p) => v = "unknown"
  BY <1>6, <1>9, Zenon DEF EndedAt
<1>11. n \in Nat BY <1>10, <1>4, Numbers
<1>12. PICK q \in Seq(Entries) : q = done[t] BY <1>2, DoneIs
<1>13. Len(q) = n BY <1>1, <1>4, <1>6, <1>12 DEF Recalled
<1>14. PICK s, u : s = CallsOf(q) /\ u = Outcomes(q) OBVIOUS
<1>15. s \in Seq(Requests) /\ Len(u) = n BY <1>13, <1>14, CallsOfIs, OutcomesAre
<1>16. CallsOf(done[t])' = Append(s, x) /\ Outcomes(done[t])' = Append(u, [call |-> x, code |-> r])
  BY <1>2, <1>7, <1>8, <1>12, <1>14, DoneGrows
\* What was issued and performed.
<1>17. n + 1 <= Len(Issued(c)) /\ Issued(c)[n + 1] = x
  <2>1. PICK b : b = Begun(h, c) OBVIOUS
  <2>2. n < b BY <2>1, <1>1, <1>3, <1>5, <1>6, BegunFirst
  <2>3. Len(Issued(c)) = b /\ b \in Nat /\ \A i \in 1 .. b : Issued(c)[i] = CallMessage(h.prog[c][i - 1])
    BY <2>1, IssuedIs
  <2>4. PICK i : i = n + 1 OBVIOUS
  <2>5. i - 1 = n /\ i \in 1 .. b
    <3>1. b \in Nat BY <2>3
    <3>. QED BY <3>1, <2>2, <2>4, <1>11
  <2>6. Issued(c)[i] = CallMessage(h.prog[c][i - 1]) BY <2>3, <2>5
  <2>7. i <= b BY <2>5
  <2>. QED BY <2>3, <2>4, <2>5, <2>6, <2>7, <1>6, <1>8
<1>18. ASSUME HasCode(x) PROVE n + 1 <= Len(Performed(c)) /\ Performed(c)[n + 1].code = r
  <2>1. Shared(p) BY <1>8, <1>18
  <2>2. v \in Codes
    <3>1. code[t] \in Codes \cup {"unknown"} BY <1>2 DEF Shape
    <3>. QED BY <2>1, <3>1, <1>10
  <2>3. r = v
    <3>1. r = IF CallAt(p).agree = "dropped" THEN "ok" ELSE v
      BY <2>2, <1>2, <1>7 DEF CodeFor, CallerCode, Codes
    <3>2. ASSUME CallAt(p).agree = "dropped" PROVE v = "ok"
      <4>1. SUFFICES ASSUME v = "failed" PROVE FALSE BY <2>2 DEF Codes
      <4>2. Programme(p) /\ h.hand[c][n] \in {"bcast", "return"} BY <1>4, <1>6, <1>10 DEF Calls
      <4>3. StepOf(p).msg \in Failing[h.hand[c][n]] BY <4>1, <1>4, <1>6, <1>10 DEF Calls
      <4>4. StepOf(p) \in AllSteps BY <4>2, <1>10, StepFits
      <4>5. CallFor(StepOf(p)).agree = "dropped" BY <3>2 DEF CallAt
      <4>. QED BY <4>2, <4>3, <4>4, <4>5 DEF CodesHeard
    <3>. QED BY <3>1, <3>2
  <2>4. Shared(h.prog[c][n]) BY <2>1, <1>6
  <2>5. n + 1 <= Len(Performed(c)) /\ Performed(c)[n + 1].code = v BY <2>2, <2>4, <1>6, <1>10, CodeThere
  <2>. QED BY <2>3, <2>5
<1>19. ASSUME ~HasCode(x) PROVE r = "ok"
  <2>1. v = "unknown" BY <1>8, <1>10, <1>19
  <2>. QED BY <2>1, <1>2, <1>7 DEF CodeFor, CallerCode
\* What stays.
<1>20. \A y \in Tasks : y # t => doing'[y] = doing[y] /\ code'[y] = code[y] /\ done'[y] = done[y]
  BY <1>7, Zenon DEF Finished1
<1>21. \A d \in Components : PerformedStays(d)
  <2>1. ioroot \in Tasks BY TasksApart
  <2>2. SameCall BY <2>1, <1>2, <1>20 DEF SameCall
  <2>. QED BY <2>1, <2>2, <1>2, <1>20, SamePerformed
<1>22. \A y \in Callers \ {t} : ReturnedStays(y)
  <2>1. Callers \subseteq Tasks BY TasksApart
  <2>. QED BY <2>1, <1>20 DEF ReturnedStays
<1>23. ASSUME NEW d \in Components PROVE IssuedStays(d)
  <2>1. comproot(d) \in Tasks BY TasksApart
  <2>2. CASE comproot(d) # t BY <2>1, <2>2, <1>20, SameIssued
  <2>3. CASE comproot(d) = t
    <3>1. (~IsIdle(t)) = TRUE BY <1>5
    <3>2. (~IsIdle(t))' = FALSE
      <4>1. IsIdle(t)' BY <1>7, Zenon DEF Finished1
      <4>. QED BY <4>1
    <3>3. Issued(d) = s \o When(TRUE, <<x>>) BY <2>3, <3>1, <1>8, <1>12, <1>14 DEF Issued
    <3>4. s \o When(TRUE, <<x>>) = Append(s, x) BY <1>15, WhenSo
    <3>5. PICK z : z = CallOf(t)' OBVIOUS
    <3>6. Issued(d)' = Append(s, x) \o When(FALSE, <<z>>) BY <2>3, <3>2, <3>5, <1>16 DEF Issued
    <3>7. Append(s, x) \o When(FALSE, <<z>>) = Append(s, x)
      <4>1. PICK T : T = Requests OBVIOUS
      <4>2. Append(s, x) \in Seq(T) BY <4>1, <1>15
      <4>3. PICK w \in Seq(T) : w = Append(s, x) BY <4>2
      <4>4. w \o When(FALSE, <<z>>) = w BY WhenNot
      <4>. QED BY <4>3, <4>4
    <3>. QED BY <3>3, <3>4, <3>6, <3>7 DEF IssuedStays
  <2>. QED BY <2>2, <2>3
<1>24. PICK m : m = n + 1 OBVIOUS
<1>25. Outcomes(done[t])' = Append(Outcomes(done[t]), [call |-> Issued(c)[m], code |-> r])
  BY <1>12, <1>14, <1>16, <1>17, <1>24
<1>26. m = Len(Outcomes(done[t])) + 1 /\ m <= Len(Issued(c)) BY <1>12, <1>14, <1>15, <1>17, <1>24
<1>27. HasCode(Issued(c)[m]) => m <= Len(Performed(c)) /\ Performed(c)[m].code = r BY <1>17, <1>18, <1>24
<1>28. ~HasCode(Issued(c)[m]) => r = "ok" BY <1>17, <1>19, <1>24
<1>. QED BY <1>1, <1>21, <1>22, <1>23, <1>25, <1>26, <1>27, <1>28, ReturnStep

-----------------------------------------------------------------------------
LEMMA NothingYet ==
  ASSUME Init
  PROVE  RPC!Init
<1>1. \A t \in Tasks : done[t] = <<>> /\ IsIdle(t) /\ code[t] = "unknown" BY DEF Init, IsIdle, Idle
<1>2. CallsOf(<<>>) = <<>> /\ Outcomes(<<>>) = <<>> BY DEF CallsOf, Outcomes
<1>3. \A t \in Callers : Outcomes(done[t]) = <<>>
  <2>1. Callers \subseteq Tasks BY TasksApart
  <2>. QED BY <2>1, <1>1, <1>2
<1>4. ASSUME NEW c \in Components PROVE Issued(c) = <<>> /\ Performed(c) = <<>>
  <2>1. comproot(c) \in Tasks /\ ioroot \in Tasks BY TasksApart
  <2>2. CallsOf(done[comproot(c)]) = <<>> /\ Outcomes(OfComp(ioroot, c)) = <<>>
    BY <2>1, <1>1, <1>2, NothingDone DEF OfComp
  <2>3. Issued(c) = <<>> \o <<>> BY <2>1, <2>2, <1>1 DEF Issued, When
  <2>4. Performed(c) = <<>> \o <<>> BY <2>1, <2>2, <1>1 DEF Performed, When
  <2>. QED BY <2>3, <2>4
<1>. QED BY <1>3, <1>4 DEF RPC!Init

LEMMA EveryStep ==
  ASSUME ProgramsFit, CodesHeard, History, [Next]_vars
  PROVE  [RPC!Next]_RPC!rvars
<1>1. Shape /\ Batch BY DEF History
<1>2. PICK h : Follows(h) BY DEF History
<1>3. ASSUME NEW t \in Callers, CallerStep(t) PROVE [RPC!Next]_RPC!rvars
  <2>1. t # ioroot BY TasksApart
  <2>2. CASE Begin(t) BY <2>2, <1>1, <1>2, BeginIssues
  <2>3. CASE Exchange(t) BY <2>3, BcastIsQuiet
  <2>4. CASE TakeCode(t) BY <2>1, <2>4, LearningIsQuiet
  <2>5. CASE Return(t) BY <2>5, <1>1, <1>2, ReturnReturns
  <2>. QED BY <2>2, <2>3, <2>4, <2>5, <1>3 DEF CallerStep, InCall
<1>4. ASSUME NEW t \in IOTasks, IOStep(t) PROVE [RPC!Next]_RPC!rvars
  <2>1. CASE Waitsome BY <2>1, BcastIsQuiet
  <2>2. CASE TakeOutcount(t) BY <2>2, BcastIsQuiet
  <2>3. CASE TakeIndex(t) \/ Dispatch(t) BY <2>3, <1>1, <1>2, LoopIsQuiet
  <2>4. CASE Exchange(t) BY <2>4, BcastIsQuiet
  <2>5. CASE TakeCode(t)
    <3>1. CASE t = ioroot BY <3>1, <2>5, <1>1, <1>2, TakeCodePerforms
    <3>2. CASE t # ioroot BY <3>2, <2>5, LearningIsQuiet
    <3>. QED BY <3>1, <3>2
  <2>6. CASE OwnCode(t)
    <3>1. t = ioroot BY <2>6 DEF OwnCode
    <3>. QED BY <3>1, <2>6, <1>1, <1>2, OwnCodePerforms
  <2>7. CASE EndHandler(t)
    <3>1. CASE t = ioroot BY <3>1, <2>7, <1>1, <1>2, HandlerPerforms
    <3>2. CASE t # ioroot BY <3>2, <2>7, OtherHandlerIsQuiet
    <3>. QED BY <3>1, <3>2
  <2>. QED BY <2>1, <2>2, <2>3, <2>4, <2>5, <2>6, <2>7, <1>4 DEF IOStep, InCall
<1>5. ASSUME UNCHANGED vars PROVE UNCHANGED RPC!rvars
  <2>1. done' = done /\ doing' = doing /\ code' = code BY <1>5 DEF vars
  <2>2. SameCall BY <2>1 DEF SameCall
  <2>. QED BY <2>1, <2>2, QuietStep
<1>6. CASE Terminated BY <1>5, <1>6 DEF Terminated
<1>7. CASE UNCHANGED vars BY <1>5, <1>7
<1>8. CASE \E t \in Callers : CallerStep(t) BY <1>3, <1>8
<1>9. CASE \E t \in IOTasks : IOStep(t) BY <1>4, <1>9
<1>. QED BY <1>6, <1>7, <1>8, <1>9 DEF Next

\* Asynchronous mode is a remote call: pio_msg_handler2 performs what a
\* component asks for once and in the order it asks, and each task of the
\* component returns from its n-th call with the code that the library gave
\* for that very call, never before ioroot has it.
THEOREM ImplementsRemoteCalls ==
  ASSUME ProgramsFit, CodesHeard
  PROVE  Spec => RemoteCall
<1>1. Init => RPC!Init BY NothingYet
<1>2. History /\ [Next]_vars => [RPC!Next]_RPC!rvars BY EveryStep
<1>3. Spec => []History BY FollowsHistory
<1>. QED BY <1>1, <1>2, <1>3, PTL DEF Spec, RemoteCall, RPC!Spec

=============================================================================
