-------------------------- MODULE AsyncStepProofs ---------------------------
(***************************************************************************)
(* The steps of AsyncMsg up to the end of a call: a broadcast, the code of *)
(* a call, its beginning and the message loop of pio_msg_handler2 leave a  *)
(* state that follows from some history (AsyncHistory), if the programs    *)
(* fit.  The end of a call, the theorems and what they imply are in        *)
(* AsyncMsgProofs.                                                         *)
(***************************************************************************)
EXTENDS AsyncHistory, Recursion, FiniteSetTheorems, TLAPS

-----------------------------------------------------------------------------
(* The tasks and the communicators.                                        *)

LEMMA CommsApart ==
  /\ io_comm \in Comms
  /\ \A c \in Components :
       /\ intercomm(c) \in Comms /\ my_comm(c) \in Comms
       /\ intercomm(c) # io_comm /\ my_comm(c) # io_comm
       /\ \A d \in Components :
            /\ intercomm(c) # my_comm(d)
            /\ c # d => intercomm(c) # intercomm(d) /\ my_comm(c) # my_comm(d)
  /\ \A comm \in Comms : \/ comm = io_comm
                         \/ \E c \in Components : comm = intercomm(c) \/ comm = my_comm(c)
BY DEF Comms, io_comm, intercomm, my_comm

LEMMA MembersOf ==
  /\ Members(io_comm) = IOTasks
  /\ \A c \in Components : /\ Members(intercomm(c)) = IOTasks \cup {comproot(c)}
                           /\ Members(my_comm(c)) = IOTasks \cup CompTasks(c)
BY DEF Members, io_comm, intercomm, my_comm

LEMMA TasksApart ==
  /\ ioroot \in IOTasks /\ IOTasks \subseteq Tasks /\ Callers \subseteq Tasks
  /\ IOTasks \cap Callers = {}
  /\ \A t \in Tasks : t \in IOTasks \/ t \in Callers
  /\ \A t \in Callers : t[1] \in Components /\ t \in CompTasks(t[1])
  /\ \A c \in Components :
       /\ comproot(c) \in CompTasks(c) /\ CompTasks(c) \subseteq Callers
       /\ \A t \in CompTasks(c) : t[1] = c
<1>1. ioroot \in IOTasks BY AsyncAssumption DEF ioroot, IOTasks
<1>2. ASSUME NEW c \in Components, NEW t \in CompTasks(c) PROVE t[1] = c
  BY DEF CompTasks
<1>3. \A c \in Components : comproot(c) \in CompTasks(c)
  BY AsyncAssumption DEF comproot, CompTasks
<1>4. IOTasks \cap Callers = {}
  <2>1. \A t \in IOTasks : t[1] = 0 BY DEF IOTasks
  <2>. QED BY <2>1, <1>2 DEF Callers, Components
<1>5. \A c \in Components : CompTasks(c) \subseteq Callers BY DEF Callers
<1>6. \A t \in Callers : t[1] \in Components /\ t \in CompTasks(t[1])
  BY <1>2 DEF Callers
<1>. QED BY <1>1, <1>2, <1>3, <1>4, <1>5, <1>6 DEF Tasks

LEMMA Numbers ==
  ASSUME NEW h, Measured(h)
  PROVE  /\ \A comm \in Comms : \A t \in Tasks : h.pos[comm][t] \in Nat
         /\ \A c \in Components : /\ h.last[c] \in Nat
                                 /\ \A n \in Nat : h.sp[c][n] \in Nat /\ h.st[c][n] \in Nat
                                 /\ \A t \in Tasks : h.num[t][c] \in Nat
         /\ Shape => \A comm \in Comms : Top(h, comm) \in Nat
<1>1. \A comm \in Comms : h.pos[comm] \in [Tasks -> Nat] BY DEF Measured
<1>2. \A c \in Components : h.sp[c] \in [Nat -> Nat] /\ h.st[c] \in [Nat -> Nat] BY DEF Measured
<1>3. \A t \in Tasks : h.num[t] \in [Components -> Nat] BY DEF Measured
<1>4. ASSUME Shape, NEW comm \in Comms PROVE Top(h, comm) \in Nat
  <2>1. h.low[comm] \in Nat /\ Len(bcasts[comm]) \in Nat BY <1>4 DEF Shape, Measured
  <2>. QED BY <2>1 DEF Top
<1>. QED BY <1>1, <1>2, <1>3, <1>4 DEF Measured

LEMMA MembersAreTasks == \A comm \in Comms : Members(comm) \subseteq Tasks
BY CommsApart, MembersOf, TasksApart

-----------------------------------------------------------------------------
(* The broadcasts of a communicator.                                       *)

LEMMA MinIs ==
  ASSUME NEW S \in SUBSET Nat, NEW m \in S, \A y \in S : m <= y
  PROVE  Min(S) = m
<1>. DEFINE x == CHOOSE y \in S : \A z \in S : y <= z
<1>1. x \in S /\ \A z \in S : x <= z OBVIOUS
<1>2. x <= m /\ m <= x /\ x \in Nat /\ m \in Nat BY <1>1
<1>. HIDE DEF x
<1>3. x = m BY <1>2
<1>. QED BY <1>3 DEF Min, x


LEMMA Removing ==
  ASSUME NEW T, NEW s \in Seq(T), NEW i \in 1 .. Len(s)
  PROVE  /\ RemoveAt(s, i) \in Seq(T) /\ Len(RemoveAt(s, i)) = Len(s) - 1
         /\ \A j \in 1 .. Len(s) - 1 : RemoveAt(s, i)[j] = IF j < i THEN s[j] ELSE s[j + 1]
<1>. DEFINE n == Len(s)
            x == SubSeq(s, 1, i - 1)
            y == SubSeq(s, i + 1, n)
            z == x \o y
<1>1. n \in Nat /\ i \in Nat /\ 1 <= i /\ i <= n OBVIOUS
<1>2. x \in Seq(T) /\ Len(x) = i - 1 /\ \A j \in 1 .. i - 1 : x[j] = s[j] BY <1>1
<1>3. y \in Seq(T) /\ Len(y) = n - i
  <2>1. CASE i = n BY <2>1, <1>1
  <2>2. CASE i < n BY <2>2, <1>1
  <2>. QED BY <2>1, <2>2, <1>1
<1>4. \A j \in 1 .. n - i : y[j] = s[j + i] BY <1>1, <1>3
<1>. HIDE DEF x, y, n
<1>5. z \in Seq(T) /\ Len(z) = n - 1 BY <1>1, <1>2, <1>3
<1>6. ASSUME NEW j \in 1 .. n - 1 PROVE z[j] = IF j < i THEN s[j] ELSE s[j + 1]
  <2>1. CASE j < i BY <2>1, <1>1, <1>2, <1>3
  <2>2. CASE i <= j
    <3>1. z[j] = y[j - (i - 1)] BY <2>2, <1>1, <1>2, <1>3
    <3>2. j - (i - 1) \in 1 .. n - i /\ (j - (i - 1)) + i = j + 1 BY <2>2, <1>1
    <3>. QED BY <2>2, <3>1, <3>2, <1>1, <1>4
  <2>3. j < i \/ i <= j BY <1>1
  <2>. QED BY <2>1, <2>2, <2>3
<1>7. RemoveAt(s, i) = z BY DEF RemoveAt, x, y, n
<1>. QED BY <1>5, <1>6, <1>7 DEF n

\* What a task of the communicator has not taken part in comes after its place.
LEMMA UnreadAfter ==
  ASSUME NEW l, NEW p \in [Tasks -> Nat], NEW w \in Nat, NEW s \in Seq(Packets), NEW M \in SUBSET Tasks,
         InLine(l, p, w, s, M), NEW t \in M
  PROVE  /\ p[t] \in Nat /\ w <= p[t] /\ p[t] <= w + Len(s)
         /\ \A i \in 1 .. Len(s) : t \in s[i].unread <=> p[t] < w + i
<1>1. p[t] \in Nat /\ w <= p[t] /\ p[t] <= w + Len(s) BY DEF InLine
<1>2. ASSUME NEW i \in 1 .. Len(s) PROVE t \in s[i].unread <=> p[t] < w + i
  <2>. DEFINE e == s[i]
  <2>1. e.root \in M /\ w + i <= p[e.root] /\ e.unread = {u \in M \ {e.root} : p[u] < w + i}
    BY DEF InLine
  <2>2. t = e.root => ~ (p[t] < w + i) BY <2>1, <1>1
  <2>. HIDE DEF e
  <2>3. t \in e.unread <=> p[t] < w + i BY <2>1, <2>2
  <2>. QED BY <2>3 DEF e
<1>. QED BY <1>1, <1>2

LogItem(t, item, v) == [root |-> t, item |-> item, val |-> v]
Packet(t, item, v, unread) == [root |-> t, item |-> item, val |-> v, unread |-> unread]
Moved(p, q, t) == \A u \in Tasks : q[u] = IF u = t THEN p[u] + 1 ELSE p[u]

\* A task sends its broadcast at the end of the line.
LEMMA SendInLine ==
  ASSUME NEW l, NEW p \in [Tasks -> Nat], NEW w \in Nat, NEW s \in Seq(Packets), NEW M \in SUBSET Tasks,
         InLine(l, p, w, s, M), NEW t \in M, p[t] = w + Len(s),
         NEW item \in Items, NEW v \in Vals,
         NEW m, \A k \in 1 .. w + Len(s) : m[k] = l[k],
         m[w + Len(s) + 1] = LogItem(t, item, v),
         NEW q \in [Tasks -> Nat], Moved(p, q, t),
         M # {t}
  PROVE  /\ Append(s, Packet(t, item, v, M \ {t})) \in Seq(Packets)
         /\ InLine(m, q, w, Append(s, Packet(t, item, v, M \ {t})), M)
<1>. USE DEF LogItem, Packet
<1>. DEFINE e == Packet(t, item, v, M \ {t})
            n == Len(s)
            z == Append(s, e)
<1>1. e \in Packets /\ e.root = t /\ e.item = item /\ e.val = v /\ e.unread = M \ {t} BY DEF Packets
<1>2. n \in Nat /\ z \in Seq(Packets) /\ Len(z) = n + 1 /\ z[n + 1] = e /\ \A i \in 1 .. n : z[i] = s[i]
  BY <1>1
<1>3. \A u \in M : /\ p[u] \in Nat /\ w <= p[u] /\ p[u] <= w + n
                   /\ q[u] \in Nat /\ q[u] = IF u = t THEN p[u] + 1 ELSE p[u]
  BY DEF InLine, Moved
<1>4. \A u \in M : w <= q[u] /\ q[u] <= w + (n + 1) BY <1>2, <1>3
<1>. DEFINE Fits(x, i) ==
              /\ x.root = m[w + i].root /\ x.item = m[w + i].item /\ x.val = m[w + i].val
              /\ x.root \in M /\ w + i <= q[x.root]
              /\ x.unread = {u \in M \ {x.root} : q[u] < w + i}
              /\ x.unread # {}
<1>5. ASSUME NEW i \in 1 .. n PROVE Fits(s[i], i)
  <2>. DEFINE x == s[i]
  <2>1. /\ x.root = l[w + i].root /\ x.item = l[w + i].item /\ x.val = l[w + i].val
        /\ x.root \in M /\ w + i <= p[x.root]
        /\ x.unread = {u \in M \ {x.root} : p[u] < w + i} /\ x.unread # {}
    BY DEF InLine
  <2>2. m[w + i] = l[w + i] BY <1>2
  <2>3. w + i <= q[x.root]
    <3>. HIDE DEF e, z, x, Fits, n
    <3>1. ASSUME NEW u \in M, w + i <= p[u] PROVE w + i <= q[u]
      <4>1. i \in Nat /\ p[u] \in Nat /\ (q[u] = p[u] \/ q[u] = p[u] + 1) BY <1>2, <1>3
      <4>. QED BY <3>1, <4>1
    <3>. QED BY <3>1, <2>1
  <2>4. \A u \in M : q[u] < w + i <=> p[u] < w + i BY <1>2, <1>3
  <2>5. {u \in M \ {x.root} : p[u] < w + i} = {u \in M \ {x.root} : q[u] < w + i} BY <2>4
  <2>. HIDE DEF x
  <2>6. Fits(x, i) BY <2>1, <2>2, <2>3, <2>5
  <2>. QED BY <2>6 DEF x
<1>6. Fits(e, n + 1)
  <2>. HIDE DEF e
  <2>1. w + (n + 1) = w + n + 1 BY <1>2
  <2>2. q[t] = w + (n + 1) BY <1>2, <1>3
  <2>3. \A u \in M \ {t} : q[u] < w + (n + 1) BY <1>2, <1>3
  <2>4. M \ {t} = {u \in M \ {t} : q[u] < w + (n + 1)} BY <2>3
  <2>. QED BY <1>1, <1>2, <2>1, <2>2, <2>4
<1>. HIDE DEF e, n
<1>7. \A i \in 1 .. n + 1 : Fits(z[i], i)
  <2>. HIDE DEF z, Fits
  <2>1. \A i \in 1 .. n + 1 : i \in 1 .. n \/ i = n + 1 BY <1>2
  <2>. QED BY <1>2, <1>5, <1>6, <2>1 DEF n
<1>. HIDE DEF z
<1>8. InLine(m, q, w, z, M) BY <1>2, <1>4, <1>7 DEF InLine
<1>. QED BY <1>2, <1>8 DEF e, z


\* A broadcast that nobody else receives is over at once.
LEMMA SendAlone ==
  ASSUME NEW l, NEW p \in [Tasks -> Nat], NEW w \in Nat, NEW s \in Seq(Packets), NEW M \in SUBSET Tasks,
         InLine(l, p, w, s, M), NEW t \in M, p[t] = w + Len(s), NEW m,
         NEW q \in [Tasks -> Nat], Moved(p, q, t),
         M = {t}
  PROVE  Len(s) = 0 /\ InLine(m, q, w + 1, s, M)
<1>1. Len(s) \in Nat /\ p[t] \in Nat /\ q[t] = p[t] + 1 BY DEF Moved
<1>2. Len(s) = 0
  <2>1. ASSUME Len(s) > 0 PROVE FALSE
    <3>. DEFINE e == s[1]
    <3>1. e.root \in M /\ e.unread = {u \in M \ {e.root} : p[u] < w + 1} /\ e.unread # {}
      BY <2>1, <1>1 DEF InLine
    <3>. HIDE DEF e
    <3>. QED BY <3>1
  <2>. QED BY <2>1, <1>1
<1>3. \A u \in M : w + 1 <= q[u] /\ q[u] <= w + 1 + Len(s) BY <1>1, <1>2
<1>. QED BY <1>2, <1>3 DEF InLine

ReadBy(x, t) == [x EXCEPT !.unread = @ \ {t}]
Over(s, i, t) == ReadBy(s[i], t).unread = {}
Passed(s, i, t) == IF Over(s, i, t) THEN RemoveAt(s, i) ELSE [s EXCEPT ![i] = ReadBy(s[i], t)]
Lowest(w, s, i, t) == IF Over(s, i, t) THEN w + 1 ELSE w

\* A task receives the next broadcast; when it was the last to do so, that
\* broadcast was the first of the line.
LEMMA ReceiveInLine ==
  ASSUME NEW l, NEW p \in [Tasks -> Nat], NEW w \in Nat, NEW s \in Seq(Packets), NEW M \in SUBSET Tasks,
         InLine(l, p, w, s, M), NEW t \in M, p[t] < w + Len(s),
         NEW q \in [Tasks -> Nat], Moved(p, q, t)
  PROVE  LET i == p[t] + 1 - w
         IN  /\ i \in 1 .. Len(s) /\ Passed(s, i, t) \in Seq(Packets)
             /\ Lowest(w, s, i, t) \in Nat /\ Lowest(w, s, i, t) + Len(Passed(s, i, t)) = w + Len(s)
             /\ InLine(l, q, Lowest(w, s, i, t), Passed(s, i, t), M)
<1>. DEFINE n == Len(s)
            i == p[t] + 1 - w
            f == ReadBy(s[i], t)
            Fits(x, j) ==
              /\ x.root = l[w + j].root /\ x.item = l[w + j].item /\ x.val = l[w + j].val
              /\ x.root \in M /\ w + j <= q[x.root]
              /\ x.unread = {u \in M \ {x.root} : q[u] < w + j}
              /\ x.unread # {}
<1>1. n \in Nat /\ \A u \in M : /\ p[u] \in Nat /\ w <= p[u] /\ p[u] <= w + n
                                /\ q[u] \in Nat /\ q[u] = IF u = t THEN p[u] + 1 ELSE p[u]
  BY DEF InLine, Moved
<1>2. i \in 1 .. n /\ p[t] = w + i - 1 BY <1>1
<1>3. ASSUME NEW j \in 1 .. n
      PROVE  /\ s[j] \in Packets
             /\ s[j].root = l[w + j].root /\ s[j].item = l[w + j].item /\ s[j].val = l[w + j].val
             /\ s[j].root \in M /\ w + j <= p[s[j].root]
             /\ s[j].unread = {u \in M \ {s[j].root} : p[u] < w + j} /\ s[j].unread # {}
  BY DEF InLine
<1>. HIDE DEF n, i
<1>4. ASSUME NEW j \in 1 .. n PROVE w + j <= q[s[j].root]
  <2>1. \A u \in M : w + j <= p[u] => w + j <= q[u] BY <1>1
  <2>. QED BY <2>1, <1>3
<1>5. ASSUME NEW j \in 1 .. n, j # i PROVE Fits(s[j], j)
  <2>1. \A u \in M : p[u] < w + j <=> q[u] < w + j BY <1>1, <1>2, <1>5
  <2>2. {u \in M \ {s[j].root} : p[u] < w + j} = {u \in M \ {s[j].root} : q[u] < w + j} BY <2>1
  <2>. QED BY <1>3, <1>4, <2>2
<1>6. /\ f \in Packets /\ f.root = s[i].root /\ f.item = s[i].item /\ f.val = s[i].val
      /\ f.unread = s[i].unread \ {t}
  BY <1>2, <1>3 DEF Packets, ReadBy
<1>7. f.unread = {u \in M \ {f.root} : q[u] < w + i}
  <2>1. \A u \in M : q[u] < w + i <=> p[u] < w + i /\ u # t BY <1>1, <1>2
  <2>2. s[i].unread = {u \in M \ {s[i].root} : p[u] < w + i} BY <1>2, <1>3
  <2>. HIDE DEF f
  <2>. QED BY <2>1, <2>2, <1>6
<1>8. ASSUME f.unread # {}
      PROVE  [s EXCEPT ![i] = f] \in Seq(Packets) /\ InLine(l, q, w, [s EXCEPT ![i] = f], M)
  <2>. DEFINE z == [s EXCEPT ![i] = f]
  <2>1. z \in Seq(Packets) /\ Len(z) = n /\ \A j \in 1 .. n : z[j] = IF j = i THEN f ELSE s[j]
    BY <1>1, <1>2, <1>6 DEF n
  <2>2. \A u \in M : w <= q[u] /\ q[u] <= w + n BY <1>1, <1>2
  <2>3. Fits(f, i)
    <3>. HIDE DEF f
    <3>. QED BY <1>2, <1>3, <1>4, <1>6, <1>7, <1>8
  <2>. HIDE DEF z, f
  <2>4. \A j \in 1 .. n : Fits(z[j], j)
    <3>. HIDE DEF Fits
    <3>. QED BY <2>1, <2>3, <1>5
  <2>5. InLine(l, q, w, z, M) BY <2>1, <2>2, <2>4 DEF InLine
  <2>. QED BY <2>1, <2>5 DEF z
<1>9. ASSUME f.unread = {}
      PROVE  /\ RemoveAt(s, i) \in Seq(Packets) /\ Len(RemoveAt(s, i)) = Len(s) - 1
             /\ InLine(l, q, w + 1, RemoveAt(s, i), M)
  <2>. HIDE DEF f
  <2>1. \A u \in M : w + i <= q[u]
    <3>1. \A u \in M \ {f.root} : w + i <= q[u] BY <1>7, <1>9, <1>1, <1>2
    <3>2. w + i <= q[f.root] BY <1>2, <1>4, <1>6
    <3>. QED BY <3>1, <3>2
  <2>2. i = 1
    <3>1. ASSUME 1 < i PROVE FALSE
      <4>1. 1 \in 1 .. n BY <1>1, <1>2
      <4>2. Fits(s[1], 1) BY <4>1, <1>5, <3>1
      <4>3. PICK u \in M : q[u] < w + 1 BY <4>2
      <4>. QED BY <4>3, <2>1, <3>1, <1>1, <1>2
    <3>. QED BY <3>1, <1>2
  <2>. DEFINE z == RemoveAt(s, i)
  <2>3. z \in Seq(Packets) /\ Len(z) = n - 1 /\ \A j \in 1 .. n - 1 : z[j] = s[j + 1]
    BY <2>2, <1>2, Removing DEF n
  <2>. HIDE DEF z
  <2>4. \A u \in M : w + 1 <= q[u] /\ q[u] <= (w + 1) + (n - 1) BY <2>1, <2>2, <1>1, <1>2
  <2>5. ASSUME NEW j \in 1 .. n - 1
        PROVE  j + 1 \in 1 .. n /\ j + 1 # i /\ (w + 1) + j = w + (j + 1)
    BY <2>2, <1>1
  <2>6. \A j \in 1 .. n - 1 : Fits(z[j], j + 1)
    <3>. HIDE DEF Fits
    <3>. QED BY <2>3, <2>5, <1>5
  <2>7. InLine(l, q, w + 1, z, M) BY <2>3, <2>4, <2>5, <2>6 DEF InLine
  <2>. QED BY <2>3, <2>7 DEF z, n
<1>10. CASE f.unread = {}
  <2>1. Over(s, i, t) /\ Passed(s, i, t) = RemoveAt(s, i) /\ Lowest(w, s, i, t) = w + 1
    BY <1>10 DEF Over, Passed, Lowest
  <2>. QED BY <2>1, <1>1, <1>2, <1>9, <1>10 DEF n, i
<1>11. CASE f.unread # {}
  <2>1. ~Over(s, i, t) /\ Passed(s, i, t) = [s EXCEPT ![i] = f] /\ Lowest(w, s, i, t) = w
    BY <1>11 DEF Over, Passed, Lowest
  <2>2. Len([s EXCEPT ![i] = f]) = Len(s) BY <1>2 DEF n
  <2>. HIDE DEF f
  <2>. QED BY <2>1, <2>2, <1>1, <1>2, <1>8, <1>11 DEF n, i
<1>. QED BY <1>10, <1>11


\* The next broadcast that waits for a task of the communicator.
LEMMA NextInLine ==
  ASSUME NEW h, Measured(h), Shape, Logged(h), NEW comm \in Comms, NEW t \in Members(comm)
  PROVE  /\ h.pos[comm][t] <= Top(h, comm)
         /\ Pending(comm, t) = {} <=> h.pos[comm][t] = Top(h, comm)
         /\ Pending(comm, t) # {} =>
              /\ h.pos[comm][t] < Top(h, comm)
              /\ Min(Pending(comm, t)) = h.pos[comm][t] + 1 - h.low[comm]
              /\ NextBcast(comm, t) \in Packets
              /\ NextBcast(comm, t).root # t
              /\ NextBcast(comm, t).root = h.log[comm][h.pos[comm][t] + 1].root
              /\ NextBcast(comm, t).item = h.log[comm][h.pos[comm][t] + 1].item
              /\ NextBcast(comm, t).val = h.log[comm][h.pos[comm][t] + 1].val
<1>. DEFINE s == bcasts[comm]
            w == h.low[comm]
            p == h.pos[comm]
            P == Pending(comm, t)
<1>1. s \in Seq(Packets) /\ w \in Nat /\ p \in [Tasks -> Nat] /\ DOMAIN s = 1 .. Len(s) /\ Len(s) \in Nat
  BY DEF Shape, Measured
<1>2. InLine(h.log[comm], p, w, s, Members(comm)) BY DEF Logged
<1>3. Members(comm) \in SUBSET Tasks BY MembersAreTasks
<1>4. P = {i \in 1 .. Len(s) : t \in s[i].unread} BY <1>1 DEF Pending
<1>. HIDE DEF s, w, p
<1>5. /\ p[t] \in Nat /\ w <= p[t] /\ p[t] <= w + Len(s)
      /\ \A i \in 1 .. Len(s) : t \in s[i].unread <=> p[t] < w + i
  BY <1>1, <1>2, <1>3, UnreadAfter
<1>. HIDE DEF P
<1>6. P = {i \in 1 .. Len(s) : p[t] < w + i} BY <1>4, <1>5
<1>. DEFINE i == p[t] + 1 - w
<1>7. ASSUME p[t] < w + Len(s)
      PROVE  i \in P /\ Min(P) = i
  <2>1. i \in 1 .. Len(s) /\ p[t] < w + i BY <1>7, <1>1, <1>5
  <2>2. \A j \in P : i <= j BY <1>1, <1>5, <1>6
  <2>3. P \in SUBSET Nat BY <1>6
  <2>. HIDE DEF i
  <2>4. i \in P BY <2>1, <1>6
  <2>. QED BY <2>2, <2>3, <2>4, MinIs
<1>8. P = {} <=> p[t] = w + Len(s)
  <2>1. p[t] = w + Len(s) => P = {} BY <1>1, <1>5, <1>6
  <2>2. ASSUME p[t] # w + Len(s) PROVE P # {}
    <3>1. p[t] < w + Len(s) BY <2>2, <1>1, <1>5
    <3>. QED BY <3>1, <1>7
  <2>. QED BY <2>1, <2>2
<1>9. ASSUME P # {}
      PROVE  /\ p[t] < w + Len(s) /\ Min(P) = i /\ s[i] \in Packets /\ s[i].root # t
             /\ s[i].root = h.log[comm][p[t] + 1].root
             /\ s[i].item = h.log[comm][p[t] + 1].item
             /\ s[i].val = h.log[comm][p[t] + 1].val
  <2>1. p[t] < w + Len(s)
    <3>1. p[t] # w + Len(s) BY <1>8, <1>9
    <3>. QED BY <3>1, <1>1, <1>5
  <2>2. i \in P /\ Min(P) = i BY <2>1, <1>7
  <2>3. i \in 1 .. Len(s) /\ t \in s[i].unread BY <2>2, <1>4
  <2>4. w + i = p[t] + 1 BY <1>1, <1>5
  <2>. HIDE DEF i
  <2>5. /\ s[i].unread = {u \in Members(comm) \ {s[i].root} : p[u] < w + i}
        /\ s[i].root = h.log[comm][w + i].root
        /\ s[i].item = h.log[comm][w + i].item
        /\ s[i].val = h.log[comm][w + i].val
    BY <2>3, <1>2 DEF InLine
  <2>6. s[i].root # t BY <2>3, <2>5
  <2>. QED BY <2>1, <2>2, <2>3, <2>4, <2>5, <2>6, <1>1
<1>. QED BY <1>5, <1>8, <1>9 DEF NextBcast, Top, s, w, p, P


\* What a task's part in a broadcast b with value v makes of the history h.
Met(h, g, t, b, v) ==
  /\ g.pos = [comm \in Comms |-> [u \in Tasks |-> IF comm = b.on /\ u = t THEN h.pos[comm][u] + 1
                                                  ELSE h.pos[comm][u]]]
  /\ LET e == g.log[b.on][h.pos[b.on][t] + 1] IN e.root = b.root /\ e.item = b.item /\ e.val = v
  /\ \A comm \in Comms : \A k \in 1 .. Top(h, comm) : g.log[comm][k] = h.log[comm][k]
  /\ \A comm \in Comms : comm # b.on => Top(g, comm)' = Top(h, comm)
  /\ b.root = t => h.pos[b.on][t] = Top(h, b.on) /\ Top(g, b.on)' = Top(h, b.on) + 1
  /\ b.root # t => h.pos[b.on][t] < Top(h, b.on) /\ Top(g, b.on)' = Top(h, b.on)

\* The history goes on with this log and these places.
Written(h, t, b, v, log, pos, low) ==
  /\ low \in [Comms -> Nat] /\ pos \in [Comms -> [Tasks -> Nat]]
  /\ \A g : g.log = log /\ g.pos = pos /\ g.low = low => Logged(g)' /\ Met(h, g, t, b, v)

LEMMA MeetLogged ==
  ASSUME NEW h, Measured(h), Shape, Logged(h), NEW b \in Meetings, NEW t \in Members(b.on), NEW v \in Vals,
         Meet(t, b, v)
  PROVE  bcasts' \in [Comms -> Seq(Packets)] /\ \E log, pos, low : Written(h, t, b, v, log, pos, low)
<1>. DEFINE on == b.on
            s == bcasts[on]
            w == h.low[on]
            p == h.pos[on]
            l == h.log[on]
            M == Members(on)
            top == w + Len(s)
            After(log, pos, low) == Written(h, t, b, v, log, pos, low)
            Reaches(log, pos) ==
              /\ bcasts' \in [Comms -> Seq(Packets)]
              /\ \E low : After(log, pos, low)
<1>1. on \in Comms /\ b.root \in Tasks /\ b.item \in Items BY DEF Meetings
<1>2. M \in SUBSET Tasks /\ t \in Tasks /\ t \in M BY <1>1, MembersAreTasks
<1>3. /\ s \in Seq(Packets) /\ w \in Nat /\ p \in [Tasks -> Nat] /\ Len(s) \in Nat
      /\ bcasts \in [Comms -> Seq(Packets)] /\ h.low \in [Comms -> Nat] /\ h.pos \in [Comms -> [Tasks -> Nat]]
      /\ InLine(l, p, w, s, M)
  BY <1>1 DEF Shape, Measured, Logged
<1>4. p[t] \in Nat /\ p[t] <= top BY <1>2, <1>3, UnreadAfter
<1>5. PICK pos : pos = [comm \in Comms |-> [u \in Tasks |-> IF comm = on /\ u = t THEN h.pos[comm][u] + 1
                                                  ELSE h.pos[comm][u]]]
  OBVIOUS
<1>6. /\ pos \in [Comms -> [Tasks -> Nat]] /\ pos[on] \in [Tasks -> Nat]
      /\ Moved(p, pos[on], t)
      /\ \A comm \in Comms : comm # on => pos[comm] = h.pos[comm]
  <2>1. \A comm \in Comms : h.pos[comm] \in [Tasks -> Nat] BY <1>3
  <2>2. ASSUME NEW comm \in Comms, comm # on PROVE pos[comm] = h.pos[comm]
    <3>1. pos[comm] = [u \in Tasks |-> h.pos[comm][u]] BY <1>5, <2>2
    <3>. QED BY <3>1, <2>1
  <2>3. pos[on] = [u \in Tasks |-> IF u = t THEN p[u] + 1 ELSE p[u]] BY <1>1, <1>5
  <2>4. pos[on] \in [Tasks -> Nat] BY <2>3, <1>3
  <2>5. pos \in [Comms -> [Tasks -> Nat]] BY <2>1, <2>2, <2>4, <1>5
  <2>6. Moved(p, pos[on], t) BY <2>3 DEF Moved
  <2>. QED BY <2>2, <2>4, <2>5, <2>6
\* It is enough to look at the communicator of the broadcast.
<1>9. ASSUME NEW z \in Seq(Packets), NEW x \in Nat, NEW log,
             \A comm \in Comms : comm # on => \A k \in Nat : log[comm][k] = h.log[comm][k],
             log[on][p[t] + 1].root = b.root, log[on][p[t] + 1].item = b.item, log[on][p[t] + 1].val = v,
             \/ z = s /\ bcasts' = bcasts
             \/ bcasts' = [bcasts EXCEPT ![on] = z],
             \A k \in 1 .. top : log[on][k] = l[k],
             InLine(log[on], pos[on], x, z, M),
             b.root = t => p[t] = top /\ x + Len(z) = top + 1,
             b.root # t => p[t] < top /\ x + Len(z) = top
      PROVE  Reaches(log, pos)
  <2>1. PICK low : low = [comm \in Comms |-> IF comm = on THEN x ELSE h.low[comm]] OBVIOUS
  <2>2. low \in [Comms -> Nat] /\ low[on] = x /\ \A comm \in Comms : comm # on => low[comm] = h.low[comm]
    BY <2>1, <1>1, <1>3
  <2>3. /\ bcasts' \in [Comms -> Seq(Packets)] /\ bcasts'[on] = z
        /\ \A comm \in Comms : comm # on => bcasts'[comm] = bcasts[comm]
    BY <1>9, <1>1, <1>3
  <2>. HIDE DEF After
  <2>4. ASSUME NEW g, g.log = log, g.pos = pos, g.low = low PROVE Logged(g)' /\ Met(h, g, t, b, v)
    <3>1. ASSUME NEW comm \in Comms, comm # on
          PROVE  InLine(log[comm], pos[comm], low[comm], bcasts'[comm], Members(comm))
      <4>1. InLine(h.log[comm], h.pos[comm], h.low[comm], bcasts[comm], Members(comm)) BY DEF Logged
      <4>2. \A i \in 1 .. Len(bcasts[comm]) : log[comm][h.low[comm] + i] = h.log[comm][h.low[comm] + i]
        BY <1>9, <1>3, <3>1
      <4>3. bcasts'[comm] = bcasts[comm] /\ low[comm] = h.low[comm] /\ pos[comm] = h.pos[comm]
        BY <2>2, <2>3, <1>6, <3>1
      <4>. QED BY <4>1, <4>2, <4>3 DEF InLine
    <3>2. \A comm \in Comms : InLine(log[comm], pos[comm], low[comm], bcasts'[comm], Members(comm))
      BY <3>1, <1>9, <2>2, <2>3
    <3>3. Logged(g)' BY <3>2, <2>4 DEF Logged
    <3>4. \A comm \in Comms : Top(g, comm)' = IF comm = on THEN x + Len(z) ELSE Top(h, comm)
      BY <2>2, <2>3, <2>4 DEF Top
    <3>5. Top(h, on) = top BY DEF Top
    <3>6. \A comm \in Comms : \A k \in 1 .. Top(h, comm) : log[comm][k] = h.log[comm][k]
      <4>1. \A comm \in Comms : comm # on => \A k \in 1 .. Top(h, comm) : log[comm][k] = h.log[comm][k]
        BY <1>9
      <4>. QED BY <4>1, <3>5, <1>9
    <3>7. Met(h, g, t, b, v)
      <4>. HIDE DEF top
      <4>1. g.pos = pos /\ g.log = log BY <2>4
      <4>. QED BY <4>1, <1>1, <1>5, <1>9, <3>4, <3>5, <3>6 DEF Met
    <3>. QED BY <3>3, <3>7
  <2>5. After(log, pos, low) BY <2>2, <2>4, <1>6 DEF After, Written
  <2>. QED BY <2>3, <2>5
<1>. HIDE DEF on, s, w, p, l, M, After
<1>0. SUFFICES \E log : Reaches(log, pos)
  <2>1. ASSUME NEW log, Reaches(log, pos)
        PROVE  bcasts' \in [Comms -> Seq(Packets)] /\ \E x, y, low : After(x, y, low)
    BY <2>1
  <2>. QED BY <2>1, Zenon DEF After
<1>. HIDE DEF Reaches
<1>10. CASE b.root = t
  <2>1. Send(t, b, v) BY <1>10 DEF Meet
  <2>2. p[t] = top
    <3>1. Pending(on, t) = {} BY <2>1 DEF Send, on
    <3>2. h.pos[on][t] = Top(h, on) BY <3>1, <1>1, <1>2, NextInLine DEF M
    <3>. QED BY <3>2 DEF p, w, s, Top
  <2>. DEFINE entry == LogItem(t, b.item, v)
  <2>3. PICK log : log = [comm \in Comms |-> [k \in Nat |-> IF comm = on /\ k = p[t] + 1 THEN entry
                                                            ELSE h.log[comm][k]]]
    OBVIOUS
  <2>6. /\ log[on][p[t] + 1] = entry
        /\ \A k \in 1 .. top : log[on][k] = l[k]
        /\ \A comm \in Comms : comm # on => \A k \in Nat : log[comm][k] = h.log[comm][k]
    BY <1>1, <1>3, <1>4, <2>2, <2>3 DEF on, l
  <2>7. log[on][p[t] + 1].root = b.root /\ log[on][p[t] + 1].item = b.item /\ log[on][p[t] + 1].val = v
    BY <2>6, <1>10 DEF LogItem
  <2>4. CASE M = {t}
    <3>1. Len(s) = 0 /\ InLine(log[on], pos[on], w + 1, s, M)
      <4>1. p[t] = w + Len(s) BY <2>2
      <4>. HIDE DEF top, entry
      <4>. QED BY <4>1, <2>4, <1>2, <1>3, <1>6, SendAlone
    <3>2. bcasts' = bcasts
      <4>1. M \ {t} = {} BY <2>4
      <4>. QED BY <4>1, <2>1 DEF Send, M, on
    <3>3. w + 1 \in Nat /\ w + 1 + Len(s) = top + 1 BY <3>1, <1>3
    <3>. HIDE DEF top
    <3>4. Reaches(log, pos)
      BY <3>1, <3>2, <3>3, <2>2, <2>6, <2>7, <1>3, <1>9, <1>10
    <3>. QED BY <3>4
  <2>5. CASE M # {t}
    <3>. DEFINE z == Append(s, Packet(t, b.item, v, M \ {t}))
    <3>1. p[t] + 1 = w + Len(s) + 1 BY <2>2
    <3>2. \A k \in 1 .. w + Len(s) : log[on][k] = l[k] BY <2>6
    <3>3. log[on][w + Len(s) + 1] = LogItem(t, b.item, v)
      BY <3>1, <2>6
    <3>4. z \in Seq(Packets) /\ InLine(log[on], pos[on], w, z, M)
      <4>1. p[t] = w + Len(s) BY <2>2
      <4>. HIDE DEF top, entry
      <4>. QED BY <4>1, <3>2, <3>3, <2>5, <1>1, <1>2, <1>3, <1>6, SendInLine
    <3>5. bcasts' = [bcasts EXCEPT ![on] = z]
      <4>1. M \ {t} # {} BY <2>5, <1>2
      <4>. QED BY <4>1, <2>1 DEF Send, M, on, s, Packet
    <3>6. w + Len(z) = top + 1 BY <1>3
    <3>. HIDE DEF z, top
    <3>7. Reaches(log, pos)
      BY <3>4, <3>5, <3>6, <2>2, <2>6, <2>7, <1>3, <1>9, <1>10
    <3>. QED BY <3>7
  <2>. QED BY <2>4, <2>5
<1>11. CASE b.root # t
  <2>1. Receive(t, b, v) BY <1>11 DEF Meet
  <2>. DEFINE i == p[t] + 1 - w
              z == Passed(s, i, t)
              x == Lowest(w, s, i, t)
  <2>2. /\ p[t] < top /\ Min(Pending(on, t)) = i
        /\ s[i].root = l[p[t] + 1].root /\ s[i].item = l[p[t] + 1].item /\ s[i].val = l[p[t] + 1].val
    <3>1. Pending(on, t) # {} BY <2>1 DEF Receive, on
    <3>2. /\ h.pos[on][t] < Top(h, on)
          /\ Min(Pending(on, t)) = h.pos[on][t] + 1 - h.low[on]
          /\ NextBcast(on, t).root = h.log[on][h.pos[on][t] + 1].root
          /\ NextBcast(on, t).item = h.log[on][h.pos[on][t] + 1].item
          /\ NextBcast(on, t).val = h.log[on][h.pos[on][t] + 1].val
      BY <3>1, <1>1, <1>2, NextInLine DEF M
    <3>. QED BY <3>2 DEF p, w, s, l, Top, NextBcast
  <2>3. /\ s[i].root = b.root /\ s[i].item = b.item /\ s[i].val = v
        /\ bcasts' = [bcasts EXCEPT ![on] = z]
    BY <2>1, <2>2 DEF Receive, NextBcast, on, s, Passed, Over, ReadBy
  <2>5. i \in 1 .. Len(s) /\ z \in Seq(Packets) /\ x \in Nat /\ x + Len(z) = top /\ InLine(l, pos[on], x, z, M)
    <3>1. p[t] < w + Len(s) BY <2>2
    <3>2. /\ i \in 1 .. Len(s) /\ Passed(s, i, t) \in Seq(Packets)
          /\ Lowest(w, s, i, t) \in Nat /\ Lowest(w, s, i, t) + Len(Passed(s, i, t)) = w + Len(s)
          /\ InLine(l, pos[on], Lowest(w, s, i, t), Passed(s, i, t), M)
      <4>. HIDE DEF top
      <4>. QED BY <3>1, <1>2, <1>3, <1>6, ReceiveInLine
    <3>. QED BY <3>2
  <2>6. p[t] + 1 = w + i /\ p[t] + 1 \in Nat BY <1>3, <1>4
  <2>7. PICK log : log = h.log OBVIOUS
  <2>8. /\ \A comm \in Comms : comm # on => \A k \in Nat : log[comm][k] = h.log[comm][k]
        /\ \A k \in 1 .. top : log[on][k] = l[k]
        /\ log[on] = l
    BY <2>7 DEF l
  <2>9. log[on][p[t] + 1].root = b.root /\ log[on][p[t] + 1].item = b.item /\ log[on][p[t] + 1].val = v
    BY <2>2, <2>3, <2>8
  <2>. HIDE DEF z, x, i, top
  <2>10. Reaches(log, pos)
    BY <2>2, <2>3, <2>5, <2>8, <2>9, <1>9, <1>11
  <2>. QED BY <2>10
<1>. QED BY <1>10, <1>11


-----------------------------------------------------------------------------
(* The broadcasts of a call.                                               *)

IsJoin(w, x, y) ==
  /\ Len(w) = Len(x) + Len(y)
  /\ \A k \in 1 .. Len(x) : w[k] = x[k]
  /\ \A k \in 1 .. Len(y) : w[Len(x) + k] = y[k]
  /\ \A k \in 1 .. Len(w) : \/ k \in 1 .. Len(x) /\ k <= Len(x) /\ w[k] = x[k]
                            \/ ~(k <= Len(x)) /\ \E j \in 1 .. Len(y) : k = Len(x) + j /\ w[k] = y[j]

LEMMA Joined ==
  ASSUME NEW T, NEW x \in Seq(T), NEW y \in Seq(T)
  PROVE  x \o y \in Seq(T) /\ IsJoin(x \o y, x, y)
<1>. DEFINE w == x \o y
<1>1. Len(x) \in Nat /\ Len(y) \in Nat /\ w \in Seq(T) /\ Len(w) = Len(x) + Len(y) OBVIOUS
<1>2. \A k \in 1 .. Len(x) : w[k] = x[k] OBVIOUS
<1>3. \A k \in 1 .. Len(y) : w[Len(x) + k] = y[k] OBVIOUS
<1>. HIDE DEF w
<1>4. ASSUME NEW k \in 1 .. Len(w), ~(k <= Len(x))
      PROVE  \E j \in 1 .. Len(y) : k = Len(x) + j /\ w[k] = y[j]
  <2>1. k - Len(x) \in 1 .. Len(y) /\ k = Len(x) + (k - Len(x)) BY <1>1, <1>4
  <2>. QED BY <2>1, <1>3
<1>5. \A k \in 1 .. Len(w) : k <= Len(x) => k \in 1 .. Len(x) BY <1>1
<1>. QED BY <1>1, <1>2, <1>3, <1>4, <1>5 DEF IsJoin, w

LEMMA BcastsAre ==
  ASSUME NEW comm \in Comms, NEW root \in Tasks, NEW I \in SUBSET Items, NEW items \in Seq(I)
  PROVE  LET b == Bcasts(comm, root, items)
         IN  /\ b \in Seq(Meetings) /\ Len(b) = Len(items)
             /\ \A k \in 1 .. Len(items) : b[k].on = comm /\ b[k].root = root /\ b[k].item \in I
             /\ \A k \in 1 .. Len(items) : b[k].item = items[k]
<1>. DEFINE n == Len(items)
            b == [k \in 1 .. n |-> Bcast(comm, root, items[k])]
<1>1. n \in Nat /\ DOMAIN items = 1 .. n /\ \A k \in 1 .. n : items[k] \in I OBVIOUS
<1>. HIDE DEF n
<1>2. \A k \in 1 .. n : Bcast(comm, root, items[k]) \in Meetings BY <1>1 DEF Bcast, Meetings
<1>3. Bcasts(comm, root, items) = b BY <1>1 DEF Bcasts
<1>4. b \in Seq(Meetings) /\ Len(b) = n BY <1>1, <1>2
<1>5. \A k \in 1 .. n : b[k].on = comm /\ b[k].root = root /\ b[k].item = items[k] BY DEF Bcast
<1>. HIDE DEF b
<1>. QED BY <1>1, <1>3, <1>4, <1>5 DEF n

LEMMA StepFits ==
  ASSUME ProgramsFit, NEW p, Programme(p), p # <<>>
  PROVE  /\ StepOf(p) \in AllSteps
         /\ SidesMatch(StepOf(p)) /\ FailureShared(StepOf(p)) /\ WellFormed(StepOf(p))
         /\ Head(p) \in Seq(AllSteps) /\ Head(p) # <<>> /\ Tail(p) \in Seq(Seq(AllSteps))
<1>1. Head(p) \in Seq(AllSteps) /\ Tail(p) \in Seq(Seq(AllSteps)) BY DEF Programme
<1>2. Head(p) # <<>> BY DEF Programme
<1>3. StepOf(p) \in AllSteps BY <1>1, <1>2 DEF StepOf
<1>. QED BY <1>1, <1>2, <1>3 DEF ProgramsFit

LEMMA CallFits ==
  ASSUME ProgramsFit, NEW p, Programme(p), p # <<>>
  PROVE  /\ CallAt(p).params \in Seq(DataItems) /\ CallAt(p).early \in Seq(DataItems)
         /\ CallAt(p).derived \in Seq(DataItems) /\ CallAt(p).results \in Seq(DataItems)
         /\ CallAt(p).agree \in {"bcast", "quiet", "dropped", "local", "none"}
         /\ Params(p) \in Nat
<1>1. WellFormed(StepOf(p)) BY StepFits
<1>. QED BY <1>1 DEF WellFormed, CallAt, Params

LEMMA AgreedIs ==
  ASSUME ProgramsFit, NEW p, Programme(p), p # <<>>, NEW c \in Components
  PROVE  LET a == Agreed(c, p)
         IN  /\ a \in Seq(Meetings) /\ Params(p) < Len(a)
             /\ \A k \in 1 .. Len(a) : a[k].on = IF k <= Params(p) THEN intercomm(c) ELSE my_comm(c)
             /\ Shared(p) => a[Len(a)] = Bcast(my_comm(c), ioroot, Ierr)
             /\ \A k \in 1 .. Len(a) : a[k].item \in DataItems \/ (Shared(p) /\ k = Len(a))
             /\ \A k \in 1 .. Params(p) + 1 : a[k].root = comproot(c)
             /\ Exchanges(c, <<>>, CallAt(p)) = SubSeq(a, Params(p) + 1, Len(a))
<1>. DEFINE call == CallAt(p)
            x == Bcasts(intercomm(c), comproot(c), call.params)
            items == call.early \o <<MpiErr>> \o call.derived
            y == Bcasts(my_comm(c), comproot(c), items)
            z == IF call.agree = "none" THEN Bcasts(my_comm(c), ioroot, call.results)
                 ELSE IF call.agree = "local" THEN <<>>
                 ELSE <<Bcast(my_comm(c), ioroot, Ierr)>>
            a == x \o y \o z
            n == Len(call.params)
<1>1. /\ call.params \in Seq(DataItems) /\ call.early \in Seq(DataItems) /\ call.derived \in Seq(DataItems)
      /\ call.results \in Seq(DataItems) /\ call.agree \in {"bcast", "quiet", "dropped", "local", "none"}
  BY CallFits
<1>2. DataItems \subseteq Items /\ Ierr \in Items /\ MpiErr \in DataItems BY DEF Items, DataItems, Control
<1>3. /\ intercomm(c) \in Comms /\ my_comm(c) \in Comms /\ comproot(c) \in Tasks /\ ioroot \in Tasks
  BY CommsApart, TasksApart
<1>. HIDE DEF call
<1>4. items \in Seq(DataItems) /\ Len(items) > 0
  <2>. DEFINE i == call.early \o <<MpiErr>>
  <2>1. i \in Seq(DataItems) /\ Len(i) > 0 BY <1>1, <1>2
  <2>2. items = i \o call.derived OBVIOUS
  <2>. HIDE DEF i, items
  <2>. QED BY <2>1, <2>2, <1>1
<1>. HIDE DEF items
<1>6. /\ x \in Seq(Meetings) /\ Len(x) = n
      /\ \A k \in 1 .. n : x[k].on = intercomm(c) /\ x[k].root = comproot(c) /\ x[k].item \in DataItems
  BY <1>1, <1>2, <1>3, BcastsAre
<1>7. /\ y \in Seq(Meetings) /\ Len(y) > 0
      /\ \A k \in 1 .. Len(y) : y[k].on = my_comm(c) /\ y[k].root = comproot(c) /\ y[k].item \in DataItems
  BY <1>2, <1>3, <1>4, BcastsAre
<1>8. Shared(p) <=> call.agree \notin {"none", "local"} BY <1>1 DEF Shared, Shares, call
<1>9. /\ z \in Seq(Meetings)
      /\ \A k \in 1 .. Len(z) : z[k].on = my_comm(c)
      /\ Shared(p) => Len(z) = 1 /\ z[1] = Bcast(my_comm(c), ioroot, Ierr)
      /\ ~Shared(p) => \A k \in 1 .. Len(z) : z[k].item \in DataItems
  <2>1. CASE call.agree = "none"
    <3>. DEFINE r == Bcasts(my_comm(c), ioroot, call.results)
    <3>1. /\ r \in Seq(Meetings) /\ Len(r) = Len(call.results)
          /\ \A k \in 1 .. Len(call.results) : r[k].on = my_comm(c) /\ r[k].item \in DataItems
      BY <1>1, <1>2, <1>3, BcastsAre
    <3>. HIDE DEF r
    <3>2. z = r BY <2>1 DEF r
    <3>. HIDE DEF z
    <3>. QED BY <3>1, <3>2, <2>1, <1>8
  <2>2. CASE call.agree = "local" BY <2>2, <1>8
  <2>3. CASE call.agree \notin {"none", "local"}
    <3>1. Bcast(my_comm(c), ioroot, Ierr) \in Meetings BY <1>2, <1>3 DEF Meetings, Bcast
    <3>2. z = <<Bcast(my_comm(c), ioroot, Ierr)>> BY <2>3
    <3>3. Bcast(my_comm(c), ioroot, Ierr).on = my_comm(c) BY DEF Bcast
    <3>. HIDE DEF z
    <3>. QED BY <3>1, <3>2, <3>3, <2>3, <1>8
  <2>. QED BY <2>1, <2>2, <2>3
<1>. HIDE DEF x, y, z
<1>. DEFINE xy == x \o y
<1>10. xy \in Seq(Meetings) /\ IsJoin(xy, x, y) BY <1>6, <1>7, Joined
<1>11. a \in Seq(Meetings) /\ IsJoin(a, xy, z) BY <1>9, <1>10, Joined
<1>. HIDE DEF a, xy, n
<1>12. n \in Nat /\ Len(x) = n /\ Len(y) \in Nat /\ Len(z) \in Nat BY <1>1, <1>6, <1>7, <1>9 DEF n
<1>13. Len(xy) = n + Len(y) /\ Len(a) = Len(xy) + Len(z) /\ Len(xy) \in Nat
  BY <1>10, <1>11, <1>12 DEF IsJoin
<1>21. ASSUME NEW k \in 1 .. Len(a)
       PROVE  \/ k \in 1 .. n /\ k <= n /\ a[k] = x[k]
              \/ ~ (k <= n) /\ \E j \in 1 .. Len(y) : a[k] = y[j]
              \/ ~ (k <= n) /\ \E j \in 1 .. Len(z) : a[k] = z[j] /\ k = Len(xy) + j
  <2>1. CASE k \in 1 .. Len(xy)
    <3>1. a[k] = xy[k] BY <2>1, <1>11 DEF IsJoin
    <3>2. \/ k \in 1 .. n /\ k <= n /\ xy[k] = x[k]
          \/ ~ (k <= n) /\ \E j \in 1 .. Len(y) : xy[k] = y[j]
      BY <2>1, <1>10, <1>12 DEF IsJoin
    <3>. QED BY <3>1, <3>2
  <2>2. CASE k \notin 1 .. Len(xy)
    <3>1. ~ (k <= n) BY <2>2, <1>12, <1>13
    <3>2. \E j \in 1 .. Len(z) : k = Len(xy) + j /\ a[k] = z[j] BY <2>2, <1>11 DEF IsJoin
    <3>. QED BY <3>1, <3>2
  <2>. QED BY <2>1, <2>2
<1>22. ASSUME Shared(p) PROVE Len(a) = Len(xy) + 1 /\ a[Len(xy) + 1] = z[1]
  <2>1. Len(z) = 1 BY <1>9, <1>22
  <2>2. 1 \in 1 .. Len(z) BY <2>1
  <2>3. a[Len(xy) + 1] = z[1] BY <2>2, <1>11 DEF IsJoin
  <2>. QED BY <2>1, <2>3, <1>13
<1>14. ASSUME NEW k \in 1 .. Len(a) PROVE a[k].on = IF k <= n THEN intercomm(c) ELSE my_comm(c)
  BY <1>6, <1>7, <1>9, <1>21, <1>12
<1>15. Shared(p) => a[Len(a)] = Bcast(my_comm(c), ioroot, Ierr) BY <1>9, <1>22
<1>16. ASSUME NEW k \in 1 .. Len(a) PROVE a[k].item \in DataItems \/ (Shared(p) /\ k = Len(a))
  <2>1. CASE Shared(p)
    <3>1. \A j \in 1 .. Len(z) : j = 1
      <4>1. Len(z) = 1 BY <2>1, <1>9
      <4>. QED BY <4>1
    <3>. QED BY <3>1, <2>1, <1>6, <1>7, <1>12, <1>21, <1>22
  <2>2. CASE ~Shared(p) BY <2>2, <1>6, <1>7, <1>9, <1>12, <1>21
  <2>. QED BY <2>1, <2>2
<1>17. Exchanges(c, <<>>, CallAt(p)) = SubSeq(a, n + 1, Len(a))
  <2>1. Exchanges(c, <<>>, CallAt(p)) = y \o z
    <3>1. Bcasts(intercomm(c), comproot(c), <<>>) = <<>> BY DEF Bcasts
    <3>2. Exchanges(c, <<>>, CallAt(p)) = <<>> \o y \o z BY <3>1 DEF Exchanges, y, z, items, call
    <3>3. <<>> \o y = y BY <1>7
    <3>. QED BY <3>2, <3>3
  <2>2. SubSeq(a, n + 1, Len(a)) = y \o z
    <3>. DEFINE u == SubSeq(a, n + 1, Len(a))
                v == y \o z
    <3>1. v \in Seq(Meetings) /\ IsJoin(v, y, z) BY <1>7, <1>9, Joined
    <3>2. u \in Seq(Meetings) /\ Len(u) = Len(y) + Len(z) BY <1>11, <1>12, <1>13
    <3>3. \A k \in 1 .. Len(u) : u[k] = a[n + k] BY <3>2, <1>11, <1>12, <1>13
    <3>. HIDE DEF u, v
    <3>4. ASSUME NEW k \in 1 .. Len(y) PROVE a[n + k] = y[k]
      <4>1. n + k \in 1 .. Len(xy) BY <1>12, <1>13
      <4>2. a[n + k] = xy[n + k] BY <4>1, <1>11 DEF IsJoin
      <4>. QED BY <4>2, <1>10, <1>12 DEF IsJoin
    <3>5. ASSUME NEW k \in 1 .. Len(z) PROVE a[n + (Len(y) + k)] = z[k]
      <4>1. n + (Len(y) + k) = Len(xy) + k BY <1>12, <1>13
      <4>. QED BY <4>1, <1>11 DEF IsJoin
    <3>6. \A k \in 1 .. Len(v) : a[n + k] = v[k] BY <3>1, <3>4, <3>5 DEF IsJoin
    <3>7. Len(v) = Len(u) BY <3>1, <3>2 DEF IsJoin
    <3>8. u = v BY <3>1, <3>2, <3>3, <3>6, <3>7
    <3>. QED BY <3>8 DEF u, v
  <2>. QED BY <2>1, <2>2
<1>18. Agreed(c, p) = a BY DEF Agreed, Exchanges, a, xy, x, y, z, items, call
<1>19. n = Params(p) BY DEF n, Params, call
<1>20. n < Len(a) BY <1>7, <1>12, <1>13
<1>23. \A k \in 1 .. n + 1 : a[k].root = comproot(c)
  <2>1. ASSUME NEW k \in 1 .. n PROVE a[k].root = comproot(c)
    <3>1. k \in 1 .. Len(a) /\ k <= n BY <1>12, <1>20, <1>13
    <3>. QED BY <3>1, <1>6, <1>21
  <2>2. n + 1 \in 1 .. Len(a) /\ ~(n + 1 <= n) BY <1>12, <1>20, <1>13
  <2>3. \A j \in 1 .. Len(z) : n + 1 # Len(xy) + j BY <1>7, <1>12, <1>13
  <2>4. \E j \in 1 .. Len(y) : a[n + 1] = y[j] BY <2>2, <2>3, <1>21
  <2>5. a[n + 1].root = comproot(c) BY <2>4, <1>7
  <2>6. \A k \in 1 .. n + 1 : k \in 1 .. n \/ k = n + 1 BY <1>12
  <2>. QED BY <2>1, <2>5, <2>6
<1>. QED BY <1>11, <1>14, <1>15, <1>16, <1>23, <1>17, <1>18, <1>19, <1>20


LEMMA RestIs ==
  ASSUME ProgramsFit, NEW p, Programme(p), p # <<>>, NEW c \in Components, NEW v, NEW e
  PROVE  LET r == Rest(c, p, v, e)
         IN  /\ r \in Seq(Meetings)
             /\ \A k \in 1 .. Len(r) : r[k].on = my_comm(c) /\ r[k].item \in DataItems
             /\ v = "unknown" => r = <<>>
<1>1. CallAt(p).results \in Seq(DataItems) BY CallFits
<1>2. DataItems \subseteq Items /\ Status \in DataItems BY DEF Items, DataItems, Control
<1>3. my_comm(c) \in Comms /\ ioroot \in Tasks BY CommsApart, TasksApart
<1>. DEFINE r == Bcasts(my_comm(c), ioroot, CallAt(p).results)
            x == Bcast(my_comm(c), ioroot, Status)
<1>4. /\ r \in Seq(Meetings)
      /\ \A k \in 1 .. Len(r) : r[k].on = my_comm(c) /\ r[k].item \in DataItems
  BY <1>1, <1>2, <1>3, BcastsAre
<1>5. x \in Meetings /\ x.on = my_comm(c) /\ x.item = Status BY <1>2, <1>3 DEF Meetings, Bcast
<1>. HIDE DEF x, r
<1>6. /\ <<x>> \in Seq(Meetings)
      /\ \A k \in 1 .. Len(<<x>>) : <<x>>[k].on = my_comm(c) /\ <<x>>[k].item \in DataItems
  BY <1>2, <1>5
<1>7. Rest(c, p, v, e) = IF v = "ok" THEN r
                         ELSE IF v = "failed" /\ CallAt(p).agree # "quiet" /\ e = "bcast" THEN <<x>>
                         ELSE <<>>
  BY DEF Rest, r, x
<1>. HIDE DEF x
<1>8. CASE v = "ok" BY <1>4, <1>7, <1>8
<1>9. CASE v = "failed" /\ CallAt(p).agree # "quiet" /\ e = "bcast"
  <2>1. Rest(c, p, v, e) = <<x>> BY <1>7, <1>9
  <2>. QED BY <2>1, <1>6, <1>9
<1>10. CASE v # "ok" /\ ~(v = "failed" /\ CallAt(p).agree # "quiet" /\ e = "bcast")
  <2>1. Rest(c, p, v, e) = <<>> BY <1>7, <1>10
  <2>. QED BY <2>1
<1>. QED BY <1>8, <1>9, <1>10

\* What the broadcasts s of a call on component c are, of which those up to
\* the code, if there is one, are the first a.
IsScript(c, p, a, s) ==
  /\ s \in Seq(Meetings) /\ Params(p) \in Nat /\ a \in Nat /\ Params(p) < a /\ a <= Len(s)
  /\ \A k \in 1 .. Len(s) : s[k].on = IF k <= Params(p) THEN intercomm(c) ELSE my_comm(c)
  /\ \A k \in 1 .. Params(p) : s[k].root = comproot(c)
  /\ Shared(p) => s[a] = Bcast(my_comm(c), ioroot, Ierr)
  /\ \A k \in 1 .. Len(s) : s[k].item \in DataItems \/ (Shared(p) /\ k = a)

LEMMA ScriptIs ==
  ASSUME ProgramsFit, NEW p, Programme(p), p # <<>>, NEW c \in Components, NEW v, NEW e
  PROVE  /\ IsScript(c, p, Len(Agreed(c, p)), Script(c, p, v, e))
         /\ IsJoin(Script(c, p, v, e), Agreed(c, p), Rest(c, p, v, e))
         /\ Script(c, p, "unknown", e) = Agreed(c, p)
         /\ IsScript(c, p, Len(Agreed(c, p)), Agreed(c, p))
<1>. DEFINE a == Agreed(c, p)
            r == Rest(c, p, v, e)
            s == Script(c, p, v, e)
<1>1. /\ a \in Seq(Meetings) /\ Params(p) < Len(a)
      /\ \A k \in 1 .. Len(a) : a[k].on = IF k <= Params(p) THEN intercomm(c) ELSE my_comm(c)
      /\ Shared(p) => a[Len(a)] = Bcast(my_comm(c), ioroot, Ierr)
      /\ \A k \in 1 .. Len(a) : a[k].item \in DataItems \/ (Shared(p) /\ k = Len(a))
      /\ \A k \in 1 .. Params(p) : a[k].root = comproot(c)
  <2>1. /\ a \in Seq(Meetings) /\ Params(p) < Len(a)
        /\ \A k \in 1 .. Len(a) : a[k].on = IF k <= Params(p) THEN intercomm(c) ELSE my_comm(c)
        /\ Shared(p) => a[Len(a)] = Bcast(my_comm(c), ioroot, Ierr)
        /\ \A k \in 1 .. Len(a) : a[k].item \in DataItems \/ (Shared(p) /\ k = Len(a))
        /\ \A k \in 1 .. Params(p) + 1 : a[k].root = comproot(c)
    BY AgreedIs
  <2>2. \A k \in 1 .. Params(p) : k \in 1 .. Params(p) + 1 BY CallFits
  <2>. QED BY <2>1, <2>2
<1>2. r \in Seq(Meetings) /\ \A k \in 1 .. Len(r) : r[k].on = my_comm(c) /\ r[k].item \in DataItems
  BY RestIs
<1>3. Params(p) \in Nat /\ Len(a) \in Nat BY <1>1, CallFits
<1>4. s \in Seq(Meetings) /\ IsJoin(s, a, r) BY <1>1, <1>2, Joined DEF Script
<1>5. Script(c, p, "unknown", e) = a
  <2>1. Rest(c, p, "unknown", e) = <<>> BY RestIs
  <2>2. a \o <<>> = a BY <1>1
  <2>. QED BY <2>1, <2>2 DEF Script
<1>. HIDE DEF a, r, s
<1>6. IsScript(c, p, Len(a), a) BY <1>1, <1>3 DEF IsScript
<1>7. IsScript(c, p, Len(a), s)
  <2>1. Len(s) = Len(a) + Len(r) /\ Len(r) \in Nat /\ Len(s) \in Nat /\ Len(a) <= Len(s)
    <3>1. Len(r) \in Nat BY <1>2
    <3>. QED BY <3>1, <1>3, <1>4 DEF IsJoin
  <2>2. \A k \in 1 .. Len(s) :
          \/ k \in 1 .. Len(a) /\ k <= Len(a) /\ s[k] = a[k]
          \/ ~(k <= Len(a)) /\ \E j \in 1 .. Len(r) : s[k] = r[j]
    BY <1>4 DEF IsJoin
  <2>3. ASSUME NEW k \in 1 .. Len(s) PROVE s[k].on = IF k <= Params(p) THEN intercomm(c) ELSE my_comm(c)
    BY <2>2, <1>1, <1>2, <1>3
  <2>4. ASSUME NEW k \in 1 .. Params(p) PROVE s[k].root = comproot(c)
    <3>1. k \in 1 .. Len(a) BY <1>1, <1>3
    <3>. QED BY <3>1, <1>1, <1>4 DEF IsJoin
  <2>5. Shared(p) => s[Len(a)] = Bcast(my_comm(c), ioroot, Ierr)
    <3>1. Len(a) \in 1 .. Len(a) BY <1>1, <1>3
    <3>. QED BY <3>1, <1>1, <1>4 DEF IsJoin
  <2>6. ASSUME NEW k \in 1 .. Len(s) PROVE s[k].item \in DataItems \/ (Shared(p) /\ k = Len(a))
    BY <2>2, <1>1, <1>2
  <2>. QED BY <2>1, <2>3, <2>4, <2>5, <2>6, <1>1, <1>3, <1>4 DEF IsScript
<1>. QED BY <1>4, <1>5, <1>6, <1>7 DEF a, r, s

-----------------------------------------------------------------------------
(* The calls of a history and where their broadcasts are.                  *)

\* Call n of component c can be made.
IsCall(h, c, n) == n \in 0 .. h.last[c] /\ h.prog[c][n] # <<>>

LEMMA CallIs ==
  ASSUME ProgramsFit, NEW h, Measured(h), Calls(h), NEW c \in Components, NEW n, IsCall(h, c, n)
  PROVE  LET p == h.prog[c][n]
         IN  /\ n \in Nat /\ Programme(p) /\ p # <<>>
             /\ IsScript(c, p, Len(Agreed(c, p)), FullScript(h, c, n))
             /\ IsScript(c, p, Len(Agreed(c, p)), Agreed(c, p))
             /\ IsJoin(FullScript(h, c, n), Agreed(c, p), Rest(c, p, h.cd[c][n], h.hand[c][n]))
             /\ h.cd[c][n] = "unknown" => FullScript(h, c, n) = Agreed(c, p)
             /\ ~Shared(p) => h.cd[c][n] = "unknown"
             /\ h.cd[c][n] \in Codes \cup {"unknown"} /\ h.hand[c][n] \in {"bcast", "return"}
             /\ h.sp[c][n] \in Nat /\ h.st[c][n] \in Nat /\ Params(p) \in Nat
             /\ Len(FullScript(h, c, n)) \in Nat /\ Len(Agreed(c, p)) \in Nat
             /\ Params(p) < Len(Agreed(c, p)) /\ Len(Agreed(c, p)) <= Len(FullScript(h, c, n))
<1>. DEFINE p == h.prog[c][n]
<1>1. n \in 0 .. h.last[c] /\ p # <<>> /\ h.last[c] \in Nat BY DEF IsCall, Measured
<1>2. Programme(p) /\ h.hand[c][n] \in {"bcast", "return"} /\ h.cd[c][n] \in Codes \cup {"unknown"}
      /\ (h.cd[c][n] # "unknown" => Shared(p))
  BY <1>1 DEF Calls
<1>3. n \in Nat /\ h.sp[c][n] \in Nat /\ h.st[c][n] \in Nat
  <2>1. h.sp[c] \in [Nat -> Nat] /\ h.st[c] \in [Nat -> Nat] BY DEF Measured
  <2>2. n \in Nat BY <1>1
  <2>. QED BY <2>1, <2>2
<1>. HIDE DEF p
<1>4. FullScript(h, c, n) = Script(c, p, h.cd[c][n], h.hand[c][n]) BY DEF FullScript, p
<1>5. /\ IsScript(c, p, Len(Agreed(c, p)), FullScript(h, c, n))
      /\ IsScript(c, p, Len(Agreed(c, p)), Agreed(c, p))
      /\ IsJoin(FullScript(h, c, n), Agreed(c, p), Rest(c, p, h.cd[c][n], h.hand[c][n]))
  BY <1>1, <1>2, <1>4, ScriptIs
<1>6. h.cd[c][n] = "unknown" => FullScript(h, c, n) = Agreed(c, p)
  BY <1>1, <1>2, <1>4, ScriptIs
<1>7. /\ Len(FullScript(h, c, n)) \in Nat /\ Params(p) \in Nat /\ Len(Agreed(c, p)) \in Nat
      /\ Params(p) < Len(Agreed(c, p)) /\ Len(Agreed(c, p)) <= Len(FullScript(h, c, n))
  BY <1>5 DEF IsScript
<1>. QED BY <1>1, <1>2, <1>3, <1>5, <1>6, <1>7 DEF p

\* The ends of the calls, and the places between them.
LEMMA EndsAre ==
  ASSUME ProgramsFit, NEW h, Measured(h), Calls(h), NEW c \in Components, NEW n, IsCall(h, c, n)
  PROVE  /\ EndOfParams(h, c, n) \in Nat /\ EndOfCall(h, c, n) \in Nat
         /\ h.sp[c][n] <= EndOfParams(h, c, n) /\ h.st[c][n] < EndOfCall(h, c, n)
         /\ \A k \in 1 .. Len(FullScript(h, c, n)) :
               LET b == FullScript(h, c, n)[k]
               IN  /\ Place(h, c, n, k) \in Nat
                   /\ b.on = intercomm(c) => /\ h.sp[c][n] < Place(h, c, n, k)
                                             /\ Place(h, c, n, k) <= EndOfParams(h, c, n)
                                             /\ k = Place(h, c, n, k) - h.sp[c][n]
                   /\ b.on = my_comm(c) => /\ h.st[c][n] < Place(h, c, n, k)
                                           /\ Place(h, c, n, k) <= EndOfCall(h, c, n)
                                           /\ k = Place(h, c, n, k) - h.st[c][n] + Params(h.prog[c][n])
                   /\ b.on \in {intercomm(c), my_comm(c)}
<1>. DEFINE p == h.prog[c][n]
            f == FullScript(h, c, n)
            P == Params(p)
<1>1. /\ h.sp[c][n] \in Nat /\ h.st[c][n] \in Nat /\ P \in Nat /\ Len(f) \in Nat /\ P < Len(f)
      /\ \A k \in 1 .. Len(f) : f[k].on = IF k <= P THEN intercomm(c) ELSE my_comm(c)
  <2>1. IsScript(c, p, Len(Agreed(c, p)), f) BY CallIs
  <2>2. /\ h.sp[c][n] \in Nat /\ h.st[c][n] \in Nat /\ P \in Nat /\ Len(f) \in Nat /\ Len(Agreed(c, p)) \in Nat
        /\ P < Len(Agreed(c, p)) /\ Len(Agreed(c, p)) <= Len(f)
    BY CallIs
  <2>3. P < Len(f) BY <2>2
  <2>. QED BY <2>1, <2>2, <2>3 DEF IsScript
<1>2. intercomm(c) # my_comm(c) BY CommsApart
<1>. HIDE DEF f, P, p
<1>3. /\ EndOfParams(h, c, n) = h.sp[c][n] + P /\ EndOfCall(h, c, n) = h.st[c][n] + (Len(f) - P)
      /\ \A k : Place(h, c, n, k) = IF k <= P THEN h.sp[c][n] + k ELSE h.st[c][n] + (k - P)
  BY DEF EndOfParams, EndOfCall, Place, f, P, p
<1>4. ASSUME NEW k \in 1 .. Len(f)
      PROVE  /\ Place(h, c, n, k) \in Nat
             /\ f[k].on = intercomm(c) => /\ h.sp[c][n] < Place(h, c, n, k)
                                          /\ Place(h, c, n, k) <= EndOfParams(h, c, n)
                                          /\ k = Place(h, c, n, k) - h.sp[c][n]
             /\ f[k].on = my_comm(c) => /\ h.st[c][n] < Place(h, c, n, k)
                                        /\ Place(h, c, n, k) <= EndOfCall(h, c, n)
                                        /\ k = Place(h, c, n, k) - h.st[c][n] + P
             /\ f[k].on \in {intercomm(c), my_comm(c)}
  <2>1. k \in Nat /\ 1 <= k /\ k <= Len(f) BY <1>1
  <2>2. CASE k <= P BY <2>1, <2>2, <1>1, <1>2, <1>3
  <2>3. CASE ~(k <= P) BY <2>1, <2>3, <1>1, <1>2, <1>3
  <2>. QED BY <2>2, <2>3
<1>. QED BY <1>1, <1>3, <1>4 DEF f, P, p

\* Different broadcasts of a component have different places.
LEMMA PlacesApart ==
  ASSUME ProgramsFit, NEW h, Measured(h), Calls(h), NEW c \in Components,
         NEW m, IsCall(h, c, m), NEW n, IsCall(h, c, n),
         NEW j \in 1 .. Len(FullScript(h, c, m)), NEW k \in 1 .. Len(FullScript(h, c, n)),
         FullScript(h, c, m)[j].on = FullScript(h, c, n)[k].on,
         Place(h, c, m, j) = Place(h, c, n, k)
  PROVE  m = n /\ j = k
<1>1. m \in 0 .. h.last[c] /\ n \in 0 .. h.last[c] /\ h.last[c] \in Nat BY DEF IsCall, Measured
<1>. DEFINE on == FullScript(h, c, n)[k].on
<1>2. ASSUME m < n PROVE FALSE
  <2>1. EndOfParams(h, c, m) <= h.sp[c][n] /\ EndOfCall(h, c, m) <= h.st[c][n]
    <3>1. m \in 0 .. n - 1 BY <1>1, <1>2
    <3>. QED BY <3>1, <1>1 DEF Calls
  <2>2. /\ EndOfParams(h, c, m) \in Nat /\ EndOfCall(h, c, m) \in Nat /\ h.sp[c][n] \in Nat /\ h.st[c][n] \in Nat
    BY EndsAre, CallIs
  <2>3. /\ Place(h, c, n, k) \in Nat /\ on \in {intercomm(c), my_comm(c)}
        /\ on = intercomm(c) => h.sp[c][n] < Place(h, c, n, k) /\ Place(h, c, m, j) <= EndOfParams(h, c, m)
        /\ on = my_comm(c) => h.st[c][n] < Place(h, c, n, k) /\ Place(h, c, m, j) <= EndOfCall(h, c, m)
    BY EndsAre
  <2>. QED BY <2>1, <2>2, <2>3
<1>3. ASSUME n < m PROVE FALSE
  <2>1. EndOfParams(h, c, n) <= h.sp[c][m] /\ EndOfCall(h, c, n) <= h.st[c][m]
    <3>1. n \in 0 .. m - 1 BY <1>1, <1>3
    <3>. QED BY <3>1, <1>1 DEF Calls
  <2>2. /\ EndOfParams(h, c, n) \in Nat /\ EndOfCall(h, c, n) \in Nat /\ h.sp[c][m] \in Nat /\ h.st[c][m] \in Nat
    BY EndsAre, CallIs
  <2>3. /\ Place(h, c, n, k) \in Nat /\ on \in {intercomm(c), my_comm(c)}
        /\ on = intercomm(c) => h.sp[c][m] < Place(h, c, m, j) /\ Place(h, c, n, k) <= EndOfParams(h, c, n)
        /\ on = my_comm(c) => h.st[c][m] < Place(h, c, m, j) /\ Place(h, c, n, k) <= EndOfCall(h, c, n)
    BY EndsAre
  <2>. QED BY <2>1, <2>2, <2>3
<1>4. m = n BY <1>1, <1>2, <1>3
<1>5. j = k
  <2>1. on \in {intercomm(c), my_comm(c)}
        /\ (on = intercomm(c) => j = Place(h, c, m, j) - h.sp[c][m] /\ k = Place(h, c, n, k) - h.sp[c][n])
        /\ (on = my_comm(c) => j = Place(h, c, m, j) - h.st[c][m] + Params(h.prog[c][m])
                               /\ k = Place(h, c, n, k) - h.st[c][n] + Params(h.prog[c][n]))
    BY EndsAre
  <2>. HIDE DEF on
  <2>. QED BY <2>1, <1>4
<1>. QED BY <1>4, <1>5

\* A call is over before the last one, or is the last one.
LEMMA EndsInOrder ==
  ASSUME ProgramsFit, NEW h, Measured(h), Calls(h), NEW c \in Components, NEW n, IsCall(h, c, n)
  PROVE  \E m : /\ m = h.last[c]
                /\ h.prog[c][m] = <<>> => EndOfParams(h, c, n) <= h.sp[c][m] /\ EndOfCall(h, c, n) <= h.st[c][m]
                /\ h.prog[c][m] # <<>> => /\ EndOfParams(h, c, n) <= EndOfParams(h, c, m)
                                          /\ EndOfCall(h, c, n) <= EndOfCall(h, c, m)
<1>0. PICK m : m = h.last[c] OBVIOUS
<1>1. n \in 0 .. m /\ m \in Nat BY <1>0 DEF IsCall, Measured
<1>2. n < m => EndOfParams(h, c, n) <= h.sp[c][m] /\ EndOfCall(h, c, n) <= h.st[c][m]
  <2>1. n < m => n \in 0 .. m - 1 BY <1>1
  <2>2. m \in 0 .. m BY <1>1
  <2>. QED BY <2>1, <2>2, <1>0 DEF Calls
<1>3. CASE h.prog[c][m] = <<>>
  <2>1. n # m BY <1>3 DEF IsCall
  <2>. QED BY <2>1, <1>0, <1>1, <1>2, <1>3
<1>4. CASE h.prog[c][m] # <<>>
  <2>1. IsCall(h, c, m) BY <1>0, <1>1, <1>4 DEF IsCall
  <2>2. /\ EndOfParams(h, c, m) \in Nat /\ EndOfCall(h, c, m) \in Nat
        /\ h.sp[c][m] <= EndOfParams(h, c, m) /\ h.st[c][m] < EndOfCall(h, c, m)
    BY <2>1, EndsAre
  <2>3. /\ EndOfParams(h, c, n) \in Nat /\ EndOfCall(h, c, n) \in Nat
        /\ h.sp[c][m] \in Nat /\ h.st[c][m] \in Nat
    BY <2>1, EndsAre, CallIs
  <2>4. n < m \/ n = m BY <1>1
  <2>5. EndOfParams(h, c, n) <= EndOfParams(h, c, m) /\ EndOfCall(h, c, n) <= EndOfCall(h, c, m)
    <3>1. CASE n < m BY <3>1, <2>2, <2>3, <1>2
    <3>2. CASE n = m BY <3>2, <2>2, <2>3
    <3>. QED BY <3>1, <3>2, <2>4
  <2>. QED BY <2>5, <1>0, <1>4
<1>. QED BY <1>3, <1>4

-----------------------------------------------------------------------------
(* A task in a call.                                                       *)

\* Task t is at broadcast b, which is number k + 1 of call n.
AtStep(h, t, c, n, k, b) ==
  /\ n = h.num[t][c] /\ IsCall(h, c, n) /\ k \in Nat /\ InScript(h, t, c, k)
  /\ k + 1 \in 1 .. Len(FullScript(h, c, n))
  /\ b = FullScript(h, c, n)[k + 1] /\ b \in Meetings
  /\ t \in Members(b.on) /\ h.pos[b.on][t] + 1 = Place(h, c, n, k + 1)
  /\ b.item \in DataItems \/ (b.item = Ierr /\ Shared(h.prog[c][n]) /\ k + 1 = Len(Agreed(c, h.prog[c][n])))

LEMMA NextInCall ==
  ASSUME ProgramsFit, Shape, NEW h, Measured(h), Calls(h), NEW c \in Components,
         NEW t \in Members(my_comm(c)), PlacedAt(h, t, c), Busy(t, c), todo[t] # <<>>
  PROVE  \E n, k : AtStep(h, t, c, n, k, Head(todo[t]))
<1>1. PICK n : n = h.num[t][c] OBVIOUS
<1>. DEFINE p == h.prog[c][n]
            v == Known(p, code[t])
            e == h.hand[c][n]
            s == Script(c, p, v, e)
            f == FullScript(h, c, n)
            P == Params(p)
<1>2. n \in 0 .. h.last[c] /\ Makes(t, p) BY <1>1 DEF PlacedAt
<1>3. PICK k \in Nat : InScript(h, t, c, k) BY DEF PlacedAt
<1>21. InCallAt(h, t, c, n, p, k) BY <1>1, <1>3 DEF InScript
<1>4. IsCall(h, c, n) BY <1>2 DEF IsCall, Makes
<1>5. t \in Tasks BY MembersAreTasks, CommsApart
<1>6. todo[t] \in Seq(Meetings) /\ Len(todo[t]) > 0 /\ Head(todo[t]) = todo[t][1]
  BY <1>5 DEF Shape
<1>7. LeftOf(s, k, todo[t]) BY <1>21 DEF InCallAt
<1>8. Len(s) = k + Len(todo[t]) /\ Head(todo[t]) = s[k + 1] /\ k + 1 \in 1 .. Len(s)
  BY <1>6, <1>7 DEF LeftOf
<1>9. /\ IsScript(c, p, Len(Agreed(c, p)), f) /\ IsScript(c, p, Len(Agreed(c, p)), Agreed(c, p))
      /\ IsJoin(f, Agreed(c, p), Rest(c, p, h.cd[c][n], e))
      /\ Len(f) \in Nat /\ Len(Agreed(c, p)) \in Nat /\ Params(p) \in Nat /\ Len(Agreed(c, p)) <= Len(f)
      /\ Params(p) < Len(Agreed(c, p)) /\ Programme(p) /\ p # <<>> /\ (~Shared(p) => h.cd[c][n] = "unknown")
  BY <1>4, CallIs
<1>10. k + 1 \in 1 .. Len(f) /\ f[k + 1] = s[k + 1]
  <2>1. v = "unknown" \/ v = h.cd[c][n]
    BY <1>21 DEF InCallAt, Informed, Known
  <2>2. CASE v = "unknown"
    <3>1. s = Agreed(c, p) BY <2>2, <1>9, ScriptIs
    <3>2. k + 1 \in 1 .. Len(Agreed(c, p)) BY <3>1, <1>8
    <3>3. f[k + 1] = Agreed(c, p)[k + 1] BY <3>2, <1>9 DEF IsJoin
    <3>. HIDE DEF f, p, s
    <3>. QED BY <3>1, <3>2, <3>3, <1>9
  <2>3. CASE v = h.cd[c][n]
    <3>1. f = s BY <2>3 DEF FullScript
    <3>. QED BY <3>1, <1>8
  <2>. QED BY <2>1, <2>2, <2>3
<1>11. /\ f[k + 1].on = IF k + 1 <= P THEN intercomm(c) ELSE my_comm(c)
       /\ f[k + 1] \in Meetings
       /\ \/ f[k + 1].item \in DataItems
          \/ Shared(p) /\ k + 1 = Len(Agreed(c, p)) /\ f[k + 1].item = Ierr
  <2>. HIDE DEF f, p
  <2>. QED BY <1>9, <1>10 DEF IsScript, Bcast
<1>12. Abreast(h, t, c, n, k) BY <1>21 DEF InCallAt
<1>13. h.st[c][n] \in Nat /\ h.sp[c][n] \in Nat /\ P \in Nat BY <1>4, CallIs
<1>18. h.pos[intercomm(c)][t] \in Nat /\ h.pos[my_comm(c)][t] \in Nat BY <1>5, CommsApart, Numbers
<1>. HIDE DEF P, f, s, v, e
<1>14. ASSUME k + 1 <= P
       PROVE  t \in Members(intercomm(c)) /\ h.pos[intercomm(c)][t] + 1 = h.sp[c][n] + (k + 1)
  <2>1. k <= P /\ ~(P <= k) BY <1>14, <1>13
  <2>2. t \in Members(intercomm(c)) /\ h.pos[intercomm(c)][t] = h.sp[c][n] + k
    BY <2>1, <1>12 DEF Abreast, P
  <2>3. \A x, y \in Nat : x = y + k => x + 1 = y + (k + 1) OBVIOUS
  <2>. QED BY <2>2, <2>3, <1>13, <1>18
<1>19. ASSUME ~(k + 1 <= P)
       PROVE  h.pos[my_comm(c)][t] + 1 = h.st[c][n] + ((k + 1) - P)
  <2>1. P <= k BY <1>19, <1>13
  <2>2. CASE k = P
    <3>1. h.pos[my_comm(c)][t] = h.st[c][n] + 0 BY <2>2, <1>12, <1>13 DEF Abreast, P
    <3>. QED BY <2>2, <3>1, <1>13, <1>18
  <2>3. CASE k # P
    <3>1. ~(k <= P) BY <2>1, <2>3, <1>13
    <3>2. h.pos[my_comm(c)][t] = h.st[c][n] + (k - P) BY <3>1, <1>12 DEF Abreast, P
    <3>. QED BY <3>2, <1>13, <1>18
  <2>. QED BY <2>2, <2>3
<1>15. t \in Members(f[k + 1].on) /\ h.pos[f[k + 1].on][t] + 1 = Place(h, c, n, k + 1)
  <2>1. Place(h, c, n, k + 1) = IF k + 1 <= P THEN h.sp[c][n] + (k + 1) ELSE h.st[c][n] + ((k + 1) - P)
    BY DEF Place, P, p
  <2>2. CASE k + 1 <= P BY <2>1, <2>2, <1>11, <1>14
  <2>3. CASE ~(k + 1 <= P) BY <2>1, <2>3, <1>11, <1>19
  <2>. QED BY <2>2, <2>3
<1>20. /\ k + 1 \in 1 .. Len(f)
       /\ f[k + 1].item \in DataItems \/ (f[k + 1].item = Ierr /\ Shared(p) /\ k + 1 = Len(Agreed(c, p)))
  BY <1>10, <1>11
<1>16. AtStep(h, t, c, n, k, f[k + 1])
  <2>. DEFINE b == f[k + 1]
  <2>1. b = FullScript(h, c, n)[k + 1] BY DEF f
  <2>2. b \in Meetings /\ t \in Members(b.on) /\ h.pos[b.on][t] + 1 = Place(h, c, n, k + 1)
        /\ (b.item \in DataItems \/ (b.item = Ierr /\ Shared(h.prog[c][n]) /\ k + 1 = Len(Agreed(c, h.prog[c][n]))))
    BY <1>11, <1>15, <1>20
  <2>3. k + 1 \in 1 .. Len(FullScript(h, c, n)) BY <1>10 DEF f
  <2>. HIDE DEF b
  <2>4. AtStep(h, t, c, n, k, b) BY <2>1, <2>2, <2>3, <1>1, <1>3, <1>4 DEF AtStep
  <2>. QED BY <2>4 DEF b
<1>17. f[k + 1] = Head(todo[t]) BY <1>8, <1>10
<1>. HIDE DEF f
<1>. QED BY <1>16, <1>17

-----------------------------------------------------------------------------
(* What a broadcast, and the code of a call, add to a history.             *)

\* The calls are the same.
CallsKept(h, g) ==
  /\ g.prog = h.prog /\ g.hand = h.hand /\ g.sp = h.sp /\ g.st = h.st
  /\ g.last = h.last /\ g.num = h.num

\* At most the code of the last call of a component becomes known.
Learned(h, g) ==
  \A c \in Components : \A n \in 0 .. h.last[c] :
    g.cd[c][n] = h.cd[c][n] \/ (h.cd[c][n] = "unknown" /\ n = h.last[c])

LEMMA LearnedCall ==
  ASSUME ProgramsFit, NEW h, NEW g, Measured(h), Calls(h), Measured(g), Calls(g),
         CallsKept(h, g), Learned(h, g), NEW c \in Components, NEW n, IsCall(h, c, n)
  PROVE  /\ IsCall(g, c, n)
         /\ Len(FullScript(h, c, n)) <= Len(FullScript(g, c, n))
         /\ \A k \in 1 .. Len(FullScript(h, c, n)) :
              k \in 1 .. Len(FullScript(g, c, n)) /\ FullScript(g, c, n)[k] = FullScript(h, c, n)[k]
         /\ \A k : Place(g, c, n, k) = Place(h, c, n, k)
         /\ Len(FullScript(h, c, n)) # Len(FullScript(g, c, n)) => n = h.last[c]
         /\ EndOfParams(g, c, n) = EndOfParams(h, c, n)
         /\ EndOfCall(h, c, n) <= EndOfCall(g, c, n)
<1>. DEFINE p == h.prog[c][n]
            f == FullScript(h, c, n)
            m == FullScript(g, c, n)
            a == Agreed(c, p)
<1>1. IsCall(g, c, n) BY DEF IsCall, CallsKept
<1>2. g.prog[c][n] = p /\ g.hand[c][n] = h.hand[c][n] BY DEF CallsKept
<1>3. /\ IsJoin(f, a, Rest(c, p, h.cd[c][n], h.hand[c][n]))
      /\ h.cd[c][n] = "unknown" => f = a
      /\ Len(f) \in Nat /\ Len(a) \in Nat /\ Len(a) <= Len(f) /\ Params(p) \in Nat /\ h.st[c][n] \in Nat
  BY CallIs
<1>4. /\ IsJoin(m, a, Rest(c, p, g.cd[c][n], h.hand[c][n]))
      /\ Len(m) \in Nat /\ Len(a) <= Len(m)
  BY <1>1, <1>2, CallIs
<1>5. g.cd[c][n] = h.cd[c][n] => m = f BY <1>2 DEF FullScript
<1>6. g.cd[c][n] = h.cd[c][n] \/ (h.cd[c][n] = "unknown" /\ n = h.last[c])
  BY DEF IsCall, Learned
<1>. HIDE DEF f, m, a
<1>7. /\ Len(f) <= Len(m)
      /\ \A k \in 1 .. Len(f) : k \in 1 .. Len(m) /\ m[k] = f[k]
      /\ Len(f) # Len(m) => n = h.last[c]
  <2>1. CASE g.cd[c][n] = h.cd[c][n] BY <2>1, <1>5, <1>3
  <2>2. CASE h.cd[c][n] = "unknown" /\ n = h.last[c]
    <3>1. f = a BY <2>2, <1>3
    <3>2. \A k \in 1 .. Len(a) : k \in 1 .. Len(m) BY <1>3, <1>4
    <3>3. \A k \in 1 .. Len(a) : m[k] = a[k] BY <1>4 DEF IsJoin
    <3>. QED BY <3>1, <3>2, <3>3, <2>2, <1>3, <1>4
  <2>. QED BY <2>1, <2>2, <1>6
<1>8. \A k : Place(g, c, n, k) = Place(h, c, n, k) BY DEF Place, CallsKept
<1>9. EndOfParams(g, c, n) = EndOfParams(h, c, n) BY DEF EndOfParams, CallsKept
<1>10. EndOfCall(h, c, n) <= EndOfCall(g, c, n)
  <2>1. EndOfCall(h, c, n) = h.st[c][n] + (Len(f) - Params(p)) BY DEF EndOfCall, f
  <2>2. EndOfCall(g, c, n) = h.st[c][n] + (Len(m) - Params(p)) BY DEF EndOfCall, CallsKept, m
  <2>. HIDE DEF p
  <2>. QED BY <2>1, <2>2, <1>3, <1>4, <1>7
<1>. QED BY <1>1, <1>7, <1>8, <1>9, <1>10 DEF f, m

\* Broadcast b, the next of task t, is number k of call n of component c,
\* and v is what it brings.
Continues(h, g, t, b, v, c, n, k) ==
  /\ IsCall(g, c, n) /\ k \in 1 .. Len(FullScript(g, c, n)) /\ b = FullScript(g, c, n)[k]
  /\ h.pos[b.on][t] + 1 = Place(g, c, n, k)
  /\ b.root = t => IF b.item = Ierr THEN v = g.cd[c][n] /\ v \in Codes ELSE v = "data"

IsNext(h, g, t, b, v) ==
  b.on = io_comm \/ \E c \in Components : \E n, k : Continues(h, g, t, b, v, c, n, k)

LEMMA MetRecorded ==
  ASSUME ProgramsFit, Shape, Shape', NEW h, NEW g, Measured(h), Calls(h), Measured(g), Calls(g),
         CallsKept(h, g), Learned(h, g), Recorded(h), Ahead(h),
         NEW t \in Tasks, NEW b \in Meetings, NEW v, Met(h, g, t, b, v), IsNext(h, g, t, b, v)
  PROVE  Recorded(g)' /\ Ahead(g)'
<1>1. \A comm \in Comms : Top(h, comm) \in Nat /\ Top(g, comm)' \in Nat
  <2>1. \A comm \in Comms : Top(h, comm) \in Nat BY Numbers
  <2>2. ASSUME NEW comm \in Comms PROVE Top(g, comm)' \in Nat
    <3>1. g.low[comm] \in Nat /\ Len(bcasts'[comm]) \in Nat BY DEF Shape, Measured
    <3>. QED BY <3>1 DEF Top
  <2>. QED BY <2>1, <2>2
<1>2. \A c \in Components :
        /\ intercomm(c) \in Comms /\ my_comm(c) \in Comms /\ intercomm(c) # my_comm(c)
        /\ intercomm(c) # io_comm /\ my_comm(c) # io_comm
  BY CommsApart
<1>3. b.on \in Comms BY DEF Meetings
\* What is new is broadcast k of call n.
<1>4. ASSUME NEW comm \in Comms, comm # io_comm, Top(h, comm) < Top(g, comm)'
      PROVE  /\ comm = b.on /\ b.root = t
             /\ \E c \in Components : \E n, k :
                  Continues(h, g, t, b, v, c, n, k) /\ Top(g, comm)' = Place(g, c, n, k)
                  /\ Top(g, comm)' = Top(h, comm) + 1
  <2>1. comm = b.on /\ b.root = t /\ Top(g, comm)' = Top(h, comm) + 1 /\ h.pos[b.on][t] = Top(h, comm)
    BY <1>4, <1>1, <1>3 DEF Met
  <2>4. PICK c \in Components : \E n, k : Continues(h, g, t, b, v, c, n, k) BY <2>1, <1>4 DEF IsNext
  <2>2. PICK n, k : Continues(h, g, t, b, v, c, n, k) BY <2>4
  <2>3. Top(g, comm)' = Place(g, c, n, k) BY <2>1, <2>2 DEF Continues
  <2>. QED BY <2>1, <2>2, <2>3
<1>5. ASSUME NEW c \in Components, NEW n, IsCall(g, c, n), NEW k \in 1 .. Len(FullScript(g, c, n)),
             Place(g, c, n, k) <= Top(g, FullScript(g, c, n)[k].on)'
      PROVE  IsEntry(g.log[FullScript(g, c, n)[k].on][Place(g, c, n, k)], FullScript(g, c, n)[k], g.cd[c][n])
  <2>. DEFINE x == FullScript(g, c, n)[k]
              pl == Place(g, c, n, k)
  <2>1. /\ pl \in Nat /\ x.on \in {intercomm(c), my_comm(c)}
        /\ x.on = intercomm(c) => g.sp[c][n] < pl
        /\ x.on = my_comm(c) => g.st[c][n] < pl /\ k = pl - g.st[c][n] + Params(g.prog[c][n])
    BY <1>5, EndsAre
  <2>2. x.on \in Comms /\ x.on # io_comm BY <2>1, <1>2
  <2>3. /\ g.sp[c][n] \in Nat /\ g.st[c][n] \in Nat /\ Params(g.prog[c][n]) \in Nat
        /\ Len(FullScript(g, c, n)) \in Nat
    BY <1>5, CallIs
  <2>4. pl \in 1 .. Top(g, x.on)'
    <3>1. 1 <= pl BY <2>1, <2>3
    <3>. HIDE DEF x, pl
    <3>2. pl <= Top(g, x.on)' BY <1>5 DEF x, pl
    <3>. QED BY <3>1, <3>2, <2>1, <2>2, <1>1
  <2>5. IsCall(h, c, n) BY <1>5 DEF IsCall, CallsKept
  <2>6. /\ Len(FullScript(h, c, n)) <= Len(FullScript(g, c, n))
        /\ \A j \in 1 .. Len(FullScript(h, c, n)) :
              j \in 1 .. Len(FullScript(g, c, n)) /\ FullScript(g, c, n)[j] = FullScript(h, c, n)[j]
        /\ Place(g, c, n, k) = Place(h, c, n, k)
        /\ Len(FullScript(h, c, n)) # Len(FullScript(g, c, n)) => n = h.last[c]
    BY <2>5, LearnedCall
  <2>7. CASE pl <= Top(h, x.on)
    <3>1. k <= Len(FullScript(h, c, n))
      <4>. SUFFICES ASSUME ~(k <= Len(FullScript(h, c, n))) PROVE FALSE OBVIOUS
      <4>1. n = h.last[c]
        <5>1. Len(FullScript(h, c, n)) # Len(FullScript(g, c, n)) BY <2>3
        <5>. QED BY <5>1, <2>6
      <4>2. /\ Len(FullScript(h, c, n)) \in Nat /\ Params(h.prog[c][n]) \in Nat
            /\ Len(Agreed(c, h.prog[c][n])) \in Nat
            /\ Params(h.prog[c][n]) < Len(Agreed(c, h.prog[c][n]))
            /\ Len(Agreed(c, h.prog[c][n])) <= Len(FullScript(h, c, n))
        BY <2>5, CallIs
      <4>3. IsScript(c, g.prog[c][n], Len(Agreed(c, g.prog[c][n])), FullScript(g, c, n)) BY <1>5, CallIs
      <4>4. g.prog[c][n] = h.prog[c][n] /\ g.st[c][n] = h.st[c][n] BY DEF CallsKept
      <4>5. ~(k <= Params(h.prog[c][n])) /\ k \in Nat BY <4>2
      <4>6. x.on = my_comm(c) BY <4>3, <4>4, <4>5 DEF IsScript
      <4>7. EndOfCall(h, c, n) < pl
        <5>1. k = pl - h.st[c][n] + Params(h.prog[c][n]) BY <4>4, <4>6, <2>1
        <5>2. EndOfCall(h, c, n) = h.st[c][n] + (Len(FullScript(h, c, n)) - Params(h.prog[c][n]))
          BY DEF EndOfCall
        <5>3. h.st[c][n] \in Nat BY <2>3, <4>4
        <5>. HIDE DEF pl
        <5>. QED BY <5>1, <5>2, <5>3, <4>2, <4>5, <2>1
      <4>8. Top(h, my_comm(c)) <= EndOfCall(h, c, n)
        BY <4>1, <2>5 DEF Ahead, IsCall
      <4>9. EndOfCall(h, c, n) \in Nat BY <2>5, EndsAre
      <4>10. Top(h, my_comm(c)) \in Nat /\ pl <= Top(h, my_comm(c)) BY <4>6, <2>7, <1>1, <1>2
      <4>. HIDE DEF pl, x
      <4>. QED BY <4>7, <4>8, <4>9, <4>10, <2>1
    <3>2. k \in 1 .. Len(FullScript(h, c, n))
      <4>1. Len(FullScript(h, c, n)) \in Nat BY <2>5, CallIs
      <4>. QED BY <3>1, <4>1, <2>3
    <3>3. x = FullScript(h, c, n)[k] BY <3>2, <2>6
    <3>4. IsEntry(h.log[x.on][pl], x, h.cd[c][n])
      <4>. HIDE DEF x
      <4>1. Place(h, c, n, k) <= Top(h, FullScript(h, c, n)[k].on) BY <2>6, <2>7, <3>3
      <4>2. IsEntry(h.log[FullScript(h, c, n)[k].on][Place(h, c, n, k)], FullScript(h, c, n)[k], h.cd[c][n])
        BY <4>1, <3>2, <2>5 DEF Recorded, IsCall
      <4>. QED BY <4>2, <3>3, <2>6
    <3>5. g.log[x.on][pl] = h.log[x.on][pl]
      <4>1. pl \in 1 .. Top(h, x.on)
        <5>. HIDE DEF x, pl
        <5>. QED BY <2>4, <2>7, <2>2, <1>1
      <4>. HIDE DEF x, pl
      <4>. QED BY <4>1, <2>2 DEF Met
    <3>6. x.item = Ierr => g.cd[c][n] = h.cd[c][n]
      <4>1. x.item = Ierr => h.cd[c][n] \in Codes BY <3>4 DEF IsEntry
      <4>2. "unknown" \notin Codes BY DEF Codes
      <4>. QED BY <4>1, <4>2, <2>5 DEF Learned, IsCall
    <3>. QED BY <3>4, <3>5, <3>6 DEF IsEntry
  <2>8. CASE ~(pl <= Top(h, x.on))
    <3>1. Top(h, x.on) < Top(g, x.on)'
      <4>. HIDE DEF x, pl
      <4>. QED BY <2>4, <2>8, <2>2, <1>1
    <3>11. PICK d \in Components :
             /\ x.on = b.on /\ b.root = t
             /\ \E m, j : Continues(h, g, t, b, v, d, m, j) /\ Top(g, x.on)' = Place(g, d, m, j)
                          /\ Top(g, x.on)' = Top(h, x.on) + 1
      <4>. HIDE DEF x
      <4>. QED BY <3>1, <1>4, <2>2
    <3>2. PICK m, j :
            /\ x.on = b.on /\ b.root = t
            /\ Continues(h, g, t, b, v, d, m, j) /\ Top(g, x.on)' = Place(g, d, m, j)
            /\ Top(g, x.on)' = Top(h, x.on) + 1
      <4>. HIDE DEF x
      <4>. QED BY <3>11
    <3>3. pl = Place(g, d, m, j)
      <4>. HIDE DEF x, pl
      <4>. QED BY <3>2, <2>4, <2>8, <2>2, <1>1
    <3>4. d = c
      <4>1. b.on \in {intercomm(d), my_comm(d)} BY <3>2, EndsAre DEF Continues
      <4>. QED BY <4>1, <3>2, <2>1, CommsApart
    <3>5. n = m /\ k = j
      <4>1. /\ IsCall(g, c, m) /\ j \in 1 .. Len(FullScript(g, c, m))
            /\ FullScript(g, c, m)[j].on = FullScript(g, c, n)[k].on
        BY <3>2, <3>4 DEF Continues
      <4>2. Place(g, c, m, j) = Place(g, c, n, k) BY <3>3, <3>4
      <4>. QED BY <4>1, <4>2, <1>5, PlacesApart
    <3>6. x = b BY <3>2, <3>4, <3>5 DEF Continues
    <3>7. IF b.item = Ierr THEN v = g.cd[c][n] /\ v \in Codes ELSE v = "data"
      BY <3>2, <3>4, <3>5 DEF Continues
    <3>8. LET e == g.log[b.on][h.pos[b.on][t] + 1] IN e.root = b.root /\ e.item = b.item /\ e.val = v
      BY DEF Met
    <3>9. h.pos[b.on][t] + 1 = pl BY <3>2, <3>3 DEF Continues
    <3>. HIDE DEF x, pl
    <3>10. IsEntry(g.log[x.on][pl], x, g.cd[c][n]) BY <3>6, <3>7, <3>8, <3>9 DEF IsEntry
    <3>. QED BY <3>10 DEF x, pl
  <2>. QED BY <2>7, <2>8
<1>6. Recorded(g)'
  <2>. SUFFICES ASSUME NEW c \in Components, NEW n \in 0 .. g.last[c], g.prog[c][n] # <<>>,
                       NEW k \in 1 .. Len(FullScript(g, c, n)),
                       Place(g, c, n, k) <= Top(g, FullScript(g, c, n)[k].on)'
                PROVE  IsEntry(g.log[FullScript(g, c, n)[k].on][Place(g, c, n, k)],
                               FullScript(g, c, n)[k], g.cd[c][n])
    BY DEF Recorded
  <2>1. IsCall(g, c, n) BY DEF IsCall
  <2>. QED BY <2>1, <1>5
<1>7. ASSUME NEW c \in Components
      PROVE  IF g.prog[c][g.last[c]] = <<>>
             THEN Top(g, intercomm(c))' <= g.sp[c][g.last[c]] /\ Top(g, my_comm(c))' <= g.st[c][g.last[c]]
             ELSE /\ Top(g, intercomm(c))' <= EndOfParams(g, c, g.last[c])
                  /\ Top(g, my_comm(c))' <= EndOfCall(g, c, g.last[c])
  <2>1. PICK m : m = g.last[c] OBVIOUS
  <2>2. m = h.last[c] /\ g.prog[c][m] = h.prog[c][m] /\ g.sp[c][m] = h.sp[c][m] /\ g.st[c][m] = h.st[c][m]
        /\ m \in Nat
    BY <2>1 DEF CallsKept, Measured
  <2>3. PICK ep, ec : /\ ep = IF g.prog[c][m] = <<>> THEN g.sp[c][m] ELSE EndOfParams(g, c, m)
                      /\ ec = IF g.prog[c][m] = <<>> THEN g.st[c][m] ELSE EndOfCall(g, c, m)
    OBVIOUS
  <2>4. ep \in Nat /\ ec \in Nat /\ Top(h, intercomm(c)) <= ep /\ Top(h, my_comm(c)) <= ec
    <3>1. CASE g.prog[c][m] = <<>> BY <3>1, <2>2, <2>3, Numbers DEF Ahead
    <3>2. CASE g.prog[c][m] # <<>>
      <4>1. IsCall(h, c, m) /\ IsCall(g, c, m) BY <3>2, <2>1, <2>2 DEF IsCall
      <4>2. /\ EndOfParams(g, c, m) = EndOfParams(h, c, m)
            /\ EndOfCall(h, c, m) <= EndOfCall(g, c, m)
            /\ EndOfCall(h, c, m) \in Nat /\ EndOfCall(g, c, m) \in Nat /\ EndOfParams(g, c, m) \in Nat
        BY <4>1, LearnedCall, EndsAre
      <4>3. Top(h, intercomm(c)) <= EndOfParams(h, c, m) /\ Top(h, my_comm(c)) <= EndOfCall(h, c, m)
        BY <3>2, <2>2 DEF Ahead
      <4>4. Top(h, intercomm(c)) \in Nat /\ Top(h, my_comm(c)) \in Nat BY <1>1, <1>2
      <4>. QED BY <3>2, <4>2, <4>3, <4>4, <2>3
    <3>. QED BY <3>1, <3>2
  <2>5. ASSUME NEW comm \in {intercomm(c), my_comm(c)}
        PROVE  Top(g, comm)' <= IF comm = intercomm(c) THEN ep ELSE ec
    <3>. DEFINE top == IF comm = intercomm(c) THEN ep ELSE ec
    <3>1. top \in Nat /\ Top(h, comm) <= top /\ comm \in Comms /\ comm # io_comm BY <2>4, <2>5, <1>2
    <3>2. CASE ~(Top(h, comm) < Top(g, comm)')
      <4>1. Top(h, comm) \in Nat /\ Top(g, comm)' \in Nat BY <3>1, <1>1
      <4>. QED BY <4>1, <3>1, <3>2
    <3>3. CASE Top(h, comm) < Top(g, comm)'
      <4>6. PICK d \in Components :
              /\ comm = b.on
              /\ \E n, k : Continues(h, g, t, b, v, d, n, k) /\ Top(g, comm)' = Place(g, d, n, k)
        BY <3>1, <3>3, <1>4
      <4>1. PICK n, k :
              comm = b.on /\ Continues(h, g, t, b, v, d, n, k) /\ Top(g, comm)' = Place(g, d, n, k)
        BY <4>6
      <4>2. d = c
        <5>1. b.on \in {intercomm(d), my_comm(d)} BY <4>1, EndsAre DEF Continues
        <5>. QED BY <5>1, <4>1, <2>5, CommsApart
      <4>3. IsCall(g, c, n) /\ k \in 1 .. Len(FullScript(g, c, n)) /\ FullScript(g, c, n)[k].on = comm
        BY <4>1, <4>2 DEF Continues
      <4>4. /\ Place(g, c, n, k) \in Nat
            /\ comm = intercomm(c) => Place(g, c, n, k) <= EndOfParams(g, c, n)
            /\ comm = my_comm(c) => Place(g, c, n, k) <= EndOfCall(g, c, n)
            /\ EndOfParams(g, c, n) \in Nat /\ EndOfCall(g, c, n) \in Nat
        BY <4>3, EndsAre
      <4>5. EndOfParams(g, c, n) <= ep /\ EndOfCall(g, c, n) <= ec
        BY <4>3, <2>1, <2>3, EndsInOrder
      <4>. QED BY <4>1, <4>2, <4>4, <4>5, <2>4, <2>5
    <3>. QED BY <3>2, <3>3
  <2>6. Top(g, intercomm(c))' <= ep /\ Top(g, my_comm(c))' <= ec
    <3>1. PICK i, j : i = intercomm(c) /\ j = my_comm(c) OBVIOUS
    <3>2. Top(g, i)' <= ep BY <2>5, <3>1
    <3>3. Top(g, j)' <= ec BY <2>5, <3>1, <1>2
    <3>. QED BY <3>1, <3>2, <3>3 DEF Top
  <2>. QED BY <2>1, <2>3, <2>6
<1>8. Ahead(g)' BY <1>7 DEF Ahead
<1>. QED BY <1>6, <1>8

-----------------------------------------------------------------------------
(* What leaves a task where it is.                                         *)

Untouched(u) == doing'[u] = doing[u] /\ code'[u] = code[u] /\ todo'[u] = todo[u] /\ eh'[u] = eh[u]

\* The histories h and g say the same of task u and the calls of component c.
SameFor(h, g, u, c) ==
  LET n == h.num[u][c]
  IN  /\ g.num[u][c] = n /\ h.last[c] <= g.last[c]
      /\ g.prog[c][n] = h.prog[c][n] /\ g.hand[c][n] = h.hand[c][n]
      /\ g.sp[c][n] = h.sp[c][n] /\ g.st[c][n] = h.st[c][n]
      /\ g.pos[my_comm(c)][u] = h.pos[my_comm(c)][u] /\ g.pos[intercomm(c)][u] = h.pos[intercomm(c)][u]
      /\ g.cd[c][n] = h.cd[c][n] \/ (h.cd[c][n] = "unknown" /\ u # ioroot)

LEMMA StaysPlaced ==
  ASSUME NEW h, NEW g, Measured(h), Measured(g), NEW c \in Components, NEW u \in Tasks,
         PlacedAt(h, u, c), SameFor(h, g, u, c), Untouched(u)
  PROVE  PlacedAt(g, u, c)'
<1>1. PICK n : n = h.num[u][c] OBVIOUS
<1>. DEFINE p == h.prog[c][n]
<1>2. /\ g.num[u][c] = n /\ h.last[c] <= g.last[c] /\ h.last[c] \in Nat /\ g.last[c] \in Nat
      /\ g.prog[c][n] = p /\ g.hand[c][n] = h.hand[c][n]
      /\ g.sp[c][n] = h.sp[c][n] /\ g.st[c][n] = h.st[c][n]
      /\ g.pos[my_comm(c)][u] = h.pos[my_comm(c)][u] /\ g.pos[intercomm(c)][u] = h.pos[intercomm(c)][u]
      /\ g.cd[c][n] = h.cd[c][n] \/ (h.cd[c][n] = "unknown" /\ u # ioroot)
  BY <1>1, Numbers DEF SameFor
<1>3. n \in 0 .. h.last[c] /\ eh[u][c] = h.hand[c][n] BY <1>1 DEF PlacedAt
<1>4. g.num[u][c] \in 0 .. g.last[c] /\ eh'[u][c] = g.hand[c][g.num[u][c]]
  <2>1. n \in 0 .. g.last[c] BY <1>2, <1>3
  <2>. QED BY <2>1, <1>2, <1>3 DEF Untouched
<1>5. Busy(u, c)' <=> Busy(u, c) BY DEF Busy, IsIdle, Untouched
<1>6. ~Busy(u, c) => AtRest(g, u, c)
  BY <1>1, <1>2 DEF PlacedAt, AtRest
<1>7. ASSUME Busy(u, c)
      PROVE  Makes(u, g.prog[c][g.num[u][c]])' /\ \E k \in Nat : InScript(g, u, c, k)'
  <2>1. Makes(u, p) BY <1>1, <1>7 DEF PlacedAt
  <2>2. Makes(u, p)' BY <2>1 DEF Makes, Untouched
  <2>3. PICK k \in Nat : InScript(h, u, c, k) BY <1>7 DEF PlacedAt
  <2>4. Abreast(h, u, c, n, k) <=> Abreast(g, u, c, n, k)
    <3>. HIDE DEF p
    <3>. QED BY <1>2 DEF Abreast, p
  <2>5. InCallAt(h, u, c, n, p, k) BY <2>3, <1>1 DEF InScript
  <2>6. Informed(u, p, g.cd[c][n])
    <3>1. Informed(u, p, h.cd[c][n]) BY <2>5 DEF InCallAt
    <3>. HIDE DEF p
    <3>. QED BY <3>1, <1>2 DEF Informed
  <2>7. Informed(u, p, g.cd[c][n])' BY <2>6 DEF Informed, Untouched
  <2>10. InCallAt(g, u, c, n, p, k)'
    <3>1. code'[u] = code[u] /\ todo'[u] = todo[u] BY DEF Untouched
    <3>. HIDE DEF p
    <3>. QED BY <2>4, <2>5, <2>7, <1>2, <3>1 DEF InCallAt
  <2>8. InScript(g, u, c, k)' BY <2>10, <1>2 DEF InScript
  <2>9. Makes(u, g.prog[c][g.num[u][c]])'
    BY <2>2, <1>2
  <2>. QED BY <2>8, <2>9
<1>8. \E k \in Nat : Busy(u, c) => InScript(g, u, c, k)'
  <2>1. CASE Busy(u, c) BY <2>1, <1>7
  <2>2. CASE ~Busy(u, c)
    <3>1. 0 \in Nat OBVIOUS
    <3>. QED BY <2>2, <3>1
  <2>. QED BY <2>1, <2>2
<1>. QED BY <1>4, <1>5, <1>6, <1>7, <1>8 DEF PlacedAt

\* Nothing new on io_comm leaves the message loop where it is.
LEMMA StaysLooped ==
  ASSUME Shape, NEW h, NEW g, Measured(h), Looped(h), g.loop = h.loop, g.last = h.last, g.prog = h.prog,
         Top(g, io_comm)' = Top(h, io_comm),
         \A k \in 1 .. Top(h, io_comm) : g.log[io_comm][k] = h.log[io_comm][k]
  PROVE  Looped(g)'
<1>1. PICK top : top = Top(h, io_comm) OBVIOUS
<1>2. top \in Nat BY <1>1, Numbers, CommsApart
<1>3. Top(g, io_comm)' = top BY <1>1
<1>4. h.loop[0] = LoopStart /\ (\A p \in 0 .. top : Sound(h.loop[p]))
  BY <1>1 DEF Looped
<1>5. \A p, q \in 0 .. top : p <= q => Begins(h.loop[p].served, h.loop[q].served)
  BY <1>1 DEF Looped
<1>6. ASSUME NEW p \in 0 .. top - 1
      PROVE  LoopStep(g, g.loop[p], g.log[io_comm][p + 1], g.loop[p + 1])
  <2>1. LoopStep(h, h.loop[p], h.log[io_comm][p + 1], h.loop[p + 1]) BY <1>1 DEF Looped
  <2>2. p + 1 \in 1 .. top BY <1>2
  <2>3. g.log[io_comm][p + 1] = h.log[io_comm][p + 1] BY <2>2, <1>1
  <2>. QED BY <2>1, <2>3 DEF LoopStep
<1>. QED BY <1>3, <1>4, <1>5, <1>6 DEF Looped

\* A task is as far in the loop, and as far in the calls of the components.
LEMMA StaysServing ==
  ASSUME NEW h, NEW g, NEW u \in IOTasks, ServingAt(h, u),
         Reached(g, u) = Reached(h, u), g.num[u] = h.num[u],
         doing'[u] = doing[u], outcount'[u] = outcount[u], openComps'[u] = openComps[u],
         u \in running' <=> u \in running,
         IsIdle(u) => code'[u] = code[u] /\ (todo'[u] = todo[u] \/
                        (u = ioroot /\ todo[u] = <<>> /\ u \in running /\ todo'[u] = <<Bcast(io_comm, ioroot, Outcount)>>))
  PROVE  ServingAt(g, u)'
<1>1. PICK s : s = Reached(h, u) OBVIOUS
<1>2. (Reached(g, u) = s)' BY <1>1 DEF Reached
<1>3. CASE IsIdle(u)
  <2>1. Waiting(u, s) /\ (\A d \in Components : h.num[u][d] = s.num[d]) BY <1>1, <1>3 DEF ServingAt
  <2>2. IsIdle(u)' BY <1>3 DEF IsIdle
  <2>3. Waiting(u, s)'
    <3>1. CASE todo'[u] = todo[u]
      BY <2>1, <3>1, <1>3 DEF Waiting
    <3>2. CASE u = ioroot /\ todo[u] = <<>> /\ u \in running /\ todo'[u] = <<Bcast(io_comm, ioroot, Outcount)>>
      <4>1. <<Bcast(io_comm, ioroot, Msg)>> # <<>> /\ NextRequest # <<>> BY DEF NextRequest
      <4>2. s.at # "over" /\ s.at # "index" /\ s.at # "msg" BY <2>1, <3>2, <4>1 DEF Waiting
      <4>. QED BY <2>1, <3>2, <4>2, <1>3 DEF Waiting
    <3>. QED BY <3>1, <3>2, <1>3
  <2>. QED BY <2>1, <2>2, <2>3, <1>2 DEF ServingAt
<1>4. CASE ~IsIdle(u)
  <2>1. InHandler(h, u, s, doing[u].comp) BY <1>1, <1>4 DEF ServingAt
  <2>2. ~IsIdle(u)' BY <1>4 DEF IsIdle
  <2>3. PICK c : c = doing[u].comp OBVIOUS
  <2>4. InHandler(g, u, s, c)' BY <2>1, <2>3 DEF InHandler
  <2>5. doing'[u].comp = c BY <2>3
  <2>. QED BY <2>2, <2>4, <2>5, <1>2 DEF ServingAt
<1>. QED BY <1>3, <1>4

\* What a task has done is told by the calls before the last one.
LEMMA StaysRecalled ==
  ASSUME NEW h, NEW g, Measured(h), NEW c \in Components, NEW u \in Tasks, Recalled(h, u, c),
         h.num[u][c] <= h.last[c], g.num[u][c] = h.num[u][c], g.prog = h.prog, Learned(h, g), done'[u] = done[u]
  PROVE  Recalled(g, u, c)'
<1>1. PICK n : n = h.num[u][c] OBVIOUS
<1>2. n \in Nat /\ h.last[c] \in Nat /\ n <= h.last[c] /\ g.num[u][c] = n BY <1>1, Numbers
<1>3. OfComp(u, c)' = OfComp(u, c) BY DEF OfComp
<1>4. ASSUME NEW i \in 1 .. n PROVE EntryFor(g, u, c, i - 1) = EntryFor(h, u, c, i - 1)
  <2>1. i - 1 \in 0 .. h.last[c] /\ i - 1 # h.last[c] BY <1>2
  <2>2. g.cd[c][i - 1] = h.cd[c][i - 1] BY <2>1 DEF Learned
  <2>. QED BY <2>2 DEF EntryFor
<1>5. \A i \in 1 .. n : OfComp(u, c)[i] = EntryFor(g, u, c, i - 1)
  BY <1>1, <1>4 DEF Recalled
<1>6. Len(OfComp(u, c)) = n /\ (u \in CompTasks(c) => done[u] = OfComp(u, c)) BY <1>1 DEF Recalled
<1>. QED BY <1>2, <1>3, <1>5, <1>6 DEF Recalled

LEMMA StaysServed ==
  ASSUME NEW h, NEW g, Measured(h), NEW u \in Tasks, NEW s, HasServed(h, u, s),
         \A c \in Components : h.num[u][c] <= h.last[c] /\ g.num[u][c] = h.num[u][c],
         g.prog = h.prog, Learned(h, g), done'[u] = done[u], IsIdle(u)' <=> IsIdle(u)
  PROVE  HasServed(g, u, s)'
<1>1. ASSUME NEW i \in 1 .. Len(done[u])
      PROVE  /\ s[i][1] \in Components /\ s[i][2] \in 0 .. g.num[u][s[i][1]] - 1
             /\ done[u][i] = EntryFor(g, u, s[i][1], s[i][2])
  <2>1. PICK c, m : c = s[i][1] /\ m = s[i][2] OBVIOUS
  <2>2. c \in Components /\ m \in 0 .. h.num[u][c] - 1 /\ done[u][i] = EntryFor(h, u, c, m)
    BY <2>1 DEF HasServed
  <2>3. h.num[u][c] \in Nat /\ h.last[c] \in Nat /\ h.num[u][c] <= h.last[c] /\ g.num[u][c] = h.num[u][c]
    BY <2>2, Numbers
  <2>4. m \in 0 .. h.last[c] /\ m # h.last[c] BY <2>2, <2>3
  <2>5. g.cd[c][m] = h.cd[c][m] BY <2>2, <2>4 DEF Learned
  <2>6. EntryFor(g, u, c, m) = EntryFor(h, u, c, m) BY <2>5 DEF EntryFor
  <2>. QED BY <2>1, <2>2, <2>3, <2>6
<1>. QED BY <1>1 DEF HasServed

\* A task in a call of component c goes on with it.
LEMMA CallGoesOn ==
  ASSUME ProgramsFit, Shape, Shape', Batch, NEW h, Follows(h),
         NEW g, Measured(g), Calls(g), CallsKept(h, g), g.loop = h.loop, Learned(h, g),
         NEW c \in Components, NEW t \in Members(my_comm(c)), Busy(t, c),
         \A d \in Components : \A n \in 0 .. h.last[d] :
            g.cd[d][n] = h.cd[d][n] \/ (t = ioroot /\ d = c /\ n = h.num[t][c] /\ h.cd[d][n] = "unknown"),
         Logged(g)', Recorded(g)', Ahead(g)',
         Top(g, io_comm)' = Top(h, io_comm),
         \A k \in 1 .. Top(h, io_comm) : g.log[io_comm][k] = h.log[io_comm][k],
         \A comm \in Comms : \A u \in Tasks :
            comm \notin {intercomm(c), my_comm(c)} \/ u # t => g.pos[comm][u] = h.pos[comm][u],
         PlacedAt(g, t, c)',
         UNCHANGED <<program, doing, eh, done, loopVars>>,
         \A u \in Tasks : u # t => todo'[u] = todo[u] /\ code'[u] = code[u]
  PROVE  Follows(g)' /\ Batch'
<1>1. /\ Measured(h) /\ Calls(h) /\ Logged(h) /\ Recorded(h) /\ Ahead(h) /\ Placed(h) /\ Undecided(h)
      /\ Calling(h) /\ Looped(h) /\ Serving(h) /\ Carried(h) /\ Remembered(h)
  BY DEF Follows
<1>2. t \in Tasks BY MembersAreTasks, CommsApart
<1>3. g.prog = h.prog /\ g.hand = h.hand /\ g.sp = h.sp /\ g.st = h.st /\ g.last = h.last /\ g.num = h.num
  BY DEF CallsKept
<1>4. /\ program' = program /\ doing' = doing /\ eh' = eh /\ done' = done /\ inbox' = inbox
      /\ listening' = listening /\ index' = index /\ messages' = messages /\ outcount' = outcount
      /\ openComps' = openComps /\ running' = running
  BY DEF loopVars
<1>5. \A d \in Components : intercomm(d) \in Comms /\ my_comm(d) \in Comms
                              /\ (d # c => {intercomm(d), my_comm(d)} \cap {intercomm(c), my_comm(c)} = {})
  BY CommsApart
<1>7. \A u \in Tasks : doing'[u] = doing[u] /\ (IsIdle(u)' <=> IsIdle(u)) BY <1>4 DEF IsIdle
<1>8. ~IsIdle(t) /\ doing[t].comp = c BY DEF Busy
<1>9. \A d \in Components : \A u \in Members(my_comm(d)) : u \in Tasks /\ h.num[u][d] <= h.last[d]
  <2>1. \A d \in Components : \A u \in Members(my_comm(d)) : u \in Tasks BY MembersAreTasks, CommsApart
  <2>2. ASSUME NEW d \in Components, NEW u \in Members(my_comm(d)) PROVE h.num[u][d] <= h.last[d]
    <3>1. h.num[u][d] \in 0 .. h.last[d] BY <1>1 DEF Placed, PlacedAt
    <3>2. h.last[d] \in Nat BY <1>1, Numbers
    <3>. QED BY <3>1, <3>2
  <2>. QED BY <2>1, <2>2
<1>10. Placed(g)'
  <2>. SUFFICES ASSUME NEW d \in Components, NEW u \in Members(my_comm(d)) PROVE PlacedAt(g, u, d)'
    BY MembersOf DEF Placed
  <2>1. PlacedAt(h, u, d) /\ u \in Tasks BY <1>1, <1>9 DEF Placed
  <2>2. CASE u # t
    <3>1. SameFor(h, g, u, d)
      <4>1. /\ g.pos[my_comm(d)][u] = h.pos[my_comm(d)][u]
            /\ g.pos[intercomm(d)][u] = h.pos[intercomm(d)][u]
        BY <2>1, <2>2, <1>5
      <4>2. PICK n : n = h.num[u][d] OBVIOUS
      <4>5. n \in 0 .. h.last[d] BY <4>2, <2>1 DEF PlacedAt
      <4>3. g.cd[d][n] = h.cd[d][n] \/ (h.cd[d][n] = "unknown" /\ u # ioroot) BY <4>5, <2>2
      <4>4. h.last[d] <= g.last[d] BY <1>1, <1>3, Numbers
      <4>. QED BY <4>1, <4>2, <4>3, <4>4, <1>3 DEF SameFor
    <3>2. Untouched(u) BY <2>1, <2>2, <1>4 DEF Untouched
    <3>. QED BY <3>1, <3>2, <2>1, <1>1, StaysPlaced
  <2>3. CASE u = t /\ d # c
    <3>1. ~Busy(u, d) /\ ~Busy(u, d)' BY <2>3, <1>8, <1>4 DEF Busy
    <3>2. PICK i, m : i = intercomm(d) /\ m = my_comm(d) OBVIOUS
    <3>3. g.pos[m][u] = h.pos[m][u] /\ g.pos[i][u] = h.pos[i][u]
      BY <3>2, <2>1, <2>3, <1>5
    <3>4. AtRest(g, u, d) BY <3>1, <3>2, <3>3, <2>1, <1>3 DEF PlacedAt, AtRest
    <3>. QED BY <3>1, <3>4, <2>1, <1>3, <1>4 DEF PlacedAt
  <2>4. CASE u = t /\ d = c BY <2>4
  <2>. QED BY <2>2, <2>3, <2>4
<1>11. Undecided(g)'
  <2>. SUFFICES ASSUME NEW d \in Components, NEW n \in 0 .. h.last[d],
                       h.num[ioroot][d] < n \/ (h.num[ioroot][d] = n /\ ~Busy(ioroot, d))
                PROVE  g.cd[d][n] = "unknown"
    BY <1>3, <1>4 DEF Undecided, Busy, IsIdle
  <2>1. h.cd[d][n] = "unknown" BY <1>1 DEF Undecided
  <2>. QED BY <2>1
<1>12. Calling(g)'
  <2>. SUFFICES ASSUME NEW d \in Components, NEW u \in CompTasks(d) PROVE CallingAt(g, u, d)'
    BY DEF Calling
  <2>1. CallingAt(h, u, d) BY <1>1 DEF Calling
  <2>2. u \in Tasks BY TasksApart
  <2>3. IsIdle(u) => todo'[u] = todo[u] /\ code'[u] = code[u] BY <2>2, <1>8
  <2>. QED BY <2>1, <2>2, <2>3, <1>3, <1>4, <1>7 DEF CallingAt
<1>13. Looped(g)'
  BY <1>1, <1>3, StaysLooped
<1>14. \A u \in IOTasks : g.pos[io_comm][u] = h.pos[io_comm][u]
  <2>1. io_comm \notin {intercomm(c), my_comm(c)} /\ io_comm \in Comms BY CommsApart
  <2>. QED BY <2>1, TasksApart
<1>15. Serving(g)'
  <2>. SUFFICES ASSUME NEW u \in IOTasks PROVE ServingAt(g, u)'
    BY DEF Serving
  <2>1. ServingAt(h, u) /\ u \in Tasks BY <1>1, TasksApart DEF Serving
  <2>2. IsIdle(u) => code'[u] = code[u] /\ todo'[u] = todo[u] BY <2>1, <1>8
  <2>3. Reached(g, u) = Reached(h, u) BY <1>14 DEF Reached
  <2>. QED BY <2>1, <2>2, <2>3, <1>3, <1>4, StaysServing
<1>16. Carried(g)'
  <2>1. \A d \in Components : Begun(g, d)' = Begun(h, d) BY <1>3, <1>4 DEF Begun, IsIdle
  <2>2. TakenUp' = TakenUp BY <1>4 DEF TakenUp
  <2>. SUFFICES ASSUME NEW d \in Components, NEW n, n = h.num[ioroot][d] PROVE CarriedAt(g, d, n)'
    BY <1>3 DEF Carried
  <2>3. CarriedAt(h, d, n) BY <1>1 DEF Carried
  <2>4. \A m : OnTheWay(g, d, m)' <=> OnTheWay(h, d, m) BY <2>1, <1>3, <1>4 DEF OnTheWay
  <2>. QED BY <2>1, <2>2, <2>3, <2>4, <1>3, <1>4 DEF CarriedAt
<1>17. Remembered(g)'
  <2>1. ASSUME NEW d \in Components, NEW u \in Members(my_comm(d)) PROVE Recalled(g, u, d)'
    <3>1. Recalled(h, u, d) BY <1>1 DEF Remembered
    <3>. QED BY <3>1, <1>1, <1>3, <1>4, <1>9, StaysRecalled
  <2>2. ASSUME NEW u \in IOTasks PROVE HasServed(g, u, Reached(g, u).served)'
    <3>1. PICK s : s = Reached(h, u).served OBVIOUS
    <3>2. HasServed(h, u, s) BY <3>1, <1>1 DEF Remembered
    <3>3. \A d \in Components : h.num[u][d] <= h.last[d] /\ g.num[u][d] = h.num[u][d]
      BY <1>3, <1>9, MembersOf
    <3>4. HasServed(g, u, s)' BY <3>2, <3>3, <1>1, <1>3, <1>4, <1>7, TasksApart, StaysServed
    <3>5. Reached(g, u).served = s BY <3>1, <1>14 DEF Reached
    <3>. QED BY <3>4, <3>5
  <2>. QED BY <2>1, <2>2, MembersOf DEF Remembered
<1>18. Batch'
  <2>1. CASE t = ioroot
    <3>1. ~IsIdle(ioroot) /\ ~IsIdle(ioroot)' BY <2>1, <1>7, <1>8, TasksApart
    <3>. QED BY <3>1, <1>4 DEF Batch, TakenUp
  <2>2. CASE t # ioroot
    <3>1. todo'[ioroot] = todo[ioroot] BY <2>2, TasksApart
    <3>. QED BY <3>1, <1>4 DEF Batch, TakenUp, IsIdle
  <2>. QED BY <2>1, <2>2
<1>. QED BY <1>10, <1>11, <1>12, <1>13, <1>15, <1>16, <1>17, <1>18 DEF Follows

\* A task in a call of component c takes part in a broadcast of that call.
LEMMA MetInCall ==
  ASSUME ProgramsFit, Shape, Shape', Batch, NEW h, Follows(h),
         NEW g, Measured(g), Calls(g), Logged(g)', CallsKept(h, g), g.loop = h.loop, Learned(h, g),
         NEW c \in Components, NEW t \in Members(my_comm(c)), Busy(t, c),
         \A d \in Components : \A n \in 0 .. h.last[d] :
            g.cd[d][n] = h.cd[d][n] \/ (t = ioroot /\ d = c /\ n = h.num[t][c] /\ h.cd[d][n] = "unknown"),
         NEW b \in Meetings, b.on \in {intercomm(c), my_comm(c)},
         NEW v, Met(h, g, t, b, v), IsNext(h, g, t, b, v), PlacedAt(g, t, c)',
         UNCHANGED <<program, doing, eh, done, loopVars>>,
         \A u \in Tasks : u # t => todo'[u] = todo[u] /\ code'[u] = code[u]
  PROVE  Follows(g)' /\ Batch'
<1>1. Measured(h) /\ Calls(h) /\ Recorded(h) /\ Ahead(h) BY DEF Follows
<1>2. t \in Tasks BY MembersAreTasks, CommsApart
<1>3. Recorded(g)' /\ Ahead(g)' BY <1>1, <1>2, MetRecorded
<1>4. io_comm # b.on /\ io_comm \in Comms BY CommsApart
<1>5. /\ Top(g, io_comm)' = Top(h, io_comm)
      /\ \A k \in 1 .. Top(h, io_comm) : g.log[io_comm][k] = h.log[io_comm][k]
  BY <1>4 DEF Met
<1>6. \A comm \in Comms : \A u \in Tasks :
        comm \notin {intercomm(c), my_comm(c)} \/ u # t => g.pos[comm][u] = h.pos[comm][u]
  BY DEF Met
<1>. QED BY <1>3, <1>5, <1>6, CallGoesOn

-----------------------------------------------------------------------------
(* A step in a call.                                                       *)

\* An I/O task is somewhere in the message loop.
LEMMA InTheLoop ==
  ASSUME Shape, NEW h, Follows(h), NEW t \in IOTasks
  PROVE  /\ h.pos[io_comm][t] \in 0 .. Top(h, io_comm) /\ Top(h, io_comm) \in Nat
         /\ h.low[io_comm] <= h.pos[io_comm][t]
         /\ Sound(Reached(h, t)) /\ ServingAt(h, t)
<1>1. Looped(h) /\ Measured(h) /\ Logged(h) /\ Serving(h) BY DEF Follows
<1>2. h.low[io_comm] <= h.pos[io_comm][t] /\ h.pos[io_comm][t] <= Top(h, io_comm)
  BY <1>1, CommsApart, MembersOf DEF Logged, InLine, Top
<1>3. h.pos[io_comm][t] \in Nat /\ Top(h, io_comm) \in Nat
  BY <1>1, CommsApart, TasksApart, Numbers
<1>4. h.pos[io_comm][t] \in 0 .. Top(h, io_comm) BY <1>2, <1>3
<1>5. Sound(Reached(h, t)) BY <1>1, <1>4 DEF Looped, Reached
<1>. QED BY <1>1, <1>2, <1>3, <1>4, <1>5 DEF Serving

\* Who waits for a broadcast that is not one of the message loop is in a call.
LEMMA InSomeCall ==
  ASSUME Shape, NEW h, Follows(h), NEW t \in Tasks,
         ~IsIdle(t) \/ (todo[t] # <<>> /\ Head(todo[t]).item \notin {Outcount, Index, Msg})
  PROVE  \E c \in Components : t \in Members(my_comm(c)) /\ Busy(t, c)
<1>1. CASE t \in IOTasks
  <2>1. \A c \in Components : t \in Members(my_comm(c)) BY <1>1, MembersOf
  <2>2. ServingAt(h, t) /\ Sound(Reached(h, t)) BY <1>1, InTheLoop
  <2>3. CASE ~IsIdle(t)
    <3>1. doing[t].comp \in Components BY <2>2, <2>3 DEF ServingAt, InHandler
    <3>. QED BY <3>1, <2>1, <2>3 DEF Busy
  <2>4. CASE IsIdle(t)
    <3>1. PICK s : s = Reached(h, t) OBVIOUS
    <3>2. Waiting(t, s) /\ Sound(s) BY <3>1, <2>2, <2>4 DEF ServingAt
    <3>3. s.at \in {"count", "index", "msg", "over"} BY <3>2 DEF Sound, LoopStates
    <3>4. \/ todo[t] = <<>> \/ todo[t] = NextRequest
          \/ todo[t] = <<Bcast(io_comm, ioroot, Outcount)>> \/ todo[t] = <<Bcast(io_comm, ioroot, Msg)>>
      BY <3>2, <3>3 DEF Waiting
    <3>5. \A i : Bcast(io_comm, ioroot, i).item = i BY DEF Bcast
    <3>6. /\ Head(NextRequest).item = Index /\ Head(<<Bcast(io_comm, ioroot, Outcount)>>).item = Outcount
          /\ Head(<<Bcast(io_comm, ioroot, Msg)>>).item = Msg
      BY <3>5 DEF NextRequest
    <3>. QED BY <3>4, <3>6, <2>4
  <2>. QED BY <2>3, <2>4
<1>2. CASE t \in Callers
  <2>1. t[1] \in Components /\ t \in CompTasks(t[1]) /\ t \in Members(my_comm(t[1]))
    BY <1>2, TasksApart, MembersOf
  <2>2. CallingAt(h, t, t[1]) BY <2>1 DEF Follows, Calling
  <2>. QED BY <2>1, <2>2 DEF CallingAt, Busy
<1>. QED BY <1>1, <1>2, TasksApart

\* A history like h but for what is given.
Like(h, g, log, pos, low, cd, loop) ==
  g.log = log /\ g.pos = pos /\ g.low = low /\ g.cd = cd /\ g.loop = loop /\ CallsKept(h, g)

LEMMA OtherHistory ==
  ASSUME NEW h, NEW log, NEW pos, NEW low, NEW cd, NEW loop
  PROVE  \E g : Like(h, g, log, pos, low, cd, loop)
<1>1. PICK g : g = [log |-> log, pos |-> pos, low |-> low, cd |-> cd, loop |-> loop, prog |-> h.prog,
                    hand |-> h.hand, sp |-> h.sp, st |-> h.st, last |-> h.last, num |-> h.num]
  OBVIOUS
<1>2. /\ g.log = log /\ g.pos = pos /\ g.low = low /\ g.cd = cd /\ g.loop = loop
      /\ CallsKept(h, g)
  BY <1>1 DEF CallsKept
<1>. QED BY <1>2 DEF Like

LEMMA CallsSame ==
  ASSUME NEW h, NEW g, g.prog = h.prog, g.hand = h.hand, g.sp = h.sp, g.st = h.st, g.last = h.last,
         g.cd = h.cd, Calls(h)
  PROVE  Calls(g)
<1>1. \A c, n : EndOfParams(g, c, n) = EndOfParams(h, c, n) /\ EndOfCall(g, c, n) = EndOfCall(h, c, n)
  BY DEF EndOfParams, EndOfCall, FullScript
<1>. QED BY <1>1 DEF Calls

LEMMA CallsAlike ==
  ASSUME NEW h, NEW g, Measured(h), CallsKept(h, g), Calls(h),
         \A c \in Components : \A n \in 0 .. h.last[c] : g.cd[c][n] = h.cd[c][n]
  PROVE  Calls(g)
<1>1. \A c \in Components : \A n \in 0 .. h.last[c] :
        EndOfParams(g, c, n) = EndOfParams(h, c, n) /\ EndOfCall(g, c, n) = EndOfCall(h, c, n)
  BY DEF CallsKept, EndOfParams, EndOfCall, FullScript
<1>2. ASSUME NEW c \in Components
      PROVE  /\ \A n \in 0 .. h.last[c] - 1 : n \in 0 .. h.last[c]
             /\ \A n \in 0 .. h.last[c] : \A m \in 0 .. n - 1 : m \in 0 .. h.last[c]
  BY Numbers
<1>. QED BY <1>1, <1>2 DEF Calls, CallsKept

LEMMA MeasuredToo ==
  ASSUME NEW h, NEW g, Measured(h), CallsKept(h, g),
         g.low \in [Comms -> Nat], g.pos \in [Comms -> [Tasks -> Nat]]
  PROVE  Measured(g)
BY DEF Measured, CallsKept

\* A task that takes part in broadcast k + 1 of a call is that far on.
LEMMA MetAbreast ==
  ASSUME ProgramsFit, Shape, NEW h, Measured(h), Calls(h), NEW g, CallsKept(h, g), NEW c \in Components,
         NEW t \in Tasks, NEW n, NEW k, NEW b, NEW v, AtStep(h, t, c, n, k, b), Met(h, g, t, b, v)
  PROVE  Abreast(g, t, c, n, k + 1)
<1>. DEFINE P == Params(h.prog[c][n])
            i == intercomm(c)
            m == my_comm(c)
<1>1. n = h.num[t][c] /\ IsCall(h, c, n) /\ k \in Nat /\ Abreast(h, t, c, n, k)
  <2>1. n = h.num[t][c] /\ IsCall(h, c, n) /\ k \in Nat /\ InScript(h, t, c, k) BY DEF AtStep
  <2>2. PICK p : p = h.prog[c][n] OBVIOUS
  <2>3. InCallAt(h, t, c, n, p, k) BY <2>1, <2>2 DEF InScript
  <2>. QED BY <2>1, <2>3 DEF InCallAt
<1>2. P \in Nat /\ h.sp[c][n] \in Nat /\ h.st[c][n] \in Nat BY <1>1, CallIs
<1>3. b.on = IF k + 1 <= P THEN i ELSE m
  <2>1. PICK p, f, l : p = h.prog[c][n] /\ f = FullScript(h, c, n) /\ l = Len(Agreed(c, p)) OBVIOUS
  <2>2. IsScript(c, p, l, f) BY <2>1, <1>1, CallIs
  <2>3. b = f[k + 1] /\ k + 1 \in 1 .. Len(f) BY <2>1 DEF AtStep
  <2>. QED BY <2>1, <2>2, <2>3 DEF IsScript
<1>4. i \in Comms /\ m \in Comms /\ i # m BY CommsApart
<1>5. h.pos[i][t] \in Nat /\ h.pos[m][t] \in Nat BY <1>4, Numbers
<1>6. t \in Members(b.on) BY DEF AtStep
<1>. HIDE DEF P, i, m
<1>7. /\ h.pos[m][t] = h.st[c][n] + (IF k <= P THEN 0 ELSE k - P)
      /\ t \in Members(i) => h.pos[i][t] = h.sp[c][n] + (IF k <= P THEN k ELSE P)
      /\ t \notin Members(i) => P <= k
  BY <1>1 DEF Abreast, P, i, m
<1>8. /\ g.pos[m][t] = IF b.on = m THEN h.pos[m][t] + 1 ELSE h.pos[m][t]
      /\ g.pos[i][t] = IF b.on = i THEN h.pos[i][t] + 1 ELSE h.pos[i][t]
  BY <1>4 DEF Met
<1>9. CASE k + 1 <= P
  <2>1. k <= P /\ ~(P <= k) BY <1>9, <1>1, <1>2
  <2>2. g.pos[m][t] = h.st[c][n] + 0 BY <1>3, <1>4, <1>7, <1>8, <1>9, <2>1
  <2>3. g.pos[i][t] = h.sp[c][n] + (k + 1)
    <3>1. h.pos[i][t] = h.sp[c][n] + k BY <2>1, <1>7
    <3>. QED BY <3>1, <1>1, <1>2, <1>3, <1>8, <1>9
  <2>4. t \in Members(i) BY <1>3, <1>6, <1>9
  <2>. QED BY <2>2, <2>3, <2>4, <1>9 DEF Abreast, P, i, m, CallsKept
<1>10. CASE ~(k + 1 <= P)
  <2>1. P <= k BY <1>10, <1>1, <1>2
  <2>2. g.pos[m][t] = h.st[c][n] + ((k + 1) - P)
    <3>1. h.pos[m][t] = h.st[c][n] + (k - P)
      <4>1. CASE k = P
        <5>1. h.pos[m][t] = h.st[c][n] + 0 BY <4>1, <1>7, <1>2
        <5>. QED BY <5>1, <4>1, <1>2
      <4>2. CASE k # P
        <5>1. ~(k <= P) BY <4>2, <2>1, <1>1, <1>2
        <5>. QED BY <5>1, <1>7
      <4>. QED BY <4>1, <4>2
    <3>2. g.pos[m][t] = h.pos[m][t] + 1 BY <1>3, <1>8, <1>10
    <3>. QED BY <3>1, <3>2, <1>1, <1>2
  <2>3. t \in Members(i) => g.pos[i][t] = h.sp[c][n] + P
    <3>1. g.pos[i][t] = h.pos[i][t] BY <1>3, <1>4, <1>8, <1>10
    <3>2. ASSUME t \in Members(i) PROVE h.pos[i][t] = h.sp[c][n] + P
      <4>1. CASE k = P BY <4>1, <3>2, <1>7, <1>2
      <4>2. CASE k # P
        <5>1. ~(k <= P) BY <4>2, <2>1, <1>1, <1>2
        <5>. QED BY <5>1, <3>2, <1>7
      <4>. QED BY <4>1, <4>2
    <3>. QED BY <3>1, <3>2
  <2>4. P <= k + 1 BY <2>1, <1>1, <1>2
  <2>. QED BY <2>2, <2>3, <2>4, <1>10 DEF Abreast, P, i, m, CallsKept
<1>. QED BY <1>9, <1>10

LEMMA LeftNext ==
  ASSUME NEW s, NEW k, NEW x \in Seq(Meetings), LeftOf(s, k, x), x # <<>>
  PROVE  LeftOf(s, k + 1, Tail(x)) /\ Tail(x) \in Seq(Meetings) /\ Head(x) = s[k + 1] /\ Head(x) \in Meetings
<1>1. k \in Nat /\ Len(s) = k + Len(x) /\ \A i \in 1 .. Len(x) : x[i] = s[k + i] BY DEF LeftOf
<1>2. Len(x) \in Nat /\ Len(x) > 0 /\ Head(x) = x[1] /\ Head(x) \in Meetings OBVIOUS
<1>3. PICK y : y = Tail(x) OBVIOUS
<1>4. y \in Seq(Meetings) /\ Len(y) = Len(x) - 1 /\ \A i \in 1 .. Len(y) : y[i] = x[i + 1] BY <1>3, <1>2
<1>5. ASSUME NEW i \in 1 .. Len(y) PROVE y[i] = s[(k + 1) + i]
  <2>1. i + 1 \in 1 .. Len(x) /\ k + (i + 1) = (k + 1) + i BY <1>1, <1>2, <1>4
  <2>. QED BY <2>1, <1>1, <1>4
<1>6. LeftOf(s, k + 1, y) BY <1>1, <1>2, <1>4, <1>5 DEF LeftOf
<1>7. 1 \in 1 .. Len(x) BY <1>2
<1>. QED BY <1>1, <1>2, <1>3, <1>4, <1>6, <1>7

LEMMA PlacedOn ==
  ASSUME NEW h, NEW g, CallsKept(h, g), NEW c, NEW t, PlacedAt(h, t, c), Busy(t, c),
         UNCHANGED <<doing, eh>>, NEW n, n = h.num[t][c], NEW k \in Nat, InCallAt(g, t, c, n, h.prog[c][n], k)'
  PROVE  PlacedAt(g, t, c)'
<1>1. g.num = h.num /\ g.prog = h.prog /\ g.hand = h.hand /\ g.last = h.last BY DEF CallsKept
<1>2. PICK p : p = h.prog[c][n] OBVIOUS
<1>3. n \in 0 .. h.last[c] /\ eh[t][c] = h.hand[c][n] /\ Makes(t, p) BY <1>2 DEF PlacedAt
<1>4. Busy(t, c)' BY DEF Busy, IsIdle
<1>5. Makes(t, p)' BY <1>3 DEF Makes
<1>6. InScript(g, t, c, k)' BY <1>1 DEF InScript
<1>. QED BY <1>1, <1>2, <1>3, <1>4, <1>5, <1>6 DEF PlacedAt

\* What is at stake when a task makes a step.
Kept == Shape' /\ Batch' /\ \E g : Follows(g)'

LEMMA ExchangeKeeps ==
  ASSUME ProgramsFit, Shape, Batch, NEW h, Follows(h), NEW t \in Tasks, Exchange(t)
  PROVE  Kept
<1>1. PICK b : b = Head(todo[t]) OBVIOUS
<1>2. /\ todo[t] # <<>> /\ b.item \notin {Ierr, Outcount, Index, Msg} /\ Meet(t, b, "data")
      /\ todo' = [todo EXCEPT ![t] = Tail(todo[t])]
      /\ UNCHANGED <<program, doing, code, eh, done, loopVars>>
  BY <1>1 DEF Exchange, Becomes
<1>3. /\ Measured(h) /\ Calls(h) /\ Logged(h) /\ Placed(h) BY DEF Follows
<1>4. PICK c \in Components : t \in Members(my_comm(c)) /\ Busy(t, c) BY <1>1, <1>2, InSomeCall
<1>5. PlacedAt(h, t, c) BY <1>3, <1>4 DEF Placed
<1>6. PICK n, k : AtStep(h, t, c, n, k, b) BY <1>1, <1>2, <1>3, <1>4, <1>5, NextInCall
<1>7. PICK p, f, l : p = h.prog[c][n] /\ f = FullScript(h, c, n) /\ l = Len(Agreed(c, p)) OBVIOUS
<1>8. /\ n = h.num[t][c] /\ IsCall(h, c, n) /\ k \in Nat /\ InScript(h, t, c, k)
      /\ k + 1 \in 1 .. Len(f) /\ b = f[k + 1] /\ b \in Meetings /\ t \in Members(b.on)
      /\ h.pos[b.on][t] + 1 = Place(h, c, n, k + 1)
  BY <1>6, <1>7 DEF AtStep
<1>9. IsScript(c, p, l, f) /\ Programme(p) /\ p # <<>> BY <1>3, <1>7, <1>8, CallIs
<1>10. b.on \in {intercomm(c), my_comm(c)} /\ (Shared(p) => k + 1 # l)
  <2>1. b.on \in {intercomm(c), my_comm(c)} BY <1>8, <1>9 DEF IsScript
  <2>2. Shared(p) /\ k + 1 = l => b.item = Ierr BY <1>8, <1>9 DEF IsScript, Bcast
  <2>. QED BY <2>1, <2>2, <1>2
<1>11. "data" \in Vals BY DEF Vals
<1>12. bcasts' \in [Comms -> Seq(Packets)] /\ \E log, pos, low : Written(h, t, b, "data", log, pos, low)
  BY <1>2, <1>3, <1>8, <1>11, MeetLogged
<1>13. PICK log, pos, low : Written(h, t, b, "data", log, pos, low) BY <1>12
<1>30. PICK g : Like(h, g, log, pos, low, h.cd, h.loop) BY OtherHistory
<1>14. /\ g.log = log /\ g.pos = pos /\ g.low = low /\ g.cd = h.cd /\ g.loop = h.loop
       /\ CallsKept(h, g)
  BY <1>30 DEF Like
<1>15. /\ Measured(g) /\ Calls(g) /\ Logged(g)' /\ Met(h, g, t, b, "data") /\ Learned(h, g)
  BY <1>3, <1>13, <1>14, MeasuredToo, CallsSame DEF Learned, Written, CallsKept
<1>16. InCallAt(h, t, c, n, p, k) BY <1>7, <1>8 DEF InScript
<1>17. PICK s : s = Script(c, p, Known(p, code[t]), h.hand[c][n]) OBVIOUS
<1>18. LeftOf(s, k, todo[t]) /\ (Shared(p) /\ code[t] # "unknown" => l <= k) /\ Informed(t, p, h.cd[c][n])
  BY <1>7, <1>16, <1>17 DEF InCallAt
<1>19. todo[t] \in Seq(Meetings) BY DEF Shape
<1>20. LeftOf(s, k + 1, Tail(todo[t])) /\ Tail(todo[t]) \in Seq(Meetings)
  BY <1>2, <1>18, <1>19, LeftNext
<1>21. todo'[t] = Tail(todo[t]) /\ code'[t] = code[t] BY <1>2 DEF Shape
<1>22. Informed(t, p, h.cd[c][n])'
  <2>1. ASSUME Shared(p), code[t] = "unknown" PROVE todo'[t] # <<>>
    <3>1. s = Agreed(c, p) BY <2>1, <1>9, <1>17, ScriptIs DEF Known
    <3>2. l = (k + 1) + Len(todo'[t]) BY <3>1, <1>7, <1>20, <1>21 DEF LeftOf
    <3>3. todo'[t] = <<>> => l = k + 1 BY <3>2, <1>8
    <3>. QED BY <3>3, <2>1, <1>10
  <2>. QED BY <2>1, <1>18, <1>21 DEF Informed
<1>23. InCallAt(g, t, c, n, p, k + 1)'
  <2>1. Abreast(g, t, c, n, k + 1) BY <1>3, <1>6, <1>14, <1>15, MetAbreast
  <2>2. Shared(p) /\ code[t] # "unknown" => l <= k + 1
    <3>1. l \in Nat BY <1>3, <1>7, <1>8, CallIs
    <3>. QED BY <3>1, <1>8, <1>18
  <2>3. g.hand = h.hand /\ g.cd = h.cd BY <1>14 DEF CallsKept
  <2>. QED BY <2>1, <2>2, <2>3, <1>7, <1>17, <1>20, <1>21, <1>22 DEF InCallAt
<1>24. PlacedAt(g, t, c)'
  BY <1>2, <1>4, <1>5, <1>7, <1>8, <1>14, <1>23, PlacedOn
<1>25. Shape'
  <2>1. todo' \in [Tasks -> Seq(Meetings)] BY <1>2, <1>20 DEF Shape
  <2>. QED BY <2>1, <1>2, <1>12 DEF Shape, loopVars
<1>26. IsNext(h, g, t, b, "data")
  <2>1. IsCall(g, c, n) /\ FullScript(g, c, n) = f
    <3>1. g.prog = h.prog /\ g.hand = h.hand /\ g.last = h.last BY <1>14 DEF CallsKept
    <3>2. IsCall(g, c, n) BY <3>1, <1>8 DEF IsCall
    <3>. QED BY <3>1, <3>2, <1>7, <1>14 DEF FullScript
  <2>3. Place(g, c, n, k + 1) = Place(h, c, n, k + 1) BY <1>14 DEF CallsKept, Place
  <2>2. Continues(h, g, t, b, "data", c, n, k + 1) BY <2>1, <2>3, <1>2, <1>8 DEF Continues
  <2>. QED BY <2>2 DEF IsNext
<1>27. \A u \in Tasks : u # t => todo'[u] = todo[u] /\ code'[u] = code[u] BY <1>2
<1>28. \A d \in Components : \A m \in 0 .. h.last[d] : g.cd[d][m] = h.cd[d][m] BY <1>14
<1>29. Follows(g)' /\ Batch'
  BY <1>2, <1>3, <1>4, <1>8, <1>10, <1>14, <1>15, <1>24, <1>25, <1>26, <1>27, <1>28, MetInCall
<1>. QED BY <1>25, <1>29 DEF Kept

\* The library's code of the last call becomes known.
LEMMA CallsLearn ==
  ASSUME NEW h, NEW g, Measured(h), Calls(h), CallsKept(h, g), NEW c \in Components, NEW n, n = h.last[c],
         h.cd[c][n] = "unknown", Shared(h.prog[c][n]), NEW v \in Codes,
         v = "failed" => StepOf(h.prog[c][n]).msg \in Failing[h.hand[c][n]], g.cd[c][n] = v,
         \A d \in Components : \A m \in 0 .. h.last[d] : (d = c /\ m = n) \/ g.cd[d][m] = h.cd[d][m]
  PROVE  Calls(g) /\ Learned(h, g)
<1>1. /\ g.prog = h.prog /\ g.hand = h.hand /\ g.sp = h.sp /\ g.st = h.st /\ g.last = h.last
  BY DEF CallsKept
<1>2. \A d \in Components : h.last[d] \in Nat BY Numbers
<1>3. \A d, m : EndOfParams(g, d, m) = EndOfParams(h, d, m) BY <1>1 DEF EndOfParams
<1>4. ASSUME NEW d \in Components, NEW m \in 0 .. h.last[d] - 1
      PROVE  /\ g.cd[d][m] = h.cd[d][m] /\ EndOfCall(g, d, m) = EndOfCall(h, d, m)
             /\ m \in 0 .. h.last[d]
  <2>1. m \in 0 .. h.last[d] /\ m # h.last[d] BY <1>2
  <2>2. g.cd[d][m] = h.cd[d][m] BY <2>1
  <2>. QED BY <2>1, <2>2, <1>1 DEF EndOfCall, FullScript
<1>5. ASSUME NEW d \in Components, NEW m \in 0 .. h.last[d]
      PROVE  /\ Programme(g.prog[d][m]) /\ g.hand[d][m] \in {"bcast", "return"}
             /\ g.cd[d][m] \in Codes \cup {"unknown"}
             /\ g.prog[d][m] # <<>> =>
                  /\ g.cd[d][m] # "unknown" => Shared(g.prog[d][m])
                  /\ g.cd[d][m] = "failed" => StepOf(g.prog[d][m]).msg \in Failing[g.hand[d][m]]
             /\ \A j \in 0 .. m - 1 : EndOfParams(g, d, j) <= g.sp[d][m] /\ EndOfCall(g, d, j) <= g.st[d][m]
  <2>1. \A j \in 0 .. m - 1 : j \in 0 .. h.last[d] - 1 BY <1>2
  <2>2. \A j \in 0 .. m - 1 : EndOfParams(g, d, j) <= g.sp[d][m] /\ EndOfCall(g, d, j) <= g.st[d][m]
    BY <2>1, <1>1, <1>3, <1>4 DEF Calls
  <2>3. CASE d = c /\ m = n BY <2>2, <2>3, <1>1 DEF Calls
  <2>4. CASE ~(d = c /\ m = n)
    <3>1. g.cd[d][m] = h.cd[d][m] BY <2>4
    <3>. QED BY <3>1, <2>2, <1>1 DEF Calls
  <2>. QED BY <2>3, <2>4
<1>6. ASSUME NEW d \in Components, NEW m \in 0 .. h.last[d] - 1
      PROVE  /\ g.prog[d][m] # <<>>
             /\ Shared(g.prog[d][m]) => g.cd[d][m] # "unknown"
             /\ g.prog[d][m + 1] = NextProgram(g.prog[d][m], g.cd[d][m])
             /\ g.hand[d][m + 1] = NextHand(g.prog[d][m], g.hand[d][m])
             /\ EndOfParams(g, d, m) = g.sp[d][m + 1] /\ EndOfCall(g, d, m) = g.st[d][m + 1]
  BY <1>1, <1>3, <1>4 DEF Calls
<1>7. Calls(g) BY <1>1, <1>5, <1>6 DEF Calls
<1>8. Learned(h, g) BY DEF Learned
<1>. QED BY <1>7, <1>8

\* The value that a task other than the root meets a broadcast with.
LEMMA ReceivedIs ==
  ASSUME Shape, NEW h, Measured(h), Logged(h), NEW b \in Meetings, NEW t \in Members(b.on), b.root # t,
         NEW own, NEW v \in Values(t, b, own)
  PROVE  /\ v \in Vals /\ v = h.log[b.on][h.pos[b.on][t] + 1].val
         /\ h.pos[b.on][t] < Top(h, b.on)
<1>1. b.on \in Comms BY DEF Meetings
<1>2. Pending(b.on, t) # {} /\ v = NextBcast(b.on, t).val BY DEF Values
<1>3. PICK e : e = NextBcast(b.on, t) OBVIOUS
<1>4. /\ e \in Packets /\ e.val = h.log[b.on][h.pos[b.on][t] + 1].val
      /\ h.pos[b.on][t] < Top(h, b.on)
  BY <1>1, <1>2, <1>3, NextInLine
<1>. QED BY <1>2, <1>3, <1>4 DEF Packets

\* The broadcasts after the code are the same for the task as in the history.
LEMMA AfterCodeIs ==
  ASSUME NEW c, NEW t, NEW p, NEW v \in Codes, NEW e, doing[t].comp = c, Makes(t, p), eh[t][c] = e
  PROVE  AfterCode(t, v) = Rest(c, p, v, e)
<1>1. doing[t].agree = CallAt(p).agree /\ doing[t].results = CallAt(p).results BY DEF Makes
<1>2. CASE v = "ok" BY <1>1, <1>2 DEF AfterCode, Rest
<1>3. CASE v = "failed" BY <1>1, <1>3 DEF AfterCode, Rest, check_netcdf
<1>. QED BY <1>2, <1>3 DEF Codes

LEMMA TakeCodeKeeps ==
  ASSUME ProgramsFit, Shape, Batch, NEW h, Follows(h), NEW t \in Tasks, TakeCode(t)
  PROVE  Kept
<1>1. PICK b : b = Head(todo[t]) OBVIOUS
<1>31. /\ todo[t] # <<>> /\ b.item = Ierr
       /\ UNCHANGED <<program, doing, eh, done, loopVars>>
       /\ \E v \in Values(t, b, LibraryCodes(doing[t])) :
             /\ Meet(t, b, v)
             /\ code' = [code EXCEPT ![t] = v]
             /\ todo' = [todo EXCEPT ![t] = AfterCode(t, v)]
  BY <1>1 DEF TakeCode, At, Becomes
<1>2. PICK v \in Values(t, b, LibraryCodes(doing[t])) :
             /\ Meet(t, b, v)
             /\ code' = [code EXCEPT ![t] = v]
             /\ todo' = [todo EXCEPT ![t] = AfterCode(t, v)]
  BY <1>31
<1>3. /\ Measured(h) /\ Calls(h) /\ Logged(h) /\ Placed(h) /\ Recorded(h) BY DEF Follows
<1>32. Ierr \in Control /\ Ierr \notin {Outcount, Index, Msg}
  BY DEF Control, Ierr, Outcount, Index, Msg, INT
<1>4. PICK c \in Components : t \in Members(my_comm(c)) /\ Busy(t, c) BY <1>1, <1>31, <1>32, InSomeCall
<1>5. PlacedAt(h, t, c) BY <1>3, <1>4 DEF Placed
<1>6. PICK n, k : AtStep(h, t, c, n, k, b) BY <1>1, <1>31, <1>3, <1>4, <1>5, NextInCall
<1>7. PICK p, f, l : p = h.prog[c][n] /\ f = FullScript(h, c, n) /\ l = Len(Agreed(c, p)) OBVIOUS
<1>8. /\ n = h.num[t][c] /\ IsCall(h, c, n) /\ k \in Nat /\ InScript(h, t, c, k)
      /\ k + 1 \in 1 .. Len(f) /\ b = f[k + 1] /\ b \in Meetings /\ t \in Members(b.on)
      /\ h.pos[b.on][t] + 1 = Place(h, c, n, k + 1)
      /\ b.item \in DataItems \/ (Shared(p) /\ k + 1 = l)
  BY <1>6, <1>7 DEF AtStep
<1>9. /\ IsScript(c, p, l, f) /\ Programme(p) /\ p # <<>> /\ n \in Nat /\ n \in 0 .. h.last[c] /\ l \in Nat
      /\ h.cd[c][n] \in Codes \cup {"unknown"}
  BY <1>3, <1>7, <1>8, CallIs DEF IsCall
<1>10. Shared(p) /\ k + 1 = l /\ b = Bcast(my_comm(c), ioroot, Ierr) /\ b.on = my_comm(c) /\ b.root = ioroot
  <2>1. Shared(p) /\ k + 1 = l BY <1>8, <1>31, <1>32 DEF ProgramsFit
  <2>2. b = Bcast(my_comm(c), ioroot, Ierr) BY <2>1, <1>8, <1>9 DEF IsScript
  <2>. QED BY <2>1, <2>2 DEF Bcast
<1>11. InCallAt(h, t, c, n, p, k) BY <1>7, <1>8 DEF InScript
<1>12. code[t] = "unknown" /\ Informed(t, p, h.cd[c][n])
  <2>1. code[t] # "unknown" => l <= k BY <1>7, <1>10, <1>11 DEF InCallAt
  <2>. QED BY <2>1, <1>8, <1>9, <1>10, <1>11 DEF InCallAt
<1>13. doing[t].comp = c /\ Makes(t, p) /\ eh[t][c] = h.hand[c][n] BY <1>4, <1>5, <1>7, <1>8 DEF PlacedAt, Busy
\* The code, and what the history says of it.
<1>14. ASSUME t = ioroot
       PROVE  /\ v \in Codes /\ h.cd[c][n] = "unknown" /\ n = h.last[c]
              /\ v = "failed" => StepOf(p).msg \in Failing[h.hand[c][n]]
  <2>1. h.cd[c][n] = "unknown" BY <1>10, <1>12, <1>14 DEF Informed
  <2>2. n = h.last[c]
    <3>1. ASSUME n # h.last[c] PROVE FALSE
      <4>1. n \in 0 .. h.last[c] - 1 BY <3>1, <1>9, <1>3, Numbers
      <4>. QED BY <4>1, <2>1, <1>3, <1>7, <1>10 DEF Calls
    <3>. QED BY <3>1
  <2>3. v \in LibraryCodes(doing[t]) BY <1>10, <1>14 DEF Values
  <2>4. /\ v \in Codes
        /\ v = "failed" => doing[t].msg \in Failing[eh[ioroot][doing[t].comp]]
    BY <2>3 DEF LibraryCodes, Codes
  <2>5. doing[t].msg = StepOf(p).msg BY <1>13 DEF Makes
  <2>. QED BY <2>1, <2>2, <2>4, <2>5, <1>13, <1>14
<1>15. ASSUME t # ioroot
       PROVE  v = h.cd[c][n] /\ v \in Codes
  <2>1. PICK i : i = h.pos[b.on][t] OBVIOUS
  <2>2. v = h.log[b.on][i + 1].val /\ i < Top(h, b.on) BY <2>1, <1>3, <1>8, <1>10, <1>15, ReceivedIs
  <2>3. i + 1 = Place(h, c, n, k + 1) BY <2>1, <1>8
  <2>4. i \in Nat /\ Top(h, b.on) \in Nat
    <3>1. b.on \in Comms /\ t \in Tasks BY <1>10, CommsApart
    <3>. QED BY <3>1, <2>1, <1>3, Numbers
  <2>5. i + 1 <= Top(h, b.on) BY <2>2, <2>4
  <2>6. IsEntry(h.log[b.on][i + 1], b, h.cd[c][n])
    <3>0. f = FullScript(h, c, n) /\ p = h.prog[c][n] BY <1>7
    <3>4. k + 1 \in 1 .. Len(f) /\ f[k + 1] = b BY <1>8
    <3>1. n \in 0 .. h.last[c] /\ h.prog[c][n] # <<>> /\ k + 1 \in 1 .. Len(FullScript(h, c, n))
          /\ FullScript(h, c, n)[k + 1] = b
      BY <3>0, <3>4, <1>9
    <3>2. Place(h, c, n, k + 1) <= Top(h, b.on) BY <2>3, <2>5
    <3>3. IsEntry(h.log[b.on][Place(h, c, n, k + 1)], b, h.cd[c][n]) BY <3>1, <3>2, <1>3 DEF Recorded
    <3>. QED BY <3>3, <2>3
  <2>. QED BY <2>2, <2>6, <1>31 DEF IsEntry
<1>16. v \in Codes BY <1>14, <1>15
<1>33. v \in Vals /\ v # "unknown" BY <1>16 DEF Vals, Codes
<1>17. PICK cd : cd = [d \in Components |-> [m \in Nat |-> IF d = c /\ m = n THEN v ELSE h.cd[d][m]]]
  OBVIOUS
<1>18. cd[c][n] = v /\ \A d \in Components : \A m \in Nat : (d = c /\ m = n) \/ cd[d][m] = h.cd[d][m]
  BY <1>9, <1>17
<1>19. \A d \in Components : \A m \in 0 .. h.last[d] : m \in Nat /\ ((d = c /\ m = n) \/ cd[d][m] = h.cd[d][m])
  <2>1. \A d \in Components : \A m \in 0 .. h.last[d] : m \in Nat BY <1>3, Numbers
  <2>. QED BY <2>1, <1>18
\* The new history.
<1>34. bcasts' \in [Comms -> Seq(Packets)] /\ \E log, pos, low : Written(h, t, b, v, log, pos, low)
  BY <1>2, <1>3, <1>8, <1>33, MeetLogged
<1>35. PICK log, pos, low : Written(h, t, b, v, log, pos, low) BY <1>34
<1>36. PICK g : Like(h, g, log, pos, low, cd, h.loop) BY OtherHistory
<1>20. /\ g.log = log /\ g.pos = pos /\ g.low = low /\ g.cd = cd /\ g.loop = h.loop
       /\ CallsKept(h, g)
  BY <1>36 DEF Like
<1>21. Measured(g) /\ Logged(g)' /\ Met(h, g, t, b, v)
  BY <1>3, <1>20, <1>35, MeasuredToo DEF Written
<1>22. Calls(g) /\ Learned(h, g)
  <2>1. CASE t = ioroot
    <3>1. h.cd[c][n] = "unknown" /\ n = h.last[c] /\ Shared(h.prog[c][n])
          /\ (v = "failed" => StepOf(h.prog[c][n]).msg \in Failing[h.hand[c][n]])
      BY <2>1, <1>7, <1>10, <1>14
    <3>2. g.cd[c][n] = v /\ \A d \in Components : \A m \in 0 .. h.last[d] : (d = c /\ m = n) \/ g.cd[d][m] = h.cd[d][m]
      BY <1>18, <1>19, <1>20
    <3>. QED BY <3>1, <3>2, <1>3, <1>16, <1>20, CallsLearn
  <2>2. CASE t # ioroot
    <3>1. \A d \in Components : \A m \in 0 .. h.last[d] : g.cd[d][m] = h.cd[d][m]
      BY <2>2, <1>15, <1>18, <1>19, <1>20
    <3>2. Learned(h, g) BY <3>1 DEF Learned
    <3>3. Calls(g) BY <3>1, <1>3, <1>20, CallsAlike
    <3>. QED BY <3>2, <3>3
  <2>. QED BY <2>1, <2>2
<1>23. todo'[t] = AfterCode(t, v) /\ code'[t] = v /\ AfterCode(t, v) = Rest(c, p, v, h.hand[c][n])
  <2>1. todo'[t] = AfterCode(t, v) /\ code'[t] = v BY <1>2 DEF Shape
  <2>2. PICK e : e = h.hand[c][n] OBVIOUS
  <2>3. doing[t].comp = c /\ Makes(t, p) /\ eh[t][c] = e BY <2>2, <1>13
  <2>4. AfterCode(t, v) = Rest(c, p, v, e) BY <2>3, <1>16, AfterCodeIs
  <2>. QED BY <2>1, <2>2, <2>4
<1>24. Rest(c, p, v, h.hand[c][n]) \in Seq(Meetings) BY <1>9, RestIs
<1>25. InCallAt(g, t, c, n, p, k + 1)'
  <2>1. Abreast(g, t, c, n, k + 1) BY <1>3, <1>6, <1>20, <1>21, MetAbreast
  <2>2. l <= k + 1 BY <1>8, <1>10
  <2>3. g.hand = h.hand /\ g.cd[c][n] = v BY <1>18, <1>20 DEF CallsKept
  <2>4. PICK s, r : s = Script(c, p, v, h.hand[c][n]) /\ r = Rest(c, p, v, h.hand[c][n]) OBVIOUS
  <2>5. IsJoin(s, Agreed(c, p), r) BY <2>4, <1>9, ScriptIs
  <2>6. LeftOf(s, k + 1, r)
    <3>1. k + 1 \in Nat BY <1>8
    <3>. QED BY <3>1, <2>5, <1>7, <1>10 DEF LeftOf, IsJoin
  <2>7. Informed(t, p, v)' BY <1>10, <1>23, <1>33 DEF Informed
  <2>8. Known(p, code'[t]) = v BY <1>10, <1>23 DEF Known
  <2>. QED BY <2>1, <2>2, <2>3, <2>4, <2>6, <2>7, <2>8, <1>7, <1>23 DEF InCallAt
<1>26. PlacedAt(g, t, c)'
  <2>1. k + 1 \in Nat BY <1>8
  <2>. QED BY <2>1, <1>31, <1>4, <1>5, <1>7, <1>8, <1>20, <1>25, PlacedOn
<1>27. Shape'
  <2>1. todo' \in [Tasks -> Seq(Meetings)] BY <1>2, <1>23, <1>24 DEF Shape
  <2>2. code' \in [Tasks -> Codes \cup {"unknown"}] BY <1>2, <1>16 DEF Shape
  <2>. QED BY <2>1, <2>2, <1>31, <1>34 DEF Shape, loopVars
<1>28. IsNext(h, g, t, b, v)
  <2>1. /\ IsCall(g, c, n) /\ k + 1 \in 1 .. Len(FullScript(g, c, n)) /\ FullScript(g, c, n)[k + 1] = b
        /\ Place(g, c, n, k + 1) = Place(h, c, n, k + 1)
    BY <1>3, <1>7, <1>8, <1>20, <1>21, <1>22, LearnedCall
  <2>3. v = g.cd[c][n] /\ v \in Codes /\ b.item = Ierr BY <1>16, <1>18, <1>20, <1>31
  <2>4. h.pos[b.on][t] + 1 = Place(g, c, n, k + 1) BY <2>1, <1>8
  <2>2. Continues(h, g, t, b, v, c, n, k + 1) BY <2>1, <2>3, <2>4 DEF Continues
  <2>. QED BY <2>2 DEF IsNext
<1>29. \A u \in Tasks : u # t => todo'[u] = todo[u] /\ code'[u] = code[u] BY <1>2
<1>30. \A d \in Components : \A m \in 0 .. h.last[d] :
         g.cd[d][m] = h.cd[d][m] \/ (t = ioroot /\ d = c /\ m = h.num[t][c] /\ h.cd[d][m] = "unknown")
  BY <1>8, <1>14, <1>15, <1>18, <1>19, <1>20
<1>37. Follows(g)' /\ Batch'
  BY <1>31, <1>3, <1>4, <1>8, <1>10, <1>20, <1>21, <1>22, <1>26, <1>27, <1>28, <1>29, <1>30, MetInCall
<1>. QED BY <1>27, <1>37 DEF Kept

\* A step without a broadcast.
LEMMA NoBcast ==
  ASSUME NEW h, UNCHANGED bcasts
  PROVE  /\ Logged(h) => Logged(h)'
         /\ Recorded(h) => Recorded(h)'
         /\ Ahead(h) => Ahead(h)'
         /\ \A comm : Top(h, comm)' = Top(h, comm)
<1>1. \A comm : Top(h, comm)' = Top(h, comm) BY DEF Top
<1>2. Logged(h) => Logged(h)' BY DEF Logged
<1>3. Recorded(h) => Recorded(h)' BY <1>1 DEF Recorded
<1>4. Ahead(h) => Ahead(h)' BY <1>1 DEF Ahead
<1>. QED BY <1>1, <1>2, <1>3, <1>4

\* ioroot calls the library for a function that keeps the code to itself.
LEMMA OwnCodeKeeps ==
  ASSUME ProgramsFit, Shape, Batch, NEW h, Follows(h), NEW t \in Tasks, OwnCode(t)
  PROVE  Kept
<1>1. /\ t = ioroot /\ ~IsIdle(t) /\ todo[t] = <<>> /\ doing[t].agree = "local" /\ code[t] = "unknown"
      /\ UNCHANGED <<program, doing, eh, done, bcasts, loopVars>>
      /\ \E v \in LibraryCodes(doing[t]) :
          /\ code' = [code EXCEPT ![t] = v]
          /\ todo' = [todo EXCEPT ![t] = IF v = "ok" THEN <<>> ELSE check_netcdf(t, doing[t].comp)]
  BY DEF OwnCode, Becomes
<1>2. PICK v \in LibraryCodes(doing[t]) :
          /\ code' = [code EXCEPT ![t] = v]
          /\ todo' = [todo EXCEPT ![t] = IF v = "ok" THEN <<>> ELSE check_netcdf(t, doing[t].comp)]
  BY <1>1
<1>3. /\ Measured(h) /\ Calls(h) /\ Logged(h) /\ Placed(h) /\ Recorded(h) /\ Ahead(h) BY DEF Follows
<1>4. PICK c \in Components : t \in Members(my_comm(c)) /\ Busy(t, c) BY <1>1, InSomeCall
<1>5. PlacedAt(h, t, c) BY <1>3, <1>4 DEF Placed
<1>6. PICK n, p : n = h.num[t][c] /\ p = h.prog[c][n] OBVIOUS
<1>7. n \in 0 .. h.last[c] /\ Makes(t, p) /\ eh[t][c] = h.hand[c][n] /\ doing[t].comp = c
  BY <1>4, <1>5, <1>6 DEF PlacedAt, Busy
<1>8. PICK k \in Nat : InScript(h, t, c, k) BY <1>4, <1>5 DEF PlacedAt
<1>9. InCallAt(h, t, c, n, p, k) BY <1>6, <1>8 DEF InScript
<1>10. p # <<>> /\ CallAt(p).agree = "local" /\ doing[t].msg = StepOf(p).msg BY <1>1, <1>7 DEF Makes
<1>11. ~Shared(p) BY <1>10 DEF Shared, Shares
<1>12. v = "ok"
  <2>1. IsCall(h, c, n) BY <1>6, <1>7, <1>10 DEF IsCall
  <2>2. Programme(p) BY <2>1, <1>3, <1>6, CallIs
  <2>3. FailureShared(StepOf(p)) BY <2>2, <1>10, StepFits
  <2>4. CallFor(StepOf(p)).agree = "local" BY <1>10 DEF CallAt
  <2>5. StepOf(p).msg \notin Failing["bcast"] /\ StepOf(p).msg \notin Failing["return"]
    BY <2>3, <2>4 DEF FailureShared
  <2>6. eh[t][c] \in {"bcast", "return"} BY DEF Shape
  <2>. QED BY <2>5, <2>6, <1>1, <1>2, <1>7, <1>10 DEF LibraryCodes
<1>13. todo' = todo /\ code'[t] = "ok" BY <1>1, <1>2, <1>12 DEF Shape
<1>14. Shape'
  <2>1. code' \in [Tasks -> Codes \cup {"unknown"}] BY <1>2, <1>12 DEF Shape, Codes
  <2>. QED BY <2>1, <1>1, <1>13 DEF Shape, loopVars
<1>15. InCallAt(h, t, c, n, p, k)'
  <2>1. Known(p, code'[t]) = Known(p, code[t]) BY <1>11 DEF Known
  <2>2. Informed(t, p, h.cd[c][n])' BY <1>1, <1>10, <1>11, <1>13 DEF Informed
  <2>. QED BY <2>1, <2>2, <1>9, <1>11, <1>13 DEF InCallAt
<1>16. CallsKept(h, h) /\ Learned(h, h) BY DEF CallsKept, Learned
<1>17. PlacedAt(h, t, c)' BY <1>1, <1>4, <1>5, <1>6, <1>15, <1>16, PlacedOn
<1>18. /\ Logged(h)' /\ Recorded(h)' /\ Ahead(h)' /\ Top(h, io_comm)' = Top(h, io_comm)
  BY <1>1, <1>3, NoBcast
<1>19. \A u \in Tasks : u # t => todo'[u] = todo[u] /\ code'[u] = code[u] BY <1>2
<1>20. Follows(h)' /\ Batch'
  BY <1>1, <1>3, <1>4, <1>14, <1>16, <1>17, <1>18, <1>19, CallGoesOn
<1>. QED BY <1>14, <1>20 DEF Kept

\* A task that does not step, for a history that says the same of it.
LEMMA SameStays ==
  ASSUME NEW h, Measured(h), NEW c \in Components, NEW u \in Tasks, PlacedAt(h, u, c), Untouched(u)
  PROVE  PlacedAt(h, u, c)'
<1>1. h.last[c] \in Nat BY Numbers
<1>2. SameFor(h, h, u, c) BY <1>1 DEF SameFor
<1>. QED BY <1>2, StaysPlaced

\* The first broadcasts of a call, for a task that begins it.
LEMMA StartsScript ==
  ASSUME ProgramsFit, NEW p, Programme(p), p # <<>>, NEW c \in Components, NEW e, NEW root \in BOOLEAN,
         NEW k, k = (IF root THEN 0 ELSE Params(p)), NEW x, x = Exchanges(c, When(root, CallAt(p).params), CallAt(p))
  PROVE  /\ x \in Seq(Meetings) /\ x # <<>> /\ k \in Nat
         /\ LeftOf(Script(c, p, "unknown", e), k, x)
<1>. DEFINE a == Agreed(c, p)
<1>1. a \in Seq(Meetings) /\ Params(p) < Len(a) /\ Exchanges(c, <<>>, CallAt(p)) = SubSeq(a, Params(p) + 1, Len(a))
  BY AgreedIs
<1>2. Params(p) \in Nat /\ Len(a) \in Nat BY <1>1, CallFits
<1>3. Script(c, p, "unknown", e) = a BY ScriptIs
<1>. HIDE DEF a
<1>4. CASE root
  <2>1. x = a BY <1>4 DEF When, Agreed, a
  <2>2. LeftOf(a, 0, a) BY <1>2 DEF LeftOf
  <2>3. a # <<>> BY <1>1, <1>2
  <2>. QED BY <2>1, <2>2, <2>3, <1>1, <1>3, <1>4
<1>5. CASE ~root
  <2>0. PICK P : P = Params(p) OBVIOUS
  <2>. DEFINE y == SubSeq(a, P + 1, Len(a))
  <2>1. x = y /\ k = P BY <2>0, <1>1, <1>5 DEF When
  <2>5. a \in Seq(Meetings) /\ P \in Nat /\ Len(a) \in Nat /\ P < Len(a) BY <2>0, <1>1, <1>2
  <2>6. y \in Seq(Meetings) /\ Len(y) = Len(a) - P BY <2>5
  <2>7. \A i \in 1 .. Len(a) - P : y[i] = a[P + i] BY <2>5
  <2>2. y \in Seq(Meetings) /\ Len(y) = Len(a) - P /\ \A i \in 1 .. Len(y) : y[i] = a[P + i]
    BY <2>6, <2>7
  <2>. HIDE DEF y
  <2>3. y # <<>> /\ Len(a) = P + Len(y) /\ P \in Nat BY <2>2, <2>5
  <2>4. LeftOf(a, P, y) BY <2>2, <2>3 DEF LeftOf
  <2>. QED BY <2>1, <2>2, <2>3, <2>4, <1>3
<1>. QED BY <1>4, <1>5

LEMMA BeginKeeps ==
  ASSUME ProgramsFit, Shape, Batch, NEW h, Follows(h), NEW t \in Callers, Begin(t)
  PROVE  Kept
<1>1. PICK c, p, k : /\ c = t[1] /\ p = program[t]
                     /\ k = IF t = comproot(c) THEN 0 ELSE Params(p)
  OBVIOUS
<1>2. /\ p # <<>> /\ IsIdle(t) /\ todo[t] = <<>>
      /\ doing' = [doing EXCEPT ![t] = Doing(c, StepOf(p).msg, StepOf(p).given, StepOf(p).onfail, CallAt(p))]
      /\ todo' = [todo EXCEPT ![t] = Exchanges(c, When(t = comproot(c), CallAt(p).params), CallAt(p))]
      /\ inbox' = IF t = comproot(c) THEN [inbox EXCEPT ![c] = Append(@, CallMessage(p))] ELSE inbox
      /\ UNCHANGED <<program, code, eh, done, bcasts, listening, index, messages, outcount, openComps, running>>
  BY <1>1 DEF Begin, Becomes, StepOf, CallAt, CallFor, CallMessage
<1>3. /\ Measured(h) /\ Calls(h) /\ Logged(h) /\ Recorded(h) /\ Ahead(h) /\ Placed(h) /\ Undecided(h)
      /\ Calling(h) /\ Looped(h) /\ Serving(h) /\ Carried(h) /\ Remembered(h)
  BY DEF Follows
<1>4. c \in Components /\ t \in CompTasks(c) /\ t \in Tasks /\ t \in Members(my_comm(c)) /\ t \notin IOTasks
  BY <1>1, TasksApart, MembersOf
<1>5. PICK n : n = h.num[t][c] OBVIOUS
<1>6. PlacedAt(h, t, c) /\ CallingAt(h, t, c) /\ ~Busy(t, c) BY <1>2, <1>3, <1>4 DEF Placed, Calling, Busy
<1>7. /\ n \in 0 .. h.last[c] /\ eh[t][c] = h.hand[c][n] /\ AtRest(h, t, c)
      /\ p = h.prog[c][n] /\ code[t] = "unknown"
  <2>1. n \in 0 .. h.last[c] /\ eh[t][c] = h.hand[c][n] /\ AtRest(h, t, c) BY <1>5, <1>6 DEF PlacedAt
  <2>2. program[t] = h.prog[c][n] /\ (IsIdle(t) => code[t] = "unknown") BY <1>5, <1>6 DEF CallingAt
  <2>. QED BY <2>1, <2>2, <1>1, <1>2
<1>8. IsCall(h, c, n) BY <1>2, <1>7 DEF IsCall
<1>9. Programme(p) /\ Params(p) \in Nat /\ h.sp[c][n] \in Nat /\ h.st[c][n] \in Nat
  BY <1>3, <1>4, <1>7, <1>8, CallIs
<1>10. StepOf(p) \in AllSteps /\ WellFormed(StepOf(p)) BY <1>2, <1>9, StepFits
<1>11. PICK x : x = Exchanges(c, When(t = comproot(c), CallAt(p).params), CallAt(p)) OBVIOUS
<1>12. x \in Seq(Meetings) /\ x # <<>> /\ k \in Nat /\ LeftOf(Script(c, p, "unknown", h.hand[c][n]), k, x)
  <2>1. PICK r \in BOOLEAN : r = (t = comproot(c)) OBVIOUS
  <2>2. k = IF r THEN 0 ELSE Params(p) BY <2>1, <1>1
  <2>3. x = Exchanges(c, When(r, CallAt(p).params), CallAt(p)) BY <2>1, <1>11
  <2>. QED BY <2>2, <2>3, <1>2, <1>4, <1>9, StartsScript
<1>13. todo'[t] = x /\ code'[t] = "unknown" BY <1>2, <1>4, <1>7, <1>11 DEF Shape
<1>14. /\ doing'[t].comp = c /\ doing'[t].msg = StepOf(p).msg /\ doing'[t].given = StepOf(p).given
       /\ doing'[t].agree = CallAt(p).agree /\ doing'[t].results = CallAt(p).results
       /\ doing'[t].onfail = StepOf(p).onfail
  BY <1>2, <1>4 DEF Shape, Doing
<1>15. Busy(t, c)' /\ ~IsIdle(t)' BY <1>10, <1>14 DEF Busy, IsIdle, WellFormed
<1>16. \A u \in Tasks : u # t => Untouched(u) BY <1>2 DEF Untouched
<1>17. \A u \in Tasks : u # t => (IsIdle(u)' <=> IsIdle(u)) BY <1>16 DEF Untouched, IsIdle
<1>18. CallMessage(p) \in Requests BY <1>10 DEF Requests, CallMessage
<1>19. Shape'
  <2>1. todo' \in [Tasks -> Seq(Meetings)] BY <1>2, <1>11, <1>12 DEF Shape
  <2>2. inbox' \in [Components -> Seq(Requests)]
    <3>1. Append(inbox[c], CallMessage(p)) \in Seq(Requests) BY <1>4, <1>18 DEF Shape
    <3>. QED BY <3>1, <1>2 DEF Shape
  <2>3. DOMAIN doing' = Tasks BY <1>2 DEF Shape
  <2>. QED BY <2>1, <2>2, <2>3, <1>2 DEF Shape
<1>20. Logged(h)' /\ Recorded(h)' /\ Ahead(h)' /\ \A comm : Top(h, comm)' = Top(h, comm)
  BY <1>2, <1>3, NoBcast
<1>21. PlacedAt(h, t, c)'
  <2>1. Abreast(h, t, c, n, k)
    <3>1. h.pos[my_comm(c)][t] = h.st[c][n] /\ (t \in Members(intercomm(c)) => h.pos[intercomm(c)][t] = h.sp[c][n])
      BY <1>5, <1>7 DEF AtRest
    <3>2. t \in Members(intercomm(c)) <=> t = comproot(c) BY <1>4, MembersOf
    <3>3. PICK P : P = Params(p) OBVIOUS
    <3>4. P \in Nat /\ h.sp[c][n] \in Nat /\ h.st[c][n] \in Nat BY <3>3, <1>9
    <3>5. /\ h.pos[my_comm(c)][t] = h.st[c][n] + (IF k <= P THEN 0 ELSE k - P)
          /\ t \in Members(intercomm(c)) => h.pos[intercomm(c)][t] = h.sp[c][n] + (IF k <= P THEN k ELSE P)
          /\ t \notin Members(intercomm(c)) => P <= k
      <4>1. CASE t = comproot(c)
        <5>1. k = 0 BY <4>1, <1>1
        <5>2. k <= P BY <5>1, <3>4
        <5>. QED BY <5>1, <5>2, <4>1, <3>1, <3>2, <3>4
      <4>2. CASE t # comproot(c)
        <5>1. k = P BY <4>2, <3>3, <1>1
        <5>2. k <= P /\ P <= k BY <5>1, <3>4
        <5>. QED BY <5>1, <5>2, <4>2, <3>1, <3>2, <3>4
      <4>. QED BY <4>1, <4>2
    <3>. QED BY <3>3, <3>5, <1>7 DEF Abreast
  <2>2. Informed(t, p, h.cd[c][n])'
    <3>1. t # ioroot BY <1>4, TasksApart
    <3>. QED BY <3>1, <1>12, <1>13 DEF Informed
  <2>3. Known(p, "unknown") = "unknown" BY DEF Known
  <2>4. InCallAt(h, t, c, n, p, k)' BY <2>1, <2>2, <2>3, <1>12, <1>13 DEF InCallAt
  <2>5. InScript(h, t, c, k)' BY <2>4, <1>5, <1>7 DEF InScript
  <2>6. Makes(t, p)' BY <1>2, <1>14 DEF Makes
  <2>7. Makes(t, h.prog[c][n])' BY <2>6, <1>7
  <2>8. \E j \in Nat : InScript(h, t, c, j)' BY <2>5, <1>12
  <2>9. n \in 0 .. h.last[c] /\ eh'[t][c] = h.hand[c][n] BY <1>2, <1>7
  <2>. QED BY <2>7, <2>8, <2>9, <1>5, <1>15 DEF PlacedAt
<1>22. Placed(h)'
  <2>. SUFFICES ASSUME NEW d \in Components, NEW u \in Members(my_comm(d)) PROVE PlacedAt(h, u, d)'
    BY MembersOf DEF Placed
  <2>1. u \in Tasks /\ PlacedAt(h, u, d) BY <1>3, MembersAreTasks, CommsApart DEF Placed
  <2>2. CASE u # t BY <2>1, <2>2, <1>3, <1>16, SameStays
  <2>3. CASE u = t
    <3>1. d = c BY <2>3, <1>1, <1>4, MembersOf, TasksApart
    <3>. QED BY <2>3, <3>1, <1>21
  <2>. QED BY <2>2, <2>3
<1>23. \A u \in IOTasks : u \in Tasks /\ u # t BY <1>4, TasksApart
<1>24. Undecided(h)'
  <2>1. \A d : Busy(ioroot, d)' <=> Busy(ioroot, d) BY <1>16, <1>17, <1>23, TasksApart DEF Busy, Untouched
  <2>. QED BY <2>1, <1>3 DEF Undecided
<1>25. Calling(h)'
  <2>. SUFFICES ASSUME NEW d \in Components, NEW u \in CompTasks(d) PROVE CallingAt(h, u, d)'
    BY DEF Calling
  <2>1. u \in Tasks /\ CallingAt(h, u, d) BY <1>3, TasksApart DEF Calling
  <2>2. CASE u # t BY <2>1, <2>2, <1>2, <1>16, <1>17 DEF CallingAt, Untouched
  <2>3. CASE u = t
    <3>1. d = c BY <2>3, <1>1, TasksApart
    <3>2. program'[t] = p BY <1>1, <1>2
    <3>. QED BY <2>3, <3>1, <3>2, <1>5, <1>7, <1>14, <1>15 DEF CallingAt
  <2>. QED BY <2>2, <2>3
<1>26. Looped(h)' BY <1>3, <1>20, StaysLooped
<1>27. Serving(h)'
  <2>. SUFFICES ASSUME NEW u \in IOTasks PROVE ServingAt(h, u)'
    BY DEF Serving
  <2>1. ServingAt(h, u) BY <1>3 DEF Serving
  <2>. QED BY <2>1, <1>2, <1>16, <1>23, StaysServing DEF Untouched
<1>28. Carried(h)'
  <2>. SUFFICES ASSUME NEW d \in Components, NEW m, m = h.num[ioroot][d] PROVE CarriedAt(h, d, m)'
    BY DEF Carried
  <2>1. CarriedAt(h, d, m) BY <1>3 DEF Carried
  <2>2. TakenUp' = TakenUp BY <1>2 DEF TakenUp
  <2>3. m \in Nat BY <1>3, TasksApart, Numbers
  <2>4. CASE comproot(d) # t
    <3>1. inbox'[d] = inbox[d]
      <4>1. d # c \/ t # comproot(c) BY <2>4
      <4>. QED BY <4>1, <1>2 DEF Shape
    <3>2. Begun(h, d)' = Begun(h, d)
      <4>1. comproot(d) \in Tasks BY TasksApart
      <4>2. IsIdle(comproot(d))' <=> IsIdle(comproot(d)) BY <4>1, <2>4, <1>17
      <4>. QED BY <4>2 DEF Begun
    <3>3. \A i : OnTheWay(h, d, i)' <=> OnTheWay(h, d, i) BY <3>1, <3>2 DEF OnTheWay
    <3>. QED BY <3>2, <3>3, <2>1, <2>2, <1>2 DEF CarriedAt
  <2>5. CASE comproot(d) = t
    <3>1. d = c BY <2>5, <1>1, TasksApart
    <3>2. Begun(h, c) = n /\ Begun(h, c)' = n + 1
      <4>1. n \in Nat BY <1>3, <1>8, <1>4, CallIs
      <4>. QED BY <4>1, <3>1, <2>5, <1>2, <1>5, <1>15 DEF Begun
    <3>3. inbox'[c] = Append(inbox[c], CallMessage(p)) /\ inbox[c] \in Seq(Requests)
      BY <3>1, <2>5, <1>2, <1>4 DEF Shape
    <3>4. ASSUME NEW i \in Nat, OnTheWay(h, c, i) PROVE OnTheWay(h, c, i)'
      <4>. DEFINE y == inbox[c]
                  z == Append(y, CallMessage(p))
      <4>1. Len(y) = n - i /\ \A j \in 1 .. Len(y) : y[j] = CallMessage(h.prog[c][i + j - 1])
        BY <3>2, <3>4 DEF OnTheWay
      <4>2. /\ Len(z) = Len(y) + 1 /\ Len(y) \in Nat /\ z[Len(y) + 1] = CallMessage(p)
            /\ \A j \in 1 .. Len(y) : z[j] = y[j]
        BY <3>3, <1>18
      <4>3. n \in Nat BY <1>3, <1>8, <1>4, CallIs
      <4>. HIDE DEF y, z
      <4>4. Len(z) = (n + 1) - i BY <4>1, <4>2, <4>3
      <4>5. ASSUME NEW j \in 1 .. Len(z) PROVE z[j] = CallMessage(h.prog[c][i + j - 1])
        <5>1. j \in 1 .. Len(y) \/ j = Len(y) + 1 BY <4>2
        <5>2. CASE j \in 1 .. Len(y) BY <5>2, <4>1, <4>2
        <5>3. CASE j = Len(y) + 1
          <6>1. i + j - 1 = n BY <5>3, <4>1, <4>2, <4>3
          <6>. QED BY <6>1, <5>3, <4>2, <1>7
        <5>. QED BY <5>1, <5>2, <5>3
      <4>6. inbox'[c] = z BY <3>3 DEF z, y
      <4>. QED BY <4>4, <4>5, <4>6, <3>2 DEF OnTheWay
    <3>5. m + 1 \in Nat /\ (m < n => m < n + 1) BY <2>3, <1>3, <1>8, <1>4, CallIs
    <3>. QED BY <2>1, <2>2, <2>3, <3>1, <3>2, <3>4, <3>5, <1>2 DEF CarriedAt
  <2>. QED BY <2>4, <2>5
<1>29. CallsKept(h, h) /\ Learned(h, h) BY DEF CallsKept, Learned
<1>30. \A d \in Components : \A u \in Members(my_comm(d)) : u \in Tasks /\ h.num[u][d] <= h.last[d]
  <2>1. \A d \in Components : \A u \in Members(my_comm(d)) : u \in Tasks BY MembersAreTasks, CommsApart
  <2>2. ASSUME NEW d \in Components, NEW u \in Members(my_comm(d)) PROVE h.num[u][d] <= h.last[d]
    <3>1. h.num[u][d] \in 0 .. h.last[d] BY <1>3 DEF Placed, PlacedAt
    <3>2. h.last[d] \in Nat BY <1>3, Numbers
    <3>. QED BY <3>1, <3>2
  <2>. QED BY <2>1, <2>2
<1>31. Remembered(h)'
  <2>1. ASSUME NEW d \in Components, NEW u \in Members(my_comm(d)) PROVE Recalled(h, u, d)'
    <3>1. Recalled(h, u, d) BY <1>3 DEF Remembered
    <3>. QED BY <3>1, <1>2, <1>3, <1>29, <1>30, StaysRecalled
  <2>2. ASSUME NEW u \in IOTasks PROVE HasServed(h, u, Reached(h, u).served)'
    <3>1. PICK s : s = Reached(h, u).served OBVIOUS
    <3>2. HasServed(h, u, s) BY <3>1, <1>3 DEF Remembered
    <3>3. \A d \in Components : h.num[u][d] <= h.last[d] BY <1>30, MembersOf
    <3>4. HasServed(h, u, s)' BY <3>2, <3>3, <1>2, <1>3, <1>17, <1>23, <1>29, StaysServed
    <3>5. (Reached(h, u).served)' = s BY <3>1 DEF Reached
    <3>. QED BY <3>4, <3>5
  <2>. QED BY <2>1, <2>2, MembersOf DEF Remembered
<1>32. Batch'
  <2>1. doing'[ioroot] = doing[ioroot] /\ todo'[ioroot] = todo[ioroot]
    BY <1>16, <1>23, TasksApart DEF Untouched
  <2>. QED BY <2>1, <1>2 DEF Batch, TakenUp, IsIdle
<1>33. Follows(h)'
  BY <1>3, <1>20, <1>22, <1>24, <1>25, <1>26, <1>27, <1>28, <1>31 DEF Follows
<1>. QED BY <1>19, <1>32, <1>33 DEF Kept

-----------------------------------------------------------------------------
(* A step of the message loop.                                             *)

LEMMA BeginsAll ==
  ASSUME NEW T, NEW x \in Seq(T), NEW y \in Seq(T), NEW z \in Seq(T), Begins(x, y), Begins(y, z)
  PROVE  Begins(x, z)
<1>1. Len(x) \in Nat /\ Len(y) \in Nat /\ Len(z) \in Nat OBVIOUS
<1>2. Len(x) <= Len(y) /\ Len(y) <= Len(z) BY DEF Begins
<1>3. ASSUME NEW i \in 1 .. Len(x) PROVE x[i] = z[i]
  <2>1. i \in 1 .. Len(y) BY <1>1, <1>2
  <2>. QED BY <2>1 DEF Begins
<1>4. Len(x) <= Len(z) BY <1>1, <1>2
<1>. QED BY <1>3, <1>4 DEF Begins

LEMMA LoopStepSame ==
  ASSUME NEW h, NEW g, g.prog = h.prog, g.last = h.last, NEW s, NEW e, NEW r, LoopStep(h, s, e, r)
  PROVE  LoopStep(g, s, e, r)
BY DEF LoopStep

\* What a broadcast of io_comm brings has been asked for by ioroot.
LEMMA LoopRead ==
  ASSUME Shape, NEW h, Follows(h), NEW t \in IOTasks, t # ioroot, NEW b, b.on = io_comm, b.root = ioroot,
         NEW v, NEW g, Met(h, g, t, b, v), NEW q, q = h.pos[io_comm][t], NEW s, s = Reached(h, t),
         NEW r, r = h.loop[q + 1]
  PROVE  /\ LoopStep(h, s, LogItem(ioroot, b.item, v), r) /\ Sound(r) /\ Begins(s.served, r.served)
         /\ q + 1 \in 0 .. Top(h, io_comm)
<1>1. q \in 0 .. Top(h, io_comm) /\ Top(h, io_comm) \in Nat /\ q < Top(h, io_comm)
  BY InTheLoop DEF Met
<1>2. q + 1 \in 0 .. Top(h, io_comm) /\ q \in 0 .. Top(h, io_comm) - 1 /\ q + 1 \in 1 .. Top(h, io_comm) /\ q <= q + 1
  BY <1>1
<1>3. Looped(h) BY DEF Follows
<1>4. s = h.loop[q] BY DEF Reached
<1>5. PICK e : e = h.log[io_comm][q + 1] OBVIOUS
<1>6. LoopStep(h, s, e, r) /\ Sound(r) /\ Begins(s.served, r.served)
  <2>1. /\ \A i \in 0 .. Top(h, io_comm) : Sound(h.loop[i])
        /\ \A i \in 0 .. Top(h, io_comm) - 1 : LoopStep(h, h.loop[i], h.log[io_comm][i + 1], h.loop[i + 1])
        /\ \A i, j \in 0 .. Top(h, io_comm) : i <= j => Begins(h.loop[i].served, h.loop[j].served)
    BY <1>3 DEF Looped
  <2>2. Sound(r) BY <1>2, <2>1
  <2>3. LoopStep(h, s, e, r) BY <1>2, <1>4, <1>5, <2>1
  <2>4. Begins(s.served, r.served) BY <1>2, <1>1, <1>4, <2>1
  <2>. QED BY <2>2, <2>3, <2>4
<1>7. e = g.log[io_comm][q + 1] BY <1>2, <1>5, CommsApart DEF Met
<1>8. e.item = b.item /\ e.val = v BY <1>7 DEF Met
<1>9. PICK i : i = LogItem(ioroot, b.item, v) OBVIOUS
<1>10. i.root = ioroot /\ i.item = b.item /\ i.val = v BY <1>9 DEF LogItem
<1>11. LoopStep(h, s, i, r) BY <1>6, <1>8, <1>10 DEF LoopStep
<1>. QED BY <1>2, <1>6, <1>9, <1>11

\* An I/O task takes part in a broadcast of io_comm.
LEMMA LoopGoesOn ==
  ASSUME ProgramsFit, Shape, Shape', NEW h, Follows(h), NEW t \in IOTasks, IsIdle(t),
         NEW g, Measured(g), Logged(g)', CallsKept(h, g), g.cd = h.cd,
         NEW b \in Meetings, b.on = io_comm, b.root = ioroot, NEW v, Met(h, g, t, b, v),
         NEW q, q = h.pos[io_comm][t], NEW s, s = Reached(h, t),
         NEW r, Sound(r), Begins(s.served, r.served), LoopStep(h, s, LogItem(ioroot, b.item, v), r),
         \A i \in 0 .. Top(h, io_comm) : g.loop[i] = h.loop[i], g.loop[q + 1] = r,
         UNCHANGED <<program, eh, done, inbox, listening, index, messages>>,
         \A u \in Tasks : u # t => Untouched(u),
         \A u \in IOTasks : u # t => /\ outcount'[u] = outcount[u] /\ openComps'[u] = openComps[u]
                                     /\ u \in running' <=> u \in running,
         \A c \in Components : PlacedAt(g, t, c)',
         ServingAt(g, t)', HasServed(g, t, r.served)'
  PROVE  Follows(g)'
<1>1. /\ Measured(h) /\ Calls(h) /\ Logged(h) /\ Recorded(h) /\ Ahead(h) /\ Placed(h) /\ Undecided(h)
      /\ Calling(h) /\ Looped(h) /\ Serving(h) /\ Carried(h) /\ Remembered(h)
  BY DEF Follows
<1>2. /\ g.prog = h.prog /\ g.hand = h.hand /\ g.sp = h.sp /\ g.st = h.st /\ g.last = h.last /\ g.num = h.num
  BY DEF CallsKept
<1>3. t \in Tasks /\ ioroot \in IOTasks /\ ioroot \in Tasks BY TasksApart
<1>4. Calls(g) /\ Learned(h, g) BY <1>1, CallsSame DEF Learned, CallsKept
<1>5. Recorded(g)' /\ Ahead(g)'
  <2>1. IsNext(h, g, t, b, v) BY DEF IsNext
  <2>. QED BY <2>1, <1>1, <1>3, <1>4, MetRecorded
<1>6. \A comm \in Comms : \A u \in Tasks :
        g.pos[comm][u] = IF comm = io_comm /\ u = t THEN h.pos[comm][u] + 1 ELSE h.pos[comm][u]
  BY DEF Met
<1>7. /\ \A d \in Components : intercomm(d) \in Comms /\ my_comm(d) \in Comms
                               /\ intercomm(d) # io_comm /\ my_comm(d) # io_comm
      /\ io_comm \in Comms
  BY CommsApart
<1>8. \A d \in Components : \A u \in Members(my_comm(d)) : u \in Tasks /\ h.num[u][d] <= h.last[d]
  <2>1. \A d \in Components : \A u \in Members(my_comm(d)) : u \in Tasks BY MembersAreTasks, CommsApart
  <2>2. ASSUME NEW d \in Components, NEW u \in Members(my_comm(d)) PROVE h.num[u][d] <= h.last[d]
    <3>1. h.num[u][d] \in 0 .. h.last[d] BY <1>1 DEF Placed, PlacedAt
    <3>2. h.last[d] \in Nat BY <1>1, Numbers
    <3>. QED BY <3>1, <3>2
  <2>. QED BY <2>1, <2>2
<1>9. \A u \in Tasks : u # t => (IsIdle(u)' <=> IsIdle(u)) BY DEF Untouched, IsIdle
<1>10. Placed(g)'
  <2>. SUFFICES ASSUME NEW d \in Components, NEW u \in Members(my_comm(d)), u # t PROVE PlacedAt(g, u, d)'
    BY MembersOf DEF Placed
  <2>1. u \in Tasks /\ PlacedAt(h, u, d) /\ h.last[d] <= g.last[d]
    BY <1>1, <1>2, <1>8, Numbers DEF Placed
  <2>2. g.pos[my_comm(d)][u] = h.pos[my_comm(d)][u] /\ g.pos[intercomm(d)][u] = h.pos[intercomm(d)][u]
    BY <2>1, <1>6, <1>7
  <2>3. SameFor(h, g, u, d) BY <2>1, <2>2, <1>2 DEF SameFor
  <2>. QED BY <2>1, <2>3, <1>1, StaysPlaced
<1>11. Undecided(g)'
  <2>1. \A d \in Components : Busy(ioroot, d) => Busy(ioroot, d)'
    BY <1>3, <1>9 DEF Busy, Untouched
  <2>. QED BY <2>1, <1>1, <1>2 DEF Undecided
<1>12. \A d \in Components : \A u \in CompTasks(d) : u \in Tasks /\ u # t
  BY TasksApart
<1>13. Calling(g)'
  <2>. SUFFICES ASSUME NEW d \in Components, NEW u \in CompTasks(d) PROVE CallingAt(g, u, d)'
    BY DEF Calling
  <2>1. CallingAt(h, u, d) /\ Untouched(u) BY <1>1, <1>12 DEF Calling
  <2>2. IsIdle(u)' <=> IsIdle(u) BY <1>9, <1>12
  <2>. QED BY <2>1, <2>2, <1>2 DEF CallingAt, Untouched
<1>14. /\ q \in 0 .. Top(h, io_comm) /\ Top(h, io_comm) \in Nat /\ s = h.loop[q]
  BY InTheLoop DEF Reached
<1>15. \/ Top(g, io_comm)' = Top(h, io_comm)
       \/ Top(g, io_comm)' = Top(h, io_comm) + 1 /\ q = Top(h, io_comm)
  BY DEF Met
<1>16. Looped(g)'
  <2>1. CASE Top(g, io_comm)' = Top(h, io_comm)
    <3>1. PICK top : top = Top(h, io_comm) OBVIOUS
    <3>2. top \in Nat /\ Top(g, io_comm)' = top BY <3>1, <2>1, <1>14
    <3>3. \A i \in 0 .. top : g.loop[i] = h.loop[i] BY <3>1
    <3>4. g.loop[0] = LoopStart BY <3>2, <3>3, <1>1 DEF Looped
    <3>5. \A i \in 0 .. top : Sound(g.loop[i]) BY <3>1, <3>3, <1>1 DEF Looped
    <3>6. \A i, j \in 0 .. top : i <= j => Begins(g.loop[i].served, g.loop[j].served)
      BY <3>1, <3>3, <1>1 DEF Looped
    <3>7. ASSUME NEW i \in 0 .. top - 1 PROVE LoopStep(g, g.loop[i], g.log[io_comm][i + 1], g.loop[i + 1])
      <4>1. i \in 0 .. top /\ i + 1 \in 0 .. top /\ i + 1 \in 1 .. top BY <3>2
      <4>2. LoopStep(h, h.loop[i], h.log[io_comm][i + 1], h.loop[i + 1]) BY <3>1, <1>1 DEF Looped
      <4>3. g.log[io_comm][i + 1] = h.log[io_comm][i + 1] BY <4>1, <3>1, <1>7 DEF Met
      <4>4. g.loop[i] = h.loop[i] /\ g.loop[i + 1] = h.loop[i + 1] BY <4>1, <3>3
      <4>5. PICK x, e, y : x = g.loop[i] /\ e = g.log[io_comm][i + 1] /\ y = g.loop[i + 1] OBVIOUS
      <4>6. LoopStep(g, x, e, y) BY <4>2, <4>3, <4>4, <4>5, <1>2, LoopStepSame
      <4>. QED BY <4>5, <4>6
    <3>. QED BY <3>2, <3>4, <3>5, <3>6, <3>7 DEF Looped
  <2>2. CASE Top(g, io_comm)' = Top(h, io_comm) + 1 /\ q = Top(h, io_comm)
    <3>2. q \in Nat /\ Top(g, io_comm)' = q + 1 BY <2>2, <1>14
    <3>3. (\A i \in 0 .. q : g.loop[i] = h.loop[i]) /\ g.loop[q + 1] = r BY <2>2
    <3>4. g.loop[0] = LoopStart BY <3>2, <3>3, <1>1 DEF Looped
    <3>5. ASSUME NEW i \in 0 .. q + 1 PROVE Sound(g.loop[i])
      <4>1. CASE i = q + 1 BY <4>1, <3>3
      <4>2. CASE i # q + 1
        <5>1. i \in 0 .. q BY <4>2, <3>2
        <5>. QED BY <5>1, <2>2, <3>3, <1>1 DEF Looped
      <4>. QED BY <4>1, <4>2
    <3>6. \A i \in 0 .. q + 1 : g.loop[i].served \in Seq(Components \X Nat) BY <3>5 DEF Sound, LoopStates
    <3>7. ASSUME NEW i \in 0 .. q + 1, NEW j \in 0 .. q + 1, i <= j
          PROVE  Begins(g.loop[i].served, g.loop[j].served)
      <4>1. CASE j # q + 1
        <5>1. i \in 0 .. q /\ j \in 0 .. q BY <4>1, <3>2, <3>7
        <5>2. g.loop[i] = h.loop[i] /\ g.loop[j] = h.loop[j] BY <5>1, <3>3
        <5>. QED BY <5>1, <5>2, <3>7, <2>2, <1>1 DEF Looped
      <4>2. CASE i = q + 1
        <5>1. i = j BY <4>2, <3>2, <3>7
        <5>. QED BY <5>1, <3>6 DEF Begins
      <4>3. CASE j = q + 1 /\ i # q + 1
        <5>1. i \in 0 .. q /\ q \in 0 .. q /\ i <= q BY <4>3, <3>2
        <5>2. g.loop[i] = h.loop[i] /\ g.loop[q] = s /\ g.loop[j] = r BY <5>1, <4>3, <3>3, <1>14
        <5>3. Begins(g.loop[i].served, s.served) BY <5>1, <5>2, <2>2, <1>1, <1>14 DEF Looped
        <5>4. g.loop[i].served \in Seq(Components \X Nat) /\ s.served \in Seq(Components \X Nat)
              /\ r.served \in Seq(Components \X Nat)
          <6>1. q \in 0 .. q + 1 BY <3>2
          <6>. QED BY <6>1, <3>6, <5>2
        <5>5. PICK x : x = g.loop[i].served OBVIOUS
        <5>6. Begins(x, r.served) BY <5>3, <5>4, <5>5, BeginsAll
        <5>. QED BY <5>2, <5>5, <5>6
      <4>. QED BY <4>1, <4>2, <4>3
    <3>8. ASSUME NEW i \in 0 .. q PROVE LoopStep(g, g.loop[i], g.log[io_comm][i + 1], g.loop[i + 1])
      <4>1. CASE i = q
        <5>1. g.loop[i] = s /\ g.loop[i + 1] = r BY <4>1, <3>3, <1>14
        <5>2. PICK e, k : e = g.log[io_comm][i + 1] /\ k = LogItem(ioroot, b.item, v) OBVIOUS
        <5>3. e.root = k.root /\ e.item = k.item /\ e.val = k.val BY <5>2, <4>1 DEF Met, LogItem
        <5>4. LoopStep(h, s, k, r) BY <5>2
        <5>5. LoopStep(g, s, e, r) BY <5>3, <5>4, <1>2 DEF LoopStep
        <5>. QED BY <5>1, <5>2, <5>5
      <4>2. CASE i # q
        <5>1. i \in 0 .. q - 1 /\ i + 1 \in 0 .. q /\ i + 1 \in 1 .. q BY <4>2, <3>2
        <5>2. LoopStep(h, h.loop[i], h.log[io_comm][i + 1], h.loop[i + 1]) BY <5>1, <2>2, <1>1 DEF Looped
        <5>3. g.log[io_comm][i + 1] = h.log[io_comm][i + 1] BY <5>1, <2>2, <1>7 DEF Met
        <5>4. g.loop[i] = h.loop[i] /\ g.loop[i + 1] = h.loop[i + 1] BY <5>1, <3>3
        <5>5. PICK x, e, y : x = g.loop[i] /\ e = g.log[io_comm][i + 1] /\ y = g.loop[i + 1] OBVIOUS
        <5>6. LoopStep(g, x, e, y) BY <5>2, <5>3, <5>4, <5>5, <1>2, LoopStepSame
        <5>. QED BY <5>5, <5>6
      <4>. QED BY <4>1, <4>2
    <3>9. (q + 1) - 1 = q BY <3>2
    <3>. QED BY <3>2, <3>4, <3>5, <3>7, <3>8, <3>9 DEF Looped
  <2>. QED BY <2>1, <2>2, <1>15
<1>17. \A u \in IOTasks : u # t => Reached(g, u) = Reached(h, u)
  <2>. SUFFICES ASSUME NEW u \in IOTasks, u # t PROVE Reached(g, u) = Reached(h, u) OBVIOUS
  <2>1. h.pos[io_comm][u] \in 0 .. Top(h, io_comm) BY InTheLoop
  <2>2. g.pos[io_comm][u] = h.pos[io_comm][u] BY <1>6, <1>7, TasksApart
  <2>. QED BY <2>1, <2>2 DEF Reached
<1>18. Reached(g, t) = r BY <1>3, <1>6, <1>7 DEF Reached
<1>19. Serving(g)'
  <2>. SUFFICES ASSUME NEW u \in IOTasks, u # t PROVE ServingAt(g, u)'
    BY DEF Serving
  <2>1. ServingAt(h, u) /\ Untouched(u) BY <1>1, TasksApart DEF Serving
  <2>. QED BY <2>1, <1>2, <1>17, StaysServing DEF Untouched
<1>20. Carried(g)'
  <2>1. \A d \in Components : Begun(g, d)' = Begun(h, d)
    <3>. SUFFICES ASSUME NEW d \in Components PROVE Begun(g, d)' = Begun(h, d) OBVIOUS
    <3>1. IsIdle(comproot(d))' <=> IsIdle(comproot(d)) BY <1>9, <1>12, TasksApart
    <3>. QED BY <3>1, <1>2 DEF Begun
  <2>2. TakenUp' = TakenUp BY DEF TakenUp
  <2>. SUFFICES ASSUME NEW d \in Components, NEW n, n = h.num[ioroot][d] PROVE CarriedAt(g, d, n)'
    BY <1>2 DEF Carried
  <2>3. CarriedAt(h, d, n) BY <1>1 DEF Carried
  <2>4. \A m : OnTheWay(g, d, m)' <=> OnTheWay(h, d, m) BY <2>1, <1>2 DEF OnTheWay
  <2>. QED BY <2>1, <2>2, <2>3, <2>4, <1>2 DEF CarriedAt
<1>21. Remembered(g)'
  <2>1. ASSUME NEW d \in Components, NEW u \in Members(my_comm(d)) PROVE Recalled(g, u, d)'
    <3>1. Recalled(h, u, d) BY <1>1 DEF Remembered
    <3>. QED BY <3>1, <1>1, <1>2, <1>4, <1>8, StaysRecalled
  <2>2. ASSUME NEW u \in IOTasks PROVE HasServed(g, u, Reached(g, u).served)'
    <3>1. CASE u = t BY <3>1, <1>18
    <3>2. CASE u # t
      <4>1. PICK x : x = Reached(h, u).served OBVIOUS
      <4>2. HasServed(h, u, x) BY <4>1, <1>1 DEF Remembered
      <4>3. \A d \in Components : h.num[u][d] <= h.last[d] /\ g.num[u][d] = h.num[u][d]
        BY <1>2, <1>8, MembersOf
      <4>4. HasServed(g, u, x)' BY <3>2, <4>2, <4>3, <1>1, <1>2, <1>4, <1>9, TasksApart, StaysServed
      <4>5. Reached(g, u).served = x BY <4>1, <3>2, <1>17
      <4>. QED BY <4>4, <4>5
    <3>. QED BY <3>1, <3>2
  <2>. QED BY <2>1, <2>2, MembersOf DEF Remembered
<1>. QED BY <1>4, <1>5, <1>10, <1>11, <1>13, <1>16, <1>19, <1>20, <1>21 DEF Follows

\* The history g that a broadcast of io_comm leads to, and where it takes t.
LoopMet(h, g, t, b, v, s, r) ==
  /\ Measured(g) /\ Logged(g)' /\ CallsKept(h, g) /\ g.cd = h.cd /\ Met(h, g, t, b, v)
  /\ Sound(r) /\ Begins(s.served, r.served) /\ LoopStep(h, s, LogItem(ioroot, b.item, v), r)
  /\ \A i \in 0 .. Top(h, io_comm) : g.loop[i] = h.loop[i]
  /\ g.loop[h.pos[io_comm][t] + 1] = r /\ Reached(g, t) = r

LEMMA LoopMeets ==
  ASSUME ProgramsFit, Shape, NEW h, Follows(h), NEW t \in IOTasks,
         NEW b \in Meetings, b.on = io_comm, b.root = ioroot, NEW v \in Vals, Meet(t, b, v),
         NEW s, s = Reached(h, t), NEW own,
         t = ioroot => LoopStep(h, s, LogItem(ioroot, b.item, v), own) /\ Sound(own) /\ Begins(s.served, own.served)
  PROVE  bcasts' \in [Comms -> Seq(Packets)] /\ \E g, r : LoopMet(h, g, t, b, v, s, r)
<1>1. Measured(h) /\ Logged(h) /\ Calls(h) BY DEF Follows
<1>2. t \in Members(b.on) /\ t \in Tasks /\ io_comm \in Comms BY MembersOf, TasksApart, CommsApart
<1>3. bcasts' \in [Comms -> Seq(Packets)] /\ \E log, pos, low : Written(h, t, b, v, log, pos, low)
  BY <1>1, <1>2, MeetLogged
<1>4. PICK log, pos, low : Written(h, t, b, v, log, pos, low) BY <1>3
<1>5. PICK q, top : q = h.pos[io_comm][t] /\ top = Top(h, io_comm) OBVIOUS
<1>6. q \in 0 .. top /\ top \in Nat BY <1>5, InTheLoop
<1>7. PICK loop : loop = [i \in Nat |-> IF t = ioroot /\ i = top + 1 THEN own ELSE h.loop[i]] OBVIOUS
<1>8. PICK g : Like(h, g, log, pos, low, h.cd, loop) BY OtherHistory
<1>9. g.log = log /\ g.pos = pos /\ g.low = low /\ g.cd = h.cd /\ g.loop = loop /\ CallsKept(h, g)
  BY <1>8 DEF Like
<1>10. Measured(g) /\ Logged(g)' /\ Met(h, g, t, b, v) BY <1>1, <1>4, <1>9, MeasuredToo DEF Written
<1>11. \A i \in 0 .. top : g.loop[i] = h.loop[i] BY <1>6, <1>7, <1>9
<1>12. PICK r : r = g.loop[q + 1] OBVIOUS
<1>13. Sound(r) /\ Begins(s.served, r.served) /\ LoopStep(h, s, LogItem(ioroot, b.item, v), r)
  <2>1. CASE t = ioroot
    <3>1. q = top BY <2>1, <1>5, <1>10 DEF Met
    <3>2. r = own BY <3>1, <2>1, <1>6, <1>7, <1>9, <1>12
    <3>. QED BY <3>2, <2>1
  <2>2. CASE t # ioroot
    <3>1. r = h.loop[q + 1] BY <2>2, <1>6, <1>7, <1>9, <1>12
    <3>. QED BY <3>1, <2>2, <1>5, <1>10, LoopRead
  <2>. QED BY <2>1, <2>2
<1>14. g.pos[io_comm][t] = q + 1 BY <1>2, <1>5, <1>10 DEF Met
<1>15. Reached(g, t) = r BY <1>12, <1>14 DEF Reached
<1>16. LoopMet(h, g, t, b, v, s, r) BY <1>5, <1>9, <1>10, <1>11, <1>12, <1>13, <1>15 DEF LoopMet
<1>. QED BY <1>3, <1>16

\* A task of the loop that is in no call stays where it is among the calls.
LEMMA RestsStill ==
  ASSUME NEW h, Placed(h), NEW g, CallsKept(h, g), NEW t \in IOTasks, NEW b, b.on = io_comm, NEW v,
         Met(h, g, t, b, v), IsIdle(t), IsIdle(t)', UNCHANGED eh, NEW c \in Components
  PROVE  PlacedAt(g, t, c)'
<1>1. t \in Members(my_comm(c)) /\ t \in Tasks BY MembersOf, TasksApart
<1>2. PlacedAt(h, t, c) /\ ~Busy(t, c) /\ ~Busy(t, c)' BY <1>1 DEF Placed, Busy
<1>3. AtRest(h, t, c) /\ h.num[t][c] \in 0 .. h.last[c] /\ eh'[t][c] = h.hand[c][h.num[t][c]]
  BY <1>2 DEF PlacedAt
<1>4. g.pos[my_comm(c)][t] = h.pos[my_comm(c)][t] /\ g.pos[intercomm(c)][t] = h.pos[intercomm(c)][t]
  BY <1>1, CommsApart DEF Met
<1>5. AtRest(g, t, c) BY <1>3, <1>4 DEF AtRest, CallsKept
<1>. QED BY <1>2, <1>3, <1>5 DEF PlacedAt, CallsKept

\* Where the loop is, told by the broadcast that a task is at.
LEMMA AtInLoop ==
  ASSUME Shape, NEW h, Follows(h), NEW t \in IOTasks, InLoop(t), NEW item, At(t, item),
         NEW s, s = Reached(h, t)
  PROVE  /\ Waiting(t, s) /\ Sound(s) /\ s.at # "over" /\ t \in Tasks
         /\ \A d \in Components : h.num[t][d] = s.num[d]
         /\ item = Outcount => s.at = "count" /\ todo[t] = <<Bcast(io_comm, ioroot, Outcount)>>
         /\ item = Index => s.at = "index" /\ todo[t] = NextRequest
         /\ item = Msg => s.at = "msg" /\ todo[t] = <<Bcast(io_comm, ioroot, Msg)>>
<1>1. t \in running /\ IsIdle(t) /\ todo[t] # <<>> /\ Head(todo[t]).item = item BY DEF InLoop, At
<1>2. ServingAt(h, t) /\ Sound(s) BY InTheLoop
<1>3. Waiting(t, s) /\ (\A d \in Components : h.num[t][d] = s.num[d]) BY <1>1, <1>2 DEF ServingAt
<1>4. s.at # "over" /\ s.at \in {"count", "index", "msg", "over"} BY <1>1, <1>2, <1>3 DEF Waiting, Sound, LoopStates
<1>5. \A i : Bcast(io_comm, ioroot, i).item = i BY DEF Bcast
<1>6. /\ Head(NextRequest).item = Index /\ Head(<<Bcast(io_comm, ioroot, Outcount)>>).item = Outcount
      /\ Head(<<Bcast(io_comm, ioroot, Msg)>>).item = Msg
  BY <1>5 DEF NextRequest
<1>7. Outcount # Index /\ Outcount # Msg /\ Index # Msg BY DEF Outcount, Index, Msg, INT
<1>8. /\ s.at = "count" => todo[t] = <<Bcast(io_comm, ioroot, Outcount)>>
      /\ s.at = "index" => todo[t] = NextRequest
      /\ s.at = "msg" => todo[t] = <<Bcast(io_comm, ioroot, Msg)>>
  BY <1>1, <1>3 DEF Waiting
<1>9. /\ s.at = "count" => item = Outcount
      /\ s.at = "index" => item = Index
      /\ s.at = "msg" => item = Msg
  BY <1>1, <1>6, <1>8
<1>. QED BY <1>2, <1>3, <1>4, <1>7, <1>8, <1>9, TasksApart

\* The broadcasts of the loop.
LEMMA LoopBcasts ==
  /\ \A i \in Control : Bcast(io_comm, ioroot, i) \in Meetings
  /\ \A i : /\ Bcast(io_comm, ioroot, i).on = io_comm /\ Bcast(io_comm, ioroot, i).root = ioroot
            /\ Bcast(io_comm, ioroot, i).item = i
  /\ {Outcount, Index, Msg} \subseteq Control
  /\ NextRequest \in Seq(Meetings)
  /\ Head(NextRequest) = Bcast(io_comm, ioroot, Index) /\ Tail(NextRequest) = <<Bcast(io_comm, ioroot, Msg)>>
<1>1. \A i \in Control : Bcast(io_comm, ioroot, i) \in Meetings
  BY TasksApart, CommsApart DEF Bcast, Meetings, Items
<1>2. {Outcount, Index, Msg} \subseteq Control BY DEF Control
<1>3. NextRequest \in Seq(Meetings) BY <1>1, <1>2 DEF NextRequest
<1>. QED BY <1>1, <1>2, <1>3 DEF NextRequest, Bcast

\* A task that stays idle has served no more calls.
LEMMA ServedStill ==
  ASSUME NEW h, Follows(h), NEW g, Measured(h), CallsKept(h, g), g.cd = h.cd, NEW t \in IOTasks,
         IsIdle(t)' <=> IsIdle(t), UNCHANGED done, NEW x, x = Reached(h, t).served
  PROVE  HasServed(g, t, x)'
<1>1. HasServed(h, t, x) /\ t \in Tasks BY TasksApart DEF Follows, Remembered
<1>2. g.prog = h.prog /\ g.num = h.num /\ Learned(h, g) BY DEF CallsKept, Learned
<1>3. ASSUME NEW c \in Components PROVE h.num[t][c] <= h.last[c] /\ g.num[t][c] = h.num[t][c]
  <2>1. PlacedAt(h, t, c) BY MembersOf DEF Follows, Placed
  <2>2. h.num[t][c] \in 0 .. h.last[c] /\ h.last[c] \in Nat BY <2>1, Numbers DEF PlacedAt
  <2>. QED BY <2>2, <1>2
<1>. QED BY <1>1, <1>2, <1>3, StaysServed

LEMMA TakeOutcountKeeps ==
  ASSUME ProgramsFit, Shape, Batch, NEW h, Follows(h), NEW t \in IOTasks, TakeOutcount(t)
  PROVE  Kept
<1>1. PICK s : s = Reached(h, t) OBVIOUS
<1>2. /\ InLoop(t) /\ At(t, Outcount) /\ todo' = [todo EXCEPT ![t] = NextRequest]
      /\ UNCHANGED <<program, doing, code, eh, done, inbox, listening, index, messages, openComps, running>>
      /\ \E n \in Values(t, Head(todo[t]), {Len(index)}) :
            Meet(t, Head(todo[t]), n) /\ outcount' = [outcount EXCEPT ![t] = n]
  BY DEF TakeOutcount, Becomes
<1>3. PICK b : b = Bcast(io_comm, ioroot, Outcount) OBVIOUS
<1>4. b \in Meetings /\ b.on = io_comm /\ b.root = ioroot /\ b.item = Outcount BY <1>3, LoopBcasts
<1>5. /\ Waiting(t, s) /\ Sound(s) /\ s.at = "count" /\ todo[t] = <<b>> /\ t \in Tasks /\ t \in running /\ IsIdle(t)
      /\ \A d \in Components : h.num[t][d] = s.num[d]
  BY <1>1, <1>2, <1>3, AtInLoop DEF InLoop
<1>6. Head(todo[t]) = b BY <1>5
<1>7. PICK n \in Values(t, b, {Len(index)}) : Meet(t, b, n) /\ outcount' = [outcount EXCEPT ![t] = n]
  BY <1>2, <1>6
<1>8. /\ s.at = "count" /\ s.left = 0 /\ s.open \in 0 .. NumComponents /\ openComps[t] = s.open
      /\ s.num \in [Components -> Nat] /\ s.served \in Seq(Components \X Nat) /\ code[t] = "unknown"
      /\ doing[t].comp = 0
  BY <1>5 DEF Waiting, Sound, LoopStates
<1>9. PICK own : own = AfterCount(s, n) OBVIOUS
<1>10. NumComponents \in Nat BY AsyncAssumption
\* What ioroot counts.
<1>11. ASSUME t = ioroot
       PROVE  n = Len(index) /\ n \in 1 .. NumComponents /\ n <= s.open
  <2>1. n = Len(index) BY <1>4, <1>7, <1>11 DEF Values
  <2>2. index # <<>>
    <3>1. todo[ioroot] = <<b>> BY <1>5, <1>11
    <3>2. IsIdle(ioroot) BY <1>5, <1>11
    <3>3. todo[ioroot] # <<>> BY <3>1
    <3>4. todo[ioroot] = <<Bcast(io_comm, ioroot, Outcount)>> BY <1>3, <3>1
    <3>. QED BY <3>2, <3>3, <3>4 DEF Batch
  <2>3. Len(index) = Cardinality(TakenUp) /\ openComps[ioroot] = Cardinality(listening \cup TakenUp) BY DEF Batch
  <2>4. listening \cup TakenUp \subseteq Components /\ IsFiniteSet(Components) /\ Cardinality(Components) = NumComponents
    <3>1. listening \subseteq Components /\ index \in Seq(Components) BY DEF Shape
    <3>2. TakenUp \subseteq Components BY <3>1 DEF TakenUp
    <3>3. IsFiniteSet(Components) /\ Cardinality(Components) = NumComponents
      BY <1>10, FS_Interval DEF Components
    <3>. QED BY <3>1, <3>2, <3>3
  <2>5. IsFiniteSet(listening \cup TakenUp) BY <2>4, FS_Subset
  <2>6. Cardinality(TakenUp) <= Cardinality(listening \cup TakenUp)
    BY <2>5, FS_Subset
  <2>7. Cardinality(listening \cup TakenUp) <= NumComponents BY <2>4, FS_Subset
  <2>8. Len(index) \in Nat /\ Len(index) > 0 BY <2>2 DEF Shape
  <2>. QED BY <2>1, <2>3, <2>6, <2>7, <2>8, <1>8, <1>10, <1>11
<1>12. ASSUME t = ioroot
       PROVE  LoopStep(h, s, LogItem(ioroot, b.item, n), own) /\ Sound(own) /\ Begins(s.served, own.served)
  <2>1. PICK e : e = LogItem(ioroot, b.item, n) OBVIOUS
  <2>2. e.root = ioroot /\ e.item = Outcount /\ e.val = n BY <2>1, <1>4 DEF LogItem
  <2>3. LoopStep(h, s, e, own) BY <2>2, <1>8, <1>9, <1>11, <1>12 DEF LoopStep
  <2>4. Sound(own) BY <1>8, <1>9, <1>10, <1>11, <1>12 DEF Sound, LoopStates, AfterCount
  <2>5. Begins(s.served, own.served) BY <1>8, <1>9 DEF Begins, AfterCount
  <2>. QED BY <2>1, <2>3, <2>4, <2>5
<1>13. n \in Vals
  <2>1. CASE t = ioroot BY <2>1, <1>11 DEF Vals
  <2>2. CASE t # ioroot
    <3>1. t \in Members(b.on) BY <1>4, MembersOf
    <3>. QED BY <3>1, <2>2, <1>4, <1>7, ReceivedIs DEF Follows
  <2>. QED BY <2>1, <2>2
<1>14. bcasts' \in [Comms -> Seq(Packets)] /\ \E g, r : LoopMet(h, g, t, b, n, s, r)
  BY <1>1, <1>4, <1>7, <1>12, <1>13, LoopMeets
<1>15. PICK g, r : LoopMet(h, g, t, b, n, s, r) BY <1>14
<1>16. /\ Measured(g) /\ Logged(g)' /\ CallsKept(h, g) /\ g.cd = h.cd /\ Met(h, g, t, b, n)
       /\ Sound(r) /\ Begins(s.served, r.served) /\ LoopStep(h, s, LogItem(ioroot, b.item, n), r)
       /\ \A i \in 0 .. Top(h, io_comm) : g.loop[i] = h.loop[i]
       /\ g.loop[h.pos[io_comm][t] + 1] = r /\ Reached(g, t) = r
  BY <1>15 DEF LoopMet
<1>17. n \in 1 .. NumComponents /\ r = AfterCount(s, n)
  <2>1. PICK e : e = LogItem(ioroot, b.item, n) OBVIOUS
  <2>2. e.val = n /\ LoopStep(h, s, e, r) BY <2>1, <1>16 DEF LogItem
  <2>. QED BY <2>2, <1>8 DEF LoopStep
<1>18. /\ r.at = "index" /\ r.left = n /\ r.num = s.num /\ r.served = s.served /\ r.open = s.open
  BY <1>17 DEF AfterCount
<1>19. todo'[t] = NextRequest /\ outcount'[t] = n BY <1>2, <1>5, <1>7 DEF Shape
<1>20. Shape'
  <2>1. todo' \in [Tasks -> Seq(Meetings)] BY <1>2, LoopBcasts DEF Shape
  <2>2. outcount' \in [IOTasks -> 0 .. NumComponents]
    <3>1. n \in 0 .. NumComponents BY <1>17
    <3>. QED BY <3>1, <1>7 DEF Shape
  <2>. QED BY <2>1, <2>2, <1>2, <1>14 DEF Shape
<1>21. IsIdle(t)' BY <1>2, <1>5 DEF IsIdle
<1>22. ServingAt(g, t)'
  <2>1. Waiting(t, r)' BY <1>2, <1>5, <1>8, <1>18, <1>19 DEF Waiting
  <2>2. \A d \in Components : g.num[t][d] = r.num[d] BY <1>5, <1>16, <1>18 DEF CallsKept
  <2>. QED BY <2>1, <2>2, <1>16, <1>21 DEF ServingAt, Reached
<1>23. \A c \in Components : PlacedAt(g, t, c)'
  BY <1>2, <1>4, <1>5, <1>16, <1>21, RestsStill DEF Follows
<1>24. HasServed(g, t, r.served)'
  <2>1. PICK x : x = r.served OBVIOUS
  <2>2. x = Reached(h, t).served BY <2>1, <1>1, <1>18
  <2>3. HasServed(g, t, x)' BY <2>2, <1>2, <1>5, <1>16, <1>21, ServedStill DEF Follows
  <2>. QED BY <2>1, <2>3
<1>25. \A u \in Tasks : u # t => Untouched(u) BY <1>2 DEF Untouched
<1>26. \A u \in IOTasks : u # t => /\ outcount'[u] = outcount[u] /\ openComps'[u] = openComps[u]
                                   /\ u \in running' <=> u \in running
  BY <1>2, <1>7 DEF Shape
<1>27. PICK q : q = h.pos[io_comm][t] OBVIOUS
<1>30. Follows(g)'
  BY <1>1, <1>2, <1>4, <1>5, <1>16, <1>20, <1>22, <1>23, <1>24, <1>25, <1>26, <1>27, LoopGoesOn
<1>31. Batch'
  <2>1. IsIdle(ioroot)' <=> IsIdle(ioroot) BY <1>2 DEF IsIdle
  <2>2. CASE t # ioroot
    <3>1. todo'[ioroot] = todo[ioroot] /\ outcount'[ioroot] = outcount[ioroot]
      BY <2>2, <1>25, <1>26, TasksApart DEF Untouched
    <3>. QED BY <3>1, <2>1, <1>2 DEF Batch, TakenUp
  <2>3. CASE t = ioroot
    <3>1. todo'[ioroot] \notin {<<>>, <<Bcast(io_comm, ioroot, Outcount)>>} /\ Len(index) = outcount'[ioroot]
      BY <2>3, <1>11, <1>19 DEF NextRequest
    <3>. QED BY <3>1, <2>1, <1>2 DEF Batch, TakenUp
  <2>. QED BY <2>2, <2>3
<1>. QED BY <1>20, <1>30, <1>31 DEF Kept

LEMMA TakeIndexKeeps ==
  ASSUME ProgramsFit, Shape, Batch, NEW h, Follows(h), NEW t \in IOTasks, TakeIndex(t)
  PROVE  Kept
<1>1. PICK s : s = Reached(h, t) OBVIOUS
<1>2. /\ InLoop(t) /\ At(t, Index) /\ todo' = [todo EXCEPT ![t] = Tail(todo[t])]
      /\ UNCHANGED <<program, code, eh, done, loopVars>>
      /\ \E c \in Values(t, Head(todo[t]), {index[i] : i \in {1} \cap DOMAIN index}) :
            Meet(t, Head(todo[t]), c) /\ doing' = [doing EXCEPT ![t] = [Idle EXCEPT !.comp = c]]
  BY DEF TakeIndex, Becomes
<1>3. PICK b : b = Bcast(io_comm, ioroot, Index) OBVIOUS
<1>4. b \in Meetings /\ b.on = io_comm /\ b.root = ioroot /\ b.item = Index BY <1>3, LoopBcasts
<1>5. /\ Waiting(t, s) /\ Sound(s) /\ s.at = "index" /\ todo[t] = NextRequest /\ t \in Tasks /\ t \in running /\ IsIdle(t)
      /\ \A d \in Components : h.num[t][d] = s.num[d]
  BY <1>1, <1>2, AtInLoop DEF InLoop
<1>6. Head(todo[t]) = b /\ Tail(todo[t]) = <<Bcast(io_comm, ioroot, Msg)>> BY <1>3, <1>5, LoopBcasts
<1>7. PICK c \in Values(t, b, {index[i] : i \in {1} \cap DOMAIN index}) :
        Meet(t, b, c) /\ doing' = [doing EXCEPT ![t] = [Idle EXCEPT !.comp = c]]
  BY <1>2, <1>6
<1>8. /\ s.left > 0 /\ s.left \in 0 .. NumComponents /\ s.left <= s.open /\ outcount[t] = s.left
      /\ s.open \in 0 .. NumComponents /\ openComps[t] = s.open
      /\ s.num \in [Components -> Nat] /\ s.served \in Seq(Components \X Nat) /\ code[t] = "unknown"
  BY <1>5 DEF Waiting, Sound, LoopStates
<1>9. PICK own : own = AfterIndex(s, c) OBVIOUS
<1>10. NumComponents \in Nat BY AsyncAssumption
\* The component that ioroot takes next.
<1>11. ASSUME t = ioroot
       PROVE  c = index[1] /\ c \in Components /\ index # <<>>
  <2>1. c \in {index[i] : i \in {1} \cap DOMAIN index} BY <1>4, <1>7, <1>11 DEF Values
  <2>2. c = index[1] /\ 1 \in DOMAIN index BY <2>1
  <2>. QED BY <2>2 DEF Shape
<1>12. ASSUME t = ioroot
       PROVE  LoopStep(h, s, LogItem(ioroot, b.item, c), own) /\ Sound(own) /\ Begins(s.served, own.served)
  <2>1. PICK e : e = LogItem(ioroot, b.item, c) OBVIOUS
  <2>2. e.root = ioroot /\ e.item = Index /\ e.val = c BY <2>1, <1>4 DEF LogItem
  <2>3. LoopStep(h, s, e, own) BY <2>2, <1>5, <1>9, <1>11, <1>12 DEF LoopStep
  <2>6. c \in 1 .. NumComponents BY <1>11, <1>12 DEF Components
  <2>4. Sound(own) BY <2>6, <1>8, <1>9, <1>10, <1>11, <1>12 DEF Sound, LoopStates, AfterIndex
  <2>5. Begins(s.served, own.served) BY <1>8, <1>9 DEF Begins, AfterIndex
  <2>. QED BY <2>1, <2>3, <2>4, <2>5
<1>13. c \in Vals
  <2>1. CASE t = ioroot BY <2>1, <1>11 DEF Vals, Components
  <2>2. CASE t # ioroot
    <3>1. t \in Members(b.on) BY <1>4, MembersOf
    <3>. QED BY <3>1, <2>2, <1>4, <1>7, ReceivedIs DEF Follows
  <2>. QED BY <2>1, <2>2
<1>14. bcasts' \in [Comms -> Seq(Packets)] /\ \E g, r : LoopMet(h, g, t, b, c, s, r)
  BY <1>1, <1>4, <1>7, <1>12, <1>13, LoopMeets
<1>15. PICK g, r : LoopMet(h, g, t, b, c, s, r) BY <1>14
<1>16. /\ Measured(g) /\ Logged(g)' /\ CallsKept(h, g) /\ g.cd = h.cd /\ Met(h, g, t, b, c)
       /\ Sound(r) /\ Begins(s.served, r.served) /\ LoopStep(h, s, LogItem(ioroot, b.item, c), r)
       /\ \A i \in 0 .. Top(h, io_comm) : g.loop[i] = h.loop[i]
       /\ g.loop[h.pos[io_comm][t] + 1] = r /\ Reached(g, t) = r
  BY <1>15 DEF LoopMet
<1>17. c \in Components /\ r = AfterIndex(s, c)
  <2>1. PICK e : e = LogItem(ioroot, b.item, c) OBVIOUS
  <2>2. e.val = c /\ LoopStep(h, s, e, r) BY <2>1, <1>16 DEF LogItem
  <2>. QED BY <2>2, <1>5 DEF LoopStep
<1>18. /\ r.at = "msg" /\ r.left = s.left /\ r.comp = c /\ r.num = s.num /\ r.served = s.served /\ r.open = s.open
  BY <1>17 DEF AfterIndex
<1>19. /\ todo'[t] = <<Bcast(io_comm, ioroot, Msg)>> /\ doing'[t].comp = c /\ doing'[t].msg = "NULL"
       /\ UNCHANGED <<outcount, openComps, running, index, listening, inbox, messages>>
  BY <1>2, <1>5, <1>6, <1>7 DEF Shape, Idle, loopVars
<1>20. Shape'
  <2>1. todo' \in [Tasks -> Seq(Meetings)]
    <3>1. Bcast(io_comm, ioroot, Msg) \in Meetings BY LoopBcasts
    <3>2. PICK m \in Meetings : m = Bcast(io_comm, ioroot, Msg) BY <3>1
    <3>3. <<m>> \in Seq(Meetings) OBVIOUS
    <3>4. Tail(todo[t]) \in Seq(Meetings) BY <3>2, <3>3, <1>6
    <3>. QED BY <3>4, <1>2 DEF Shape
  <2>2. DOMAIN doing' = Tasks BY <1>7 DEF Shape
  <2>. QED BY <2>1, <2>2, <1>2, <1>14 DEF Shape, loopVars
<1>21. IsIdle(t)' BY <1>19 DEF IsIdle
<1>22. ServingAt(g, t)'
  <2>1. Waiting(t, r)' BY <1>2, <1>5, <1>8, <1>18, <1>19 DEF Waiting
  <2>2. \A d \in Components : g.num[t][d] = r.num[d] BY <1>5, <1>16, <1>18 DEF CallsKept
  <2>. QED BY <2>1, <2>2, <1>16, <1>21 DEF ServingAt, Reached
<1>23. \A d \in Components : PlacedAt(g, t, d)'
  BY <1>2, <1>4, <1>5, <1>16, <1>21, RestsStill DEF Follows
<1>24. HasServed(g, t, r.served)'
  <2>1. PICK x : x = r.served OBVIOUS
  <2>2. x = Reached(h, t).served BY <2>1, <1>1, <1>18
  <2>3. HasServed(g, t, x)' BY <2>2, <1>2, <1>5, <1>16, <1>21, ServedStill DEF Follows
  <2>. QED BY <2>1, <2>3
<1>25. \A u \in Tasks : u # t => Untouched(u) BY <1>2, <1>7 DEF Untouched
<1>26. \A u \in IOTasks : u # t => /\ outcount'[u] = outcount[u] /\ openComps'[u] = openComps[u]
                                   /\ u \in running' <=> u \in running
  BY <1>19
<1>27. PICK q : q = h.pos[io_comm][t] OBVIOUS
<1>30. Follows(g)'
  BY <1>1, <1>2, <1>4, <1>5, <1>16, <1>19, <1>20, <1>22, <1>23, <1>24, <1>25, <1>26, <1>27, LoopGoesOn
<1>31. Batch'
  <2>2. CASE t # ioroot
    <3>1. todo'[ioroot] = todo[ioroot] /\ doing'[ioroot] = doing[ioroot]
      BY <2>2, <1>25, TasksApart DEF Untouched
    <3>2. IsIdle(ioroot)' <=> IsIdle(ioroot) BY <3>1 DEF IsIdle
    <3>. QED BY <3>1, <3>2, <1>19 DEF Batch, TakenUp
  <2>3. CASE t = ioroot
    <3>1. todo[ioroot] = NextRequest /\ IsIdle(ioroot) /\ IsIdle(ioroot)' BY <2>3, <1>5, <1>21
    <3>2. todo[ioroot] \notin {<<>>, <<Bcast(io_comm, ioroot, Outcount)>>} BY <3>1 DEF NextRequest
    <3>3. Len(index) = outcount[ioroot] BY <3>1, <3>2 DEF Batch
    <3>4. todo'[ioroot] = <<Bcast(io_comm, ioroot, Msg)>> BY <2>3, <1>19
    <3>5. Msg # Outcount BY DEF Msg, Outcount, INT
    <3>6. Bcast(io_comm, ioroot, Msg) # Bcast(io_comm, ioroot, Outcount) BY <3>5, LoopBcasts
    <3>7. todo'[ioroot] \notin {<<>>, <<Bcast(io_comm, ioroot, Outcount)>>} BY <3>4, <3>6
    <3>8. index' # <<>> /\ index'[1] = doing'[ioroot].comp BY <2>3, <1>11, <1>19
    <3>. QED BY <3>1, <3>3, <3>7, <3>8, <1>19 DEF Batch, TakenUp
  <2>. QED BY <2>2, <2>3
<1>. QED BY <1>20, <1>30, <1>31 DEF Kept

\* The message that ioroot has taken up is that of the component's next call.
LEMMA TakenMessage ==
  ASSUME ProgramsFit, Shape, Batch, NEW h, Follows(h), NEW c \in TakenUp, NEW n, n = h.num[ioroot][c]
  PROVE  c \in Components /\ messages[c] = CallMessage(h.prog[c][n]) /\ IsCall(h, c, n)
<1>1. c \in Components
  <2>1. index \in Seq(Components) BY DEF Shape
  <2>. QED BY <2>1 DEF TakenUp
<1>2. Measured(h) /\ Calls(h) /\ Placed(h) /\ Carried(h) BY DEF Follows
<1>3. n < Begun(h, c) /\ messages[c] = CallMessage(h.prog[c][n]) BY <1>1, <1>2 DEF Carried, CarriedAt
<1>4. ioroot \in Members(my_comm(c)) /\ comproot(c) \in Members(my_comm(c)) /\ ioroot \in Tasks /\ comproot(c) \in Tasks
      /\ comproot(c) \in CompTasks(c)
  BY <1>1, MembersOf, TasksApart
<1>5. PICK m : m = h.num[comproot(c)][c] OBVIOUS
<1>6. n \in Nat /\ m \in Nat /\ h.last[c] \in Nat BY <1>1, <1>2, <1>4, <1>5, Numbers
<1>7. n \in 0 .. h.last[c] BY <1>1, <1>2, <1>4 DEF Placed, PlacedAt
<1>8. m \in 0 .. h.last[c] /\ PlacedAt(h, comproot(c), c) BY <1>1, <1>2, <1>4, <1>5 DEF Placed, PlacedAt
<1>9. CASE n < m
  <2>1. n \in 0 .. h.last[c] - 1 BY <1>6, <1>8, <1>9
  <2>2. h.prog[c][n] # <<>> BY <2>1, <1>1, <1>2 DEF Calls
  <2>. QED BY <2>2, <1>1, <1>3, <1>7 DEF IsCall
<1>10. CASE ~(n < m)
  <2>1. ~IsIdle(comproot(c)) /\ n = m BY <1>3, <1>5, <1>6, <1>10 DEF Begun
  <2>2. CallingAt(h, comproot(c), c) BY <1>1, <1>4 DEF Follows, Calling
  <2>3. Busy(comproot(c), c) BY <2>1, <2>2 DEF CallingAt, Busy
  <2>4. h.prog[c][n] # <<>> BY <2>1, <2>3, <1>5, <1>8 DEF PlacedAt, Makes
  <2>. QED BY <2>4, <1>1, <1>3, <1>7 DEF IsCall
<1>. QED BY <1>9, <1>10

\* The call that the handler of a message makes.
Answers(x, c, p, m) ==
  /\ Service(m.msg, m.given).handler = {x} /\ Exchanges(c, x.params, x.call) = Agreed(c, p)
  /\ x.call.agree = CallAt(p).agree /\ x.call.results = CallAt(p).results

LEMMA HandlerCall ==
  ASSUME ProgramsFit, NEW p, Programme(p), p # <<>>, NEW m, m = CallMessage(p), NEW c
  PROVE  \E x : Answers(x, c, p, m)
<1>1. SidesMatch(StepOf(p)) BY StepFits
<1>2. m.msg = StepOf(p).msg /\ m.given = StepOf(p).given BY DEF CallMessage, Message
<1>3. PICK x : /\ Service(m.msg, m.given).handler = {x}
               /\ x.params = CallAt(p).params /\ x.call.early = CallAt(p).early /\ x.call.derived = CallAt(p).derived
               /\ x.call.results = CallAt(p).results /\ x.call.agree = CallAt(p).agree
  BY <1>1, <1>2 DEF SidesMatch, CallAt
<1>4. Exchanges(c, x.params, x.call) = Agreed(c, p) BY <1>3 DEF Exchanges, Agreed
<1>5. Answers(x, c, p, m) BY <1>3, <1>4 DEF Answers
<1>. QED BY <1>5

\* Where a task of the loop is after the message of a call.
LEMMA AfterMsgSound ==
  ASSUME NEW s, Sound(s), s.at = "msg", NEW m
  PROVE  Sound(AfterMsg(s, m)) /\ Begins(s.served, AfterMsg(s, m).served)
<1>. DEFINE r == AfterMsg(s, m)
<1>1. /\ s.left \in 0 .. NumComponents /\ s.left > 0 /\ s.comp \in Components /\ s.num \in [Components -> Nat]
      /\ s.served \in Seq(Components \X Nat) /\ s.open \in 0 .. NumComponents /\ s.left <= s.open
  BY DEF Sound, LoopStates
<1>2. NumComponents \in Nat BY AsyncAssumption
<1>3. PICK out \in BOOLEAN : out = (m.msg = "EXIT" /\ s.open = 1) OBVIOUS
<1>4. PICK open : open = StillOpen(s, m) OBVIOUS
<1>5. /\ open \in 0 .. NumComponents /\ s.left - 1 <= open /\ (out => open = 0)
      /\ s.left - 1 \in 0 .. NumComponents
  <2>1. open = s.open \/ (m.msg = "EXIT" /\ open = s.open - 1) BY <1>4 DEF StillOpen
  <2>2. s.open \in Nat /\ s.left \in Nat /\ s.open <= NumComponents /\ s.left <= NumComponents /\ s.open > 0
    BY <1>1, <1>2
  <2>5. PICK o \in Nat, l \in Nat : o = s.open /\ l = s.left BY <2>2
  <2>6. open = o \/ open = o - 1 BY <2>1, <2>5
  <2>7. 0 < l /\ l <= o /\ o <= NumComponents BY <2>2, <2>5, <1>1
  <2>8. open \in 0 .. NumComponents /\ l - 1 <= open /\ l - 1 \in 0 .. NumComponents BY <2>6, <2>7, <1>2
  <2>3. open \in 0 .. NumComponents /\ s.left - 1 <= open /\ s.left - 1 \in 0 .. NumComponents
    BY <2>5, <2>8
  <2>4. ASSUME out PROVE open = 0
    <3>1. m.msg = "EXIT" /\ s.open = 1 BY <2>4, <1>3
    <3>2. open = s.open - 1 BY <3>1, <1>4 DEF StillOpen
    <3>. QED BY <3>1, <3>2
  <2>. QED BY <2>3, <2>4
<1>6. PICK at : at = IF out THEN "over" ELSE IF s.left > 1 THEN "index" ELSE "count" OBVIOUS
<1>7. /\ r.at = at /\ r.left = s.left - 1 /\ r.comp = 0 /\ r.open = open
      /\ r.num = [c \in Components |-> IF c = s.comp THEN s.num[c] + 1 ELSE s.num[c]]
      /\ r.served = Append(s.served, <<s.comp, s.num[s.comp]>>)
      /\ r = [at |-> at, left |-> s.left - 1, comp |-> 0, num |-> r.num, served |-> r.served, open |-> open]
  BY <1>3, <1>4, <1>6 DEF AfterMsg
<1>8. r.num \in [Components -> Nat] BY <1>1, <1>7
<1>9. <<s.comp, s.num[s.comp]>> \in Components \X Nat BY <1>1
<1>10. r.served \in Seq(Components \X Nat) /\ Begins(s.served, r.served)
  BY <1>1, <1>7, <1>9 DEF Begins
<1>. HIDE DEF r
<1>11. r \in LoopStates
  <2>1. at \in {"count", "index", "msg", "over"} BY <1>6
  <2>2. 0 \in 0 .. NumComponents BY <1>2
  <2>. QED BY <2>1, <2>2, <1>5, <1>7, <1>8, <1>10 DEF LoopStates
<1>12. Sound(r) BY <1>1, <1>2, <1>5, <1>6, <1>7, <1>11 DEF Sound
<1>. QED BY <1>10, <1>12 DEF r

\* The switch on message m of component c.
Switched(t, c, m) ==
  \E handlers : /\ handlers = Service(m.msg, m.given).handler
                /\ running' = IF handlers = {} THEN running \ {t} ELSE running
                /\ \A x : handlers = {x} =>
                     /\ doing' = [doing EXCEPT ![t] = Doing(c, m.msg, m.given, "return", x.call)]
                     /\ todo' = [todo EXCEPT ![t] = Exchanges(c, x.params, x.call)]

LEMMA DispatchKeeps ==
  ASSUME ProgramsFit, Shape, Batch, NEW h, Follows(h), NEW t \in IOTasks, Dispatch(t)
  PROVE  Kept
<1>1. PICK s, c : s = Reached(h, t) /\ c = doing[t].comp OBVIOUS
<1>2. InLoop(t) /\ At(t, Msg) /\ UNCHANGED <<program, code, eh, done, inbox, listening, index, messages, outcount, openComps>>
  BY DEF Dispatch
<1>3. PICK b : b = Bcast(io_comm, ioroot, Msg) OBVIOUS
<1>4. b \in Meetings /\ b.on = io_comm /\ b.root = ioroot /\ b.item = Msg BY <1>3, LoopBcasts
<1>5. /\ Waiting(t, s) /\ Sound(s) /\ s.at = "msg" /\ todo[t] = <<b>> /\ t \in Tasks /\ t \in running /\ IsIdle(t)
      /\ \A d \in Components : h.num[t][d] = s.num[d]
  BY <1>1, <1>2, <1>3, AtInLoop DEF InLoop
<1>6. Head(todo[t]) = b BY <1>5
<1>7. /\ s.left > 0 /\ s.left \in 0 .. NumComponents /\ s.left <= s.open /\ outcount[t] = s.left
      /\ s.open \in 0 .. NumComponents /\ openComps[t] = s.open /\ s.comp = c /\ c \in Components
      /\ s.num \in [Components -> Nat] /\ s.served \in Seq(Components \X Nat) /\ code[t] = "unknown"
  BY <1>1, <1>5 DEF Waiting, Sound, LoopStates
<1>8. PICK n : n = h.num[t][c] OBVIOUS
<1>9. s.num[c] = n /\ n \in Nat BY <1>5, <1>7, <1>8
<1>10. NumComponents \in Nat BY AsyncAssumption
<1>11. \E m \in Values(t, b, {messages[c]}) : Meet(t, b, m) /\ Switched(t, c, m)
  <2>1. PICK m \in Values(t, b, {messages[c]}) :
          /\ Meet(t, b, m)
          /\ running' = IF Service(m.msg, m.given).handler = {} THEN running \ {t} ELSE running
          /\ doing' = [doing EXCEPT ![t] = IF Service(m.msg, m.given).handler = {} THEN Idle
                         ELSE Doing(c, m.msg, m.given, "return",
                                    (CHOOSE x \in Service(m.msg, m.given).handler : TRUE).call)]
          /\ todo' = [todo EXCEPT ![t] = IF Service(m.msg, m.given).handler = {} THEN <<>>
                         ELSE Exchanges(c, (CHOOSE x \in Service(m.msg, m.given).handler : TRUE).params,
                                        (CHOOSE x \in Service(m.msg, m.given).handler : TRUE).call)]
    BY <1>1, <1>6 DEF Dispatch, Becomes
  <2>2. PICK handlers : handlers = Service(m.msg, m.given).handler OBVIOUS
  <2>3. PICK y : y = CHOOSE x \in handlers : TRUE OBVIOUS
  <2>4. /\ running' = IF handlers = {} THEN running \ {t} ELSE running
        /\ doing' = [doing EXCEPT ![t] = IF handlers = {} THEN Idle ELSE Doing(c, m.msg, m.given, "return", y.call)]
        /\ todo' = [todo EXCEPT ![t] = IF handlers = {} THEN <<>> ELSE Exchanges(c, y.params, y.call)]
    BY <2>1, <2>2, <2>3
  <2>5. ASSUME NEW x, handlers = {x}
        PROVE  /\ doing' = [doing EXCEPT ![t] = Doing(c, m.msg, m.given, "return", x.call)]
               /\ todo' = [todo EXCEPT ![t] = Exchanges(c, x.params, x.call)]
    <3>1. y = x /\ handlers # {} BY <2>3, <2>5
    <3>. QED BY <3>1, <2>4
  <2>6. Switched(t, c, m) BY <2>2, <2>4, <2>5 DEF Switched
  <2>. QED BY <2>1, <2>6
<1>12. PICK m \in Values(t, b, {messages[c]}) : Meet(t, b, m) /\ Switched(t, c, m)
  BY <1>11
<1>13. PICK own : own = AfterMsg(s, m) OBVIOUS
<1>14. Sound(own) /\ Begins(s.served, own.served) BY <1>5, <1>13, AfterMsgSound
\* The message that ioroot passes on.
<1>15. ASSUME t = ioroot
       PROVE  m = CallMessage(h.prog[c][n]) /\ IsCall(h, c, n)
  <2>1. m = messages[c] BY <1>4, <1>12, <1>15 DEF Values
  <2>2. c \in TakenUp
    <3>1. c # 0 BY <1>7 DEF Components
    <3>2. index # <<>> /\ index[1] = c BY <3>1, <1>1, <1>15 DEF Batch
    <3>3. 1 \in DOMAIN index BY <3>2 DEF Shape
    <3>. QED BY <3>2, <3>3 DEF TakenUp
  <2>. QED BY <2>1, <2>2, <1>8, <1>15, TakenMessage
<1>16. ASSUME t = ioroot
       PROVE  LoopStep(h, s, LogItem(ioroot, b.item, m), own)
  <2>1. PICK e : e = LogItem(ioroot, b.item, m) OBVIOUS
  <2>2. e.root = ioroot /\ e.item = Msg /\ e.val = m BY <2>1, <1>4 DEF LogItem
  <2>3. n \in 0 .. h.last[c] /\ h.prog[c][n] # <<>> BY <1>15, <1>16 DEF IsCall
  <2>4. LoopStep(h, s, e, own) BY <2>2, <2>3, <1>5, <1>7, <1>9, <1>13, <1>15, <1>16 DEF LoopStep
  <2>. QED BY <2>1, <2>4
<1>17. m \in Vals
  <2>1. CASE t = ioroot
    <3>1. IsCall(h, c, n) BY <2>1, <1>15
    <3>2. Programme(h.prog[c][n]) /\ h.prog[c][n] # <<>> BY <3>1, <1>7, CallIs DEF Follows
    <3>3. StepOf(h.prog[c][n]) \in AllSteps BY <3>2, StepFits
    <3>4. m \in Requests BY <3>3, <2>1, <1>15 DEF Requests, CallMessage
    <3>. QED BY <3>4 DEF Vals
  <2>2. CASE t # ioroot
    <3>1. t \in Members(b.on) BY <1>4, MembersOf
    <3>. QED BY <3>1, <2>2, <1>4, <1>12, ReceivedIs DEF Follows
  <2>. QED BY <2>1, <2>2
<1>18. bcasts' \in [Comms -> Seq(Packets)] /\ \E g, r : LoopMet(h, g, t, b, m, s, r)
  BY <1>1, <1>4, <1>12, <1>14, <1>16, <1>17, LoopMeets
<1>19. PICK g, r : LoopMet(h, g, t, b, m, s, r) BY <1>18
<1>20. /\ Measured(g) /\ Logged(g)' /\ CallsKept(h, g) /\ g.cd = h.cd /\ Met(h, g, t, b, m)
       /\ Sound(r) /\ Begins(s.served, r.served) /\ LoopStep(h, s, LogItem(ioroot, b.item, m), r)
       /\ \A i \in 0 .. Top(h, io_comm) : g.loop[i] = h.loop[i]
       /\ g.loop[h.pos[io_comm][t] + 1] = r /\ Reached(g, t) = r
  BY <1>19 DEF LoopMet
<1>21. PICK p : p = h.prog[c][n] OBVIOUS
<1>22. r = AfterMsg(s, m) /\ IsCall(h, c, n) /\ m = CallMessage(p)
  <2>1. PICK e : e = LogItem(ioroot, b.item, m) OBVIOUS
  <2>2. e.val = m /\ LoopStep(h, s, e, r) BY <2>1, <1>20 DEF LogItem
  <2>3. /\ r = AfterMsg(s, m) /\ n \in 0 .. h.last[c] /\ h.prog[c][n] # <<>> /\ m = CallMessage(h.prog[c][n])
    BY <2>2, <1>5, <1>7, <1>9 DEF LoopStep
  <2>. QED BY <2>3, <1>21 DEF IsCall
<1>23. /\ Programme(p) /\ p # <<>> /\ n \in 0 .. h.last[c] /\ h.sp[c][n] \in Nat /\ h.st[c][n] \in Nat /\ Params(p) \in Nat
       /\ ~Shared(p) => h.cd[c][n] = "unknown"
  BY <1>7, <1>21, <1>22, CallIs DEF Follows, IsCall
<1>42. PICK x : Answers(x, c, p, m) BY <1>22, <1>23, HandlerCall
<1>24. /\ Service(m.msg, m.given).handler = {x} /\ Exchanges(c, x.params, x.call) = Agreed(c, p)
       /\ x.call.agree = CallAt(p).agree /\ x.call.results = CallAt(p).results
  BY <1>42 DEF Answers
<1>25. /\ running' = running
       /\ doing' = [doing EXCEPT ![t] = Doing(c, m.msg, m.given, "return", x.call)]
       /\ todo' = [todo EXCEPT ![t] = Agreed(c, p)]
  <2>1. PICK handlers : /\ handlers = Service(m.msg, m.given).handler
                        /\ running' = IF handlers = {} THEN running \ {t} ELSE running
                        /\ \A y : handlers = {y} =>
                             /\ doing' = [doing EXCEPT ![t] = Doing(c, m.msg, m.given, "return", y.call)]
                             /\ todo' = [todo EXCEPT ![t] = Exchanges(c, y.params, y.call)]
    BY <1>12 DEF Switched
  <2>2. handlers = {x} /\ handlers # {} BY <2>1, <1>24
  <2>. QED BY <2>1, <2>2, <1>24
<1>26. m.msg = StepOf(p).msg /\ m.given = StepOf(p).given BY <1>22 DEF CallMessage, Message
<1>27. /\ doing'[t].comp = c /\ doing'[t].msg = m.msg /\ doing'[t].given = m.given
       /\ doing'[t].agree = CallAt(p).agree /\ doing'[t].results = CallAt(p).results
       /\ todo'[t] = Agreed(c, p)
  BY <1>5, <1>24, <1>25 DEF Doing, Shape
<1>28. ~IsIdle(t)' /\ Busy(t, c)' /\ Makes(t, p)'
  <2>1. WellFormed(StepOf(p)) BY <1>23, StepFits
  <2>. QED BY <2>1, <1>23, <1>26, <1>27 DEF IsIdle, Busy, Makes, WellFormed
<1>29. /\ Agreed(c, p) \in Seq(Meetings) /\ Agreed(c, p) # <<>>
       /\ LeftOf(Script(c, p, "unknown", h.hand[c][n]), 0, Agreed(c, p))
  <2>1. PICK y : y = Exchanges(c, When(TRUE, CallAt(p).params), CallAt(p)) OBVIOUS
  <2>2. y = Agreed(c, p) BY <2>1 DEF When, Agreed
  <2>3. PICK k : k = IF TRUE THEN 0 ELSE Params(p) OBVIOUS
  <2>4. k = 0 BY <2>3
  <2>. QED BY <2>1, <2>2, <2>3, <2>4, <1>7, <1>23, StartsScript
<1>30. Shape'
  <2>1. todo' \in [Tasks -> Seq(Meetings)] BY <1>25, <1>29 DEF Shape
  <2>2. DOMAIN doing' = Tasks BY <1>25 DEF Shape
  <2>. QED BY <2>1, <2>2, <1>2, <1>18, <1>25 DEF Shape
<1>31. PlacedAt(h, t, c) /\ ~Busy(t, c) /\ t \in Members(my_comm(c)) /\ t \in Members(intercomm(c))
  BY <1>5, <1>7, MembersOf DEF Follows, Placed, Busy
\* The task at the first broadcast of the call.
<1>32. PlacedAt(g, t, c)'
  <2>1. eh'[t][c] = h.hand[c][n] /\ AtRest(h, t, c) BY <1>2, <1>8, <1>31 DEF PlacedAt
  <2>2. Abreast(g, t, c, n, 0)
    <3>1. h.pos[my_comm(c)][t] = h.st[c][n] /\ h.pos[intercomm(c)][t] = h.sp[c][n]
      BY <2>1, <1>8, <1>31 DEF AtRest
    <3>2. g.pos[my_comm(c)][t] = h.pos[my_comm(c)][t] /\ g.pos[intercomm(c)][t] = h.pos[intercomm(c)][t]
      BY <1>4, <1>5, <1>7, <1>20, CommsApart DEF Met
    <3>3. g.prog = h.prog /\ g.st = h.st /\ g.sp = h.sp BY <1>20 DEF CallsKept
    <3>4. PICK P \in Nat : P = Params(p) BY <1>23
    <3>5. /\ g.pos[my_comm(c)][t] = g.st[c][n] + (IF 0 <= P THEN 0 ELSE 0 - P)
          /\ g.pos[intercomm(c)][t] = g.sp[c][n] + (IF 0 <= P THEN 0 ELSE P)
      BY <3>1, <3>2, <3>3, <1>23
    <3>. QED BY <3>3, <3>4, <3>5, <1>21, <1>31 DEF Abreast
  <2>3. Informed(t, p, g.cd[c][n])'
    <3>1. ASSUME t = ioroot PROVE h.cd[c][n] = "unknown"
      BY <3>1, <1>7, <1>8, <1>23, <1>31 DEF Follows, Undecided
    <3>. QED BY <3>1, <1>2, <1>7, <1>20, <1>27, <1>29 DEF Informed
  <2>4. Known(p, code'[t]) = "unknown" /\ code'[t] = "unknown" BY <1>2, <1>7 DEF Known
  <2>5. g.hand = h.hand /\ g.prog = h.prog /\ g.num = h.num /\ g.last = h.last BY <1>20 DEF CallsKept
  <2>6. InCallAt(g, t, c, n, p, 0)' BY <2>2, <2>3, <2>4, <2>5, <1>27, <1>29 DEF InCallAt
  <2>7. g.num[t][c] = n /\ g.prog[c][n] = p BY <2>5, <1>8, <1>21
  <2>8. InScript(g, t, c, 0)' BY <2>6, <2>7 DEF InScript
  <2>9. \E k \in Nat : InScript(g, t, c, k)' BY <2>8
  <2>. QED BY <2>1, <2>5, <2>7, <2>9, <1>23, <1>28 DEF PlacedAt
<1>33. \A d \in Components : PlacedAt(g, t, d)'
  <2>. SUFFICES ASSUME NEW d \in Components, d # c PROVE PlacedAt(g, t, d)' BY <1>32
  <2>1. ~Busy(t, d) /\ ~Busy(t, d)' BY <1>5, <1>27 DEF Busy
  <2>2. PlacedAt(h, t, d) BY MembersOf DEF Follows, Placed
  <2>3. AtRest(h, t, d) /\ h.num[t][d] \in 0 .. h.last[d] /\ eh'[t][d] = h.hand[d][h.num[t][d]]
    BY <2>1, <2>2, <1>2 DEF PlacedAt
  <2>4. g.pos[my_comm(d)][t] = h.pos[my_comm(d)][t] /\ g.pos[intercomm(d)][t] = h.pos[intercomm(d)][t]
    BY <1>4, <1>5, <1>20, CommsApart DEF Met
  <2>5. AtRest(g, t, d) BY <2>3, <2>4, <1>20 DEF AtRest, CallsKept
  <2>. QED BY <2>1, <2>3, <2>5, <1>20 DEF PlacedAt, CallsKept
\* The task in the message loop.
<1>34. /\ r.left = s.left - 1 /\ r.open = StillOpen(s, m)
       /\ r.at = IF m.msg = "EXIT" /\ s.open = 1 THEN "over" ELSE IF s.left > 1 THEN "index" ELSE "count"
       /\ r.num = [d \in Components |-> IF d = c THEN s.num[d] + 1 ELSE s.num[d]]
       /\ r.served = Append(s.served, <<c, n>>)
  BY <1>7, <1>9, <1>22 DEF AfterMsg
<1>35. ServingAt(g, t)'
  <2>1. PICK o \in Nat, l \in Nat : o = s.open /\ l = s.left /\ 0 < l /\ l <= o /\ o <= NumComponents
    BY <1>7, <1>10
  <2>2. outcount'[t] = r.left + 1 /\ r.left < NumComponents BY <2>1, <1>2, <1>7, <1>10, <1>34
  <2>3. /\ openComps'[t] = (IF m.msg = "EXIT" THEN r.open + 1 ELSE r.open)
        /\ openComps'[t] \in 1 .. NumComponents
    <3>1. r.open = IF m.msg = "EXIT" THEN o - 1 ELSE o BY <2>1, <1>34 DEF StillOpen
    <3>2. openComps'[t] = o BY <2>1, <1>2, <1>7
    <3>3. CASE m.msg = "EXIT" BY <3>1, <3>2, <3>3, <2>1, <1>10
    <3>4. CASE m.msg # "EXIT" BY <3>1, <3>2, <3>4, <2>1, <1>10
    <3>. QED BY <3>3, <3>4
  <2>4. r.at = IF m.msg = "EXIT" /\ r.open = 0 THEN "over" ELSE IF r.left > 0 THEN "index" ELSE "count"
    <3>1. m.msg = "EXIT" => r.open = o - 1 BY <2>1, <1>34 DEF StillOpen
    <3>2. (m.msg = "EXIT" /\ o = 1) <=> (m.msg = "EXIT" /\ r.open = 0) BY <3>1, <2>1
    <3>3. r.left > 0 <=> l > 1 BY <2>1, <1>34
    <3>. QED BY <3>2, <3>3, <2>1, <1>34
  <2>5. /\ r.num[c] = g.num[t][c] + 1
        /\ \A d \in Components \ {c} : r.num[d] = g.num[t][d]
    BY <1>5, <1>7, <1>8, <1>9, <1>20, <1>34 DEF CallsKept
  <2>6. Len(r.served) > 0 /\ r.served[Len(r.served)] = <<c, g.num[t][c]>>
    <3>1. Len(r.served) = Len(s.served) + 1 /\ Len(s.served) \in Nat /\ r.served[Len(s.served) + 1] = <<c, n>>
      <4>1. <<c, n>> \in Components \X Nat BY <1>7, <1>9
      <4>. QED BY <4>1, <1>7, <1>34
    <3>. QED BY <3>1, <1>8, <1>20 DEF CallsKept
  <2>7. doing'[t].msg = m.msg /\ t \in running' /\ doing'[t].comp = c BY <1>5, <1>25, <1>27
  <2>8. InHandler(g, t, r, c)' BY <2>2, <2>3, <2>4, <2>5, <2>6, <2>7, <1>7 DEF InHandler
  <2>9. Reached(g, t)' = r BY <1>20 DEF Reached
  <2>. QED BY <2>7, <2>8, <2>9, <1>28 DEF ServingAt
<1>36. HasServed(g, t, r.served)'
  <2>1. HasServed(h, t, s.served) BY <1>1 DEF Follows, Remembered
  <2>2. PICK x1, y1 : x1 = s.served /\ y1 = r.served OBVIOUS
  <2>3. Len(done[t]) \in Nat /\ done'[t] = done[t] BY <1>2, <1>5 DEF Shape
  <2>4. Len(x1) = Len(done[t]) /\ x1 \in Seq(Components \X Nat) BY <2>1, <2>2, <2>3, <1>5, <1>7 DEF HasServed
  <2>5. <<c, n>> \in Components \X Nat BY <1>7, <1>9
  <2>6. Len(y1) = Len(done[t]) + 1 /\ \A i \in 1 .. Len(done[t]) : y1[i] = x1[i]
    BY <2>2, <2>4, <2>5, <1>34
  <2>7. ASSUME NEW i \in 1 .. Len(done[t])
        PROVE  /\ y1[i][1] \in Components /\ y1[i][2] \in 0 .. h.num[t][y1[i][1]] - 1
               /\ done[t][i] = EntryFor(h, t, y1[i][1], y1[i][2])
    BY <2>1, <2>2, <2>6 DEF HasServed
  <2>8. \A d, i : EntryFor(g, t, d, i) = EntryFor(h, t, d, i) BY <1>20 DEF EntryFor, CallsKept
  <2>9. g.num = h.num BY <1>20 DEF CallsKept
  <2>10. HasServed(g, t, y1)' BY <2>3, <2>6, <2>7, <2>8, <2>9, <1>28 DEF HasServed
  <2>. QED BY <2>2, <2>10
<1>37. \A u \in Tasks : u # t => Untouched(u) BY <1>2, <1>25 DEF Untouched
<1>38. \A u \in IOTasks : u # t => /\ outcount'[u] = outcount[u] /\ openComps'[u] = openComps[u]
                                   /\ u \in running' <=> u \in running
  BY <1>2, <1>25
<1>39. PICK q : q = h.pos[io_comm][t] OBVIOUS
<1>40. Follows(g)'
  BY <1>1, <1>2, <1>4, <1>5, <1>20, <1>30, <1>33, <1>35, <1>36, <1>37, <1>38, <1>39, LoopGoesOn
<1>41. Batch'
  <2>2. CASE t # ioroot
    <3>1. todo'[ioroot] = todo[ioroot] /\ doing'[ioroot] = doing[ioroot]
      BY <2>2, <1>37, TasksApart DEF Untouched
    <3>2. IsIdle(ioroot)' <=> IsIdle(ioroot) BY <3>1 DEF IsIdle
    <3>. QED BY <3>1, <3>2, <1>2 DEF Batch, TakenUp
  <2>3. CASE t = ioroot
    <3>1. todo[ioroot] = <<b>> /\ IsIdle(ioroot) /\ ~IsIdle(ioroot)' BY <2>3, <1>5, <1>28
    <3>5. Msg # Outcount BY DEF Msg, Outcount, INT
    <3>6. b # Bcast(io_comm, ioroot, Outcount) BY <3>5, <1>4, LoopBcasts
    <3>7. todo[ioroot] \notin {<<>>, <<Bcast(io_comm, ioroot, Outcount)>>} BY <3>1, <3>6
    <3>8. Len(index) = outcount[ioroot] BY <3>1, <3>7 DEF Batch
    <3>9. index # <<>> /\ index[1] = doing[ioroot].comp /\ doing[ioroot].comp = doing'[ioroot].comp
      <4>1. doing[ioroot].comp = c /\ doing'[ioroot].comp = c /\ c # 0 BY <2>3, <1>1, <1>7, <1>27 DEF Components
      <4>. QED BY <4>1 DEF Batch
    <3>. QED BY <3>1, <3>8, <3>9, <1>2 DEF Batch, TakenUp
  <2>. QED BY <2>2, <2>3
<1>. QED BY <1>30, <1>40, <1>41 DEF Kept

\* An order of a finite set has each member once.
LEMMA OrderOf ==
  ASSUME NEW S, IsFiniteSet(S), NEW f \in SetToSeqs(S)
  PROVE  /\ f \in Seq(S) /\ Len(f) = Cardinality(S) /\ Cardinality(S) \in Nat
         /\ {f[i] : i \in DOMAIN f} = S
         /\ \A i, j \in DOMAIN f : i # j => f[i] # f[j]
<1>1. PICK n : n = Cardinality(S) OBVIOUS
<1>2. n \in Nat BY <1>1, FS_CardinalityType
<1>. DEFINE D == 1 .. n
<1>3. f \in [D -> S] /\ \A i, j \in D : i # j => f[i] # f[j] BY <1>1 DEF SetToSeqs
<1>4. f \in Injection(D, S) BY <1>3 DEF Injection, IsInjective
<1>5. Cardinality(D) = n /\ IsFiniteSet(D) BY <1>2, FS_Interval
<1>6. f \in Surjection(D, S) BY <1>1, <1>4, <1>5, FS_Injection
<1>7. \A x \in S : \E i \in D : f[i] = x BY <1>6 DEF Surjection
<1>8. f \in Seq(S) /\ Len(f) = n /\ DOMAIN f = D BY <1>2, <1>3
<1>. HIDE DEF D
<1>. QED BY <1>1, <1>2, <1>3, <1>7, <1>8

LEMMA WaitsomeKeeps ==
  ASSUME ProgramsFit, Shape, Batch, NEW h, Follows(h), Waitsome
  PROVE  Kept
<1>1. /\ Measured(h) /\ Calls(h) /\ Logged(h) /\ Recorded(h) /\ Ahead(h) /\ Placed(h) /\ Undecided(h)
      /\ Calling(h) /\ Looped(h) /\ Serving(h) /\ Carried(h) /\ Remembered(h)
  BY DEF Follows
<1>2. PICK ready : ready = {c \in listening : inbox[c] # <<>>} OBVIOUS
<1>3. /\ ioroot \in running /\ IsIdle(ioroot) /\ todo[ioroot] = <<>>
      /\ todo' = [todo EXCEPT ![ioroot] = <<Bcast(io_comm, ioroot, Outcount)>>]
      /\ UNCHANGED <<program, doing, code, eh, done, bcasts, outcount, openComps, running>>
      /\ \E S \in (SUBSET ready) \ {{}} :
            /\ \E order \in SetToSeqs(S) : index' = order
            /\ listening' = listening \ S
            /\ messages' = [c \in Components |-> IF c \in S THEN Head(inbox[c]) ELSE messages[c]]
            /\ inbox' = [c \in Components |-> IF c \in S THEN Tail(inbox[c]) ELSE inbox[c]]
  BY <1>2 DEF Waitsome, InLoop, Becomes
<1>4. PICK S \in (SUBSET ready) \ {{}} :
            /\ \E order \in SetToSeqs(S) : index' = order
            /\ listening' = listening \ S
            /\ messages' = [c \in Components |-> IF c \in S THEN Head(inbox[c]) ELSE messages[c]]
            /\ inbox' = [c \in Components |-> IF c \in S THEN Tail(inbox[c]) ELSE inbox[c]]
  BY <1>3
<1>5. listening \subseteq Components /\ inbox \in [Components -> Seq(Requests)] BY DEF Shape
<1>6. S \subseteq listening /\ S \subseteq Components /\ S # {} /\ (\A c \in S : inbox[c] # <<>>) BY <1>2, <1>4, <1>5
<1>7. IsFiniteSet(Components) /\ IsFiniteSet(S)
  <2>1. NumComponents \in Nat BY AsyncAssumption
  <2>2. IsFiniteSet(Components) BY <2>1, FS_Interval DEF Components
  <2>. QED BY <2>2, <1>6, FS_Subset
<1>8. /\ index' \in Seq(S) /\ Len(index') = Cardinality(S) /\ TakenUp' = S
      /\ \A i, j \in DOMAIN index' : i # j => index'[i] # index'[j]
  BY <1>4, <1>7, OrderOf DEF TakenUp
<1>9. TakenUp = {}
  <2>1. todo[ioroot] \in {<<>>, <<Bcast(io_comm, ioroot, Outcount)>>} BY <1>3
  <2>2. index = <<>> BY <2>1, <1>3 DEF Batch
  <2>. QED BY <2>2 DEF TakenUp
<1>10. ioroot \in Tasks /\ ioroot \in IOTasks /\ \A d \in Components : comproot(d) \in Tasks BY TasksApart
<1>11. \A u \in Tasks : u # ioroot => Untouched(u) BY <1>3 DEF Untouched
<1>12. \A u : IsIdle(u)' <=> IsIdle(u) BY <1>3 DEF IsIdle
<1>13. todo'[ioroot] = <<Bcast(io_comm, ioroot, Outcount)>> BY <1>3, <1>10 DEF Shape
<1>14. Shape'
  <2>1. todo' \in [Tasks -> Seq(Meetings)]
    <3>1. PICK m \in Meetings : m = Bcast(io_comm, ioroot, Outcount) BY LoopBcasts
    <3>2. <<m>> \in Seq(Meetings) OBVIOUS
    <3>. QED BY <3>1, <3>2, <1>3 DEF Shape
  <2>2. inbox' \in [Components -> Seq(Requests)]
    <3>1. \A c \in S : Tail(inbox[c]) \in Seq(Requests) BY <1>5, <1>6
    <3>. QED BY <3>1, <1>4, <1>5
  <2>3. index' \in Seq(Components) BY <1>6, <1>8
  <2>4. listening' \subseteq Components BY <1>4, <1>5
  <2>5. DOMAIN messages' = Components BY <1>4
  <2>. QED BY <2>1, <2>2, <2>3, <2>4, <2>5, <1>3 DEF Shape
<1>15. Logged(h)' /\ Recorded(h)' /\ Ahead(h)' /\ \A comm : Top(h, comm)' = Top(h, comm)
  BY <1>1, <1>3, NoBcast
<1>16. Placed(h)'
  <2>. SUFFICES ASSUME NEW d \in Components, NEW u \in Members(my_comm(d)) PROVE PlacedAt(h, u, d)'
    BY MembersOf DEF Placed
  <2>1. u \in Tasks /\ PlacedAt(h, u, d) BY <1>1, MembersAreTasks, CommsApart DEF Placed
  <2>2. CASE u # ioroot BY <2>1, <2>2, <1>1, <1>11, SameStays
  <2>3. CASE u = ioroot
    <3>1. ~Busy(u, d) /\ ~Busy(u, d)' BY <2>3, <1>3, <1>12 DEF Busy
    <3>. QED BY <3>1, <2>1, <1>3 DEF PlacedAt
  <2>. QED BY <2>2, <2>3
<1>17. Undecided(h)'
  <2>1. \A d : Busy(ioroot, d)' <=> Busy(ioroot, d) BY <1>3, <1>12 DEF Busy
  <2>. QED BY <2>1, <1>1 DEF Undecided
<1>18. Calling(h)'
  <2>. SUFFICES ASSUME NEW d \in Components, NEW u \in CompTasks(d) PROVE CallingAt(h, u, d)'
    BY DEF Calling
  <2>1. u \in Tasks /\ u # ioroot /\ CallingAt(h, u, d) BY <1>1, TasksApart DEF Calling
  <2>. QED BY <2>1, <1>3, <1>11, <1>12 DEF CallingAt, Untouched
<1>19. Looped(h)' BY <1>1, <1>15, StaysLooped
<1>20. Serving(h)'
  <2>. SUFFICES ASSUME NEW u \in IOTasks PROVE ServingAt(h, u)'
    BY DEF Serving
  <2>1. ServingAt(h, u) /\ u \in Tasks BY <1>1, TasksApart DEF Serving
  <2>2. CASE u # ioroot BY <2>1, <2>2, <1>3, <1>11, StaysServing DEF Untouched
  <2>3. CASE u = ioroot BY <2>1, <2>3, <1>3, <1>13, StaysServing
  <2>. QED BY <2>2, <2>3
<1>21. Carried(h)'
  <2>. SUFFICES ASSUME NEW d \in Components, NEW n, n = h.num[ioroot][d] PROVE CarriedAt(h, d, n)'
    BY DEF Carried
  <2>1. CarriedAt(h, d, n) BY <1>1 DEF Carried
  <2>2. n \in Nat BY <1>1, <1>10, Numbers
  <2>3. PICK m : m = Begun(h, d) OBVIOUS
  <2>4. m \in Nat /\ Begun(h, d)' = m
    <3>1. h.num[comproot(d)][d] \in Nat BY <1>1, <1>10, Numbers
    <3>. QED BY <3>1, <2>3, <1>12 DEF Begun
  <2>5. OnTheWay(h, d, n) /\ (d \notin listening => n > 0 /\ StepOf(h.prog[d][n - 1]).msg = "EXIT")
    BY <2>1, <1>9 DEF CarriedAt
  <2>6. PICK y \in Seq(Requests) : y = inbox[d] BY <1>5
  <2>7. Len(y) = m - n /\ \A i \in 1 .. Len(y) : y[i] = CallMessage(h.prog[d][n + i - 1])
    BY <2>3, <2>5, <2>6 DEF OnTheWay
  <2>8. CASE d \in S
    <3>1. y # <<>> /\ inbox'[d] = Tail(y) /\ messages'[d] = Head(y) BY <2>6, <2>8, <1>4, <1>6
    <3>2. /\ Len(y) > 0 /\ Len(Tail(y)) = Len(y) - 1 /\ Head(y) = y[1] /\ 1 \in 1 .. Len(y)
          /\ \A i \in 1 .. Len(y) - 1 : Tail(y)[i] = y[i + 1]
      BY <3>1
    <3>3. n < m /\ Len(Tail(y)) = m - (n + 1) BY <3>2, <2>2, <2>4, <2>7
    <3>4. messages'[d] = CallMessage(h.prog[d][n])
      <4>1. n + 1 - 1 = n BY <2>2
      <4>. QED BY <4>1, <3>1, <3>2, <2>7
    <3>5. ASSUME NEW i \in 1 .. Len(Tail(y)) PROVE Tail(y)[i] = CallMessage(h.prog[d][(n + 1) + i - 1])
      <4>1. i \in 1 .. Len(y) - 1 /\ i + 1 \in 1 .. Len(y) /\ n + (i + 1) - 1 = (n + 1) + i - 1 BY <3>2, <2>2
      <4>. QED BY <4>1, <3>2, <2>7
    <3>6. PICK z : z = Tail(y) OBVIOUS
    <3>7. inbox'[d] = z /\ Len(z) = m - (n + 1) /\ \A i \in 1 .. Len(z) : z[i] = CallMessage(h.prog[d][(n + 1) + i - 1])
      BY <3>1, <3>3, <3>5, <3>6
    <3>8. OnTheWay(h, d, n + 1)' BY <3>7, <2>4 DEF OnTheWay
    <3>. QED BY <3>3, <3>4, <3>8, <2>4, <2>8, <1>8 DEF CarriedAt
  <2>9. CASE d \notin S
    <3>1. inbox'[d] = y /\ d \notin TakenUp' /\ (d \in listening' <=> d \in listening) BY <2>6, <2>9, <1>4, <1>8
    <3>2. OnTheWay(h, d, n)' BY <3>1, <2>4, <2>7 DEF OnTheWay
    <3>. QED BY <3>1, <3>2, <2>5 DEF CarriedAt
  <2>. QED BY <2>8, <2>9
<1>22. CallsKept(h, h) /\ Learned(h, h) BY DEF CallsKept, Learned
<1>23. \A d \in Components : \A u \in Members(my_comm(d)) : u \in Tasks /\ h.num[u][d] <= h.last[d]
  <2>1. \A d \in Components : \A u \in Members(my_comm(d)) : u \in Tasks BY MembersAreTasks, CommsApart
  <2>2. ASSUME NEW d \in Components, NEW u \in Members(my_comm(d)) PROVE h.num[u][d] <= h.last[d]
    <3>1. h.num[u][d] \in 0 .. h.last[d] BY <1>1 DEF Placed, PlacedAt
    <3>2. h.last[d] \in Nat BY <1>1, Numbers
    <3>. QED BY <3>1, <3>2
  <2>. QED BY <2>1, <2>2
<1>24. Remembered(h)'
  <2>1. ASSUME NEW d \in Components, NEW u \in Members(my_comm(d)) PROVE Recalled(h, u, d)'
    <3>1. Recalled(h, u, d) BY <1>1 DEF Remembered
    <3>. QED BY <3>1, <1>1, <1>3, <1>22, <1>23, StaysRecalled
  <2>2. ASSUME NEW u \in IOTasks PROVE HasServed(h, u, Reached(h, u).served)'
    <3>1. PICK s : s = Reached(h, u).served OBVIOUS
    <3>2. HasServed(h, u, s)' BY <3>1, <1>1, <1>3, <1>12, <1>22, ServedStill
    <3>3. (Reached(h, u).served)' = s BY <3>1 DEF Reached
    <3>. QED BY <3>2, <3>3
  <2>. QED BY <2>1, <2>2, MembersOf DEF Remembered
<1>25. Batch'
  <2>1. listening' \cap TakenUp' = {} /\ listening' \cup TakenUp' = listening \cup TakenUp
    BY <1>4, <1>6, <1>8, <1>9
  <2>2. openComps'[ioroot] = Cardinality(listening' \cup TakenUp') BY <2>1, <1>3 DEF Batch
  <2>3. doing'[ioroot].comp = 0
    <3>1. ServingAt(h, ioroot) /\ Sound(Reached(h, ioroot)) BY <1>10, InTheLoop
    <3>2. PICK s : s = Reached(h, ioroot) OBVIOUS
    <3>3. Waiting(ioroot, s) BY <3>1, <3>2, <1>3 DEF ServingAt
    <3>4. s.at # "msg"
      <4>1. s.at = "msg" => todo[ioroot] = <<Bcast(io_comm, ioroot, Msg)>> BY <3>3 DEF Waiting
      <4>. QED BY <4>1, <1>3
    <3>. QED BY <3>3, <3>4, <1>3 DEF Waiting
  <2>4. index' # <<>>
    <3>1. PICK c \in S : TRUE BY <1>6
    <3>2. c \in TakenUp' BY <3>1, <1>8
    <3>. QED BY <3>2 DEF TakenUp
  <2>5. todo'[ioroot] # <<>> BY <1>13
  <2>. QED BY <2>1, <2>2, <2>3, <2>4, <2>5, <1>3, <1>8, <1>12, <1>13 DEF Batch
<1>26. Follows(h)'
  BY <1>1, <1>15, <1>16, <1>17, <1>18, <1>19, <1>20, <1>21, <1>24 DEF Follows
<1>. QED BY <1>14, <1>25, <1>26 DEF Kept

=============================================================================
